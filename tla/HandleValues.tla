---------------------------- MODULE HandleValues ----------------------------
(***************************************************************************)
(* What shared_bitmap promises: every handle is a set of keys of its own.  *)
(* A call takes effect in one step between its start and its return, on    *)
(* the handles it was given and on no other, as if nothing were shared.    *)
(***************************************************************************)
EXTENDS HandleCalls

VARIABLES val,      \* the keys of each handle
          call,     \* the call each thread is in, or NoCall
          outcome   \* what that call will return, "none" until it takes effect

vars == <<val, call, outcome>>

Init == /\ val     = [h \in Handles |-> {}]
        /\ call    = [t \in Threads |-> NoCall]
        /\ outcome = [t \in Threads |-> "none"]

Begin(t) ==
  /\ call[t] = NoCall
  /\ \E c \in DistinctCalls :
        /\ \A u \in Threads : call[u] # NoCall => Compatible(c, call[u])
        /\ call' = [call EXCEPT ![t] = c]
  /\ UNCHANGED <<val, outcome>>

\* The values of all handles once c has taken effect.
After(c) ==
  LET left == [val EXCEPT ![c.h] = Combined(c.op, val[c.h], val[c.g], c.k)]
  IN  CASE c.op = "swap"                -> [left EXCEPT ![c.g] = val[c.h]]
        [] c.op = "move" /\ c.g # c.h   -> [left EXCEPT ![c.g] = {}]
        [] OTHER                        -> left

\* The call takes effect.
Apply(t) ==
  /\ call[t] # NoCall /\ outcome[t] = "none"
  /\ val' = After(call[t])
  /\ outcome' = [outcome EXCEPT ![t] = Returned(call[t].op, val' # val)]
  /\ UNCHANGED call

\* The call throws bad_alloc: a change may be left half done, the calls that
\* build a bitmap first leave the handle as it was.
Throw(t) ==
  /\ call[t] # NoCall /\ outcome[t] = "none"
  /\ LET c == call[t]
     IN  \/ /\ c.op \in PointOps \cup BinaryOps
            /\ \E s \in LeftByFailure(c.op, val[c.h], val[c.g], c.k) :
                  val' = [val EXCEPT ![c.h] = s]
         \/ /\ c.op \in {"make", "edit"}
            /\ UNCHANGED val
  /\ outcome' = [outcome EXCEPT ![t] = "threw"]
  /\ UNCHANGED call

\* A write through the editor of h, while the editor is alive.
EditorWrite(t) ==
  /\ call[t] # NoCall /\ outcome[t] = "none" /\ call[t].op = "edit"
  /\ \E k \in Keys, op \in PointOps :
        val' = [val EXCEPT ![call[t].h] = Combined(op, @, {}, k)]
  /\ UNCHANGED <<call, outcome>>

Return(t) ==
  /\ call[t] # NoCall /\ outcome[t] # "none"
  /\ call'    = [call    EXCEPT ![t] = NoCall]
  /\ outcome' = [outcome EXCEPT ![t] = "none"]
  /\ UNCHANGED val

Next == \E t \in Threads :
           Begin(t) \/ Apply(t) \/ Throw(t) \/ EditorWrite(t) \/ Return(t)

Spec == Init /\ [][Next]_vars
=============================================================================

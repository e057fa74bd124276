---------------------------- MODULE AtomicCache ----------------------------
(***************************************************************************)
(* What segcache promises of get, insert and delete, whatever the threads, *)
(* drains and retries behind them: a map from keys to values in which each *)
(* successful insert binds its key in one step, a key may become absent at *)
(* any time (a delete, an eviction, an expiry), and an answer is one that  *)
(* was true of the key at some moment of the call.                         *)
(***************************************************************************)
CONSTANTS Threads, Keys, Values, Absent, None

VARIABLES
    map,   \* the value of each key, or Absent
    call,  \* the call each thread is in
    seen   \* what has been true of the call's key since the call began

vars == <<map, call, seen>>

NoCall == [op |-> "none", key |-> None, val |-> None, res |-> None, bound |-> FALSE]

Init ==
    /\ map = [k \in Keys |-> Absent]
    /\ call = [t \in Threads |-> NoCall]
    /\ seen = [t \in Threads |-> {}]

\* A part of every step.
Watch ==
    seen' = [t \in Threads |->
        IF call'[t] = NoCall THEN {}
        ELSE seen[t] \cup {map'[call'[t].key]}
                     \cup (IF call[t] = NoCall THEN {map[call'[t].key]} ELSE {})]

Begin(t) ==
    /\ call[t] = NoCall
    /\ \E k \in Keys :
          \/ \E op \in {"get", "delete"} :
                call' = [call EXCEPT ![t] = [NoCall EXCEPT !.op = op, !.key = k]]
          \/ \E v \in Values :
                call' = [call EXCEPT ![t] = [NoCall EXCEPT !.op = "insert", !.key = k, !.val = v]]
    /\ UNCHANGED map
    /\ Watch

\* An insert takes effect, once, and may return in the same step.
Bind(t) ==
    LET c == call[t] IN
    /\ c.op = "insert" /\ c.res = None /\ ~c.bound
    /\ \E res \in {None, "ok"} :
          call' = [call EXCEPT ![t].bound = TRUE, ![t].res = res]
    /\ map' = [map EXCEPT ![c.key] = c.val]
    /\ Watch

\* The answers a call may give: the value it saw, or that its retries are spent;
\* that it took effect, or that it failed; that it removed nothing, or that it
\* left the key absent.
Answers(t) ==
    LET c == call[t] IN
    CASE c.op = "get"    -> seen[t] \cup {"spent"}
      [] c.op = "insert" -> {IF c.bound THEN "ok" ELSE "err"}
      [] c.op = "delete" -> {"missing"} \cup (IF Absent \in seen[t] THEN {"deleted"} ELSE {})

Answer(t) ==
    /\ call[t] # NoCall /\ call[t].res = None
    /\ \E res \in Answers(t) : call' = [call EXCEPT ![t].res = res]
    /\ UNCHANGED map
    /\ Watch

Return(t) ==
    /\ call[t].res # None
    /\ call' = [call EXCEPT ![t] = NoCall]
    /\ UNCHANGED map
    /\ Watch

\* A key goes away.
Drop(k) ==
    /\ map[k] # Absent
    /\ UNCHANGED call
    /\ map' = [map EXCEPT ![k] = Absent]
    /\ Watch

Next ==
    \/ \E t \in Threads : Begin(t) \/ Bind(t) \/ Answer(t) \/ Return(t)
    \/ \E k \in Keys : Drop(k)

Spec == Init /\ [][Next]_vars
=============================================================================

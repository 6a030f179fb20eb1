------------------------------- MODULE KVIndex --------------------------------
(***************************************************************************)
(* What BTreeOLCIndex (src/storage/index.h) promises to the worker threads *)
(* that share it: an ordered map in which every insert and every find      *)
(* takes effect at one instant between its call and its return, and a scan *)
(* is a sequence of such instants.  Each of them fetches, in key order, a  *)
(* non-empty run of the entries from the scan's position on, and finds     *)
(* nothing only if there is nothing left to find.                          *)
(*                                                                         *)
(* A find of an absent key returns whatever its result variable happened   *)
(* to hold, so what it returns is left open.                               *)
(***************************************************************************)
EXTENDS Naturals, FiniteSets, SequencesExt

CONSTANTS
  Threads,      \* threads that call the index
  Keys,         \* the keys, a set of numbers
  Payloads,     \* the values stored under them
  KeyAt(_),     \* the key a payload points to
  Calls,        \* the calls a thread may make
  None,         \* no payload, no call
  Unset         \* the value of a variable that was never assigned

VARIABLES
  map,          \* payload of each key, None when the key is absent
  call,         \* the call each thread is in
  phase,        \* "idle", "open" (not yet in effect) or "done"
  from,         \* the key a scan continues at
  out           \* what the call has returned so far

kvVars == <<map, call, phase, from, out>>

InsertCalls == {c \in Calls : c.op = "insert"}

Present(m) == {k \in Keys : m[k] # None}

\* The keys of a map from k on, in ascending order.
Ascending(m, k) ==
  LET S == {j \in Present(m) : j >= k}
  IN  [i \in 1..Cardinality(S) |->
         CHOOSE j \in S : Cardinality({h \in S : h <= j}) = i]

PayloadsOf(m, ks) == [i \in DOMAIN ks |-> m[ks[i]]]

Init ==
  /\ map = [k \in Keys |-> None]
  /\ call = [t \in Threads |-> None]
  /\ phase = [t \in Threads |-> "idle"]
  /\ from = [t \in Threads |-> 0]
  /\ out = [t \in Threads |-> <<>>]

Invoke(t, c) ==
  /\ phase[t] = "idle"
  /\ phase' = [phase EXCEPT ![t] = "open"]
  /\ call' = [call EXCEPT ![t] = c]
  /\ from' = [from EXCEPT ![t] = c.key]
  /\ out' = [out EXCEPT ![t] = <<>>]
  /\ UNCHANGED map

Insert(t) ==
  /\ phase[t] = "open"
  /\ call[t].op = "insert"
  /\ map' = [map EXCEPT ![call[t].key] = call[t].val]
  /\ phase' = [phase EXCEPT ![t] = "done"]
  /\ UNCHANGED <<call, from, out>>

Find(t) ==
  /\ phase[t] = "open"
  /\ call[t].op = "find"
  /\ out' = [out EXCEPT ![t] =
               <<IF map[from[t]] = None THEN Unset ELSE map[from[t]]>>]
  /\ phase' = [phase EXCEPT ![t] = "done"]
  /\ UNCHANGED <<map, call, from>>

\* One instant of a scan: the next n entries.
Fetch(t) ==
  /\ phase[t] = "open"
  /\ call[t].op = "scan"
  /\ LET rest == Ascending(map, from[t])
         wanted == call[t].range - Len(out[t])
     IN  \E n \in 0..wanted :
           LET fetched == PayloadsOf(map, SubSeq(rest, 1, n))
           IN  /\ n <= Len(rest)
               /\ n = 0 <=> rest = <<>>
               /\ out' = [out EXCEPT ![t] = @ \o fetched]
               /\ IF n = 0 \/ n = wanted
                    THEN /\ phase' = [phase EXCEPT ![t] = "done"]
                         /\ from' = from
                    ELSE /\ from' = [from EXCEPT ![t] = KeyAt(Last(fetched)) + 1]
                         /\ phase' = phase
  /\ UNCHANGED <<map, call>>

Return(t) ==
  /\ phase[t] = "done"
  /\ phase' = [phase EXCEPT ![t] = "idle"]
  /\ call' = [call EXCEPT ![t] = None]
  /\ from' = [from EXCEPT ![t] = 0]
  /\ out' = [out EXCEPT ![t] = <<>>]
  /\ UNCHANGED map

Next ==
  \E t \in Threads :
    \/ \E c \in Calls : Invoke(t, c)
    \/ Insert(t)
    \/ Find(t)
    \/ Fetch(t)
    \/ Return(t)

Spec == Init /\ [][Next]_kvVars
===============================================================================

---------------------------- MODULE MCResolution -----------------------------
(* Three sources: private mail p with a deadline, a post b that reopens     *)
(* applications and announces an event, and a page c that repeats the event.*)
EXTENDS Resolution, TLC

CONSTANTS p, b, c

ClaimTable ==
  [pDeadline |-> [version |-> p, field |-> "deadline", time |-> 1, score |-> 3, orphan |-> 2],
   bOpen     |-> [version |-> b, field |-> "open",     time |-> 2, score |-> 3, orphan |-> 2],
   bEvent    |-> [version |-> b, field |-> "event",    time |-> 2, score |-> 3, orphan |-> 2],
   cDeadline |-> [version |-> c, field |-> "deadline", time |-> 3, score |-> 2, orphan |-> 1],
   cEvent    |-> [version |-> c, field |-> "event",    time |-> 3, score |-> 2, orphan |-> 1]]

AllClaims  == DOMAIN ClaimTable
VersionsOf == [x \in AllClaims |-> ClaimTable[x].version]
FieldsOf   == [x \in AllClaims |-> ClaimTable[x].field]
TimesOf    == [x \in AllClaims |-> ClaimTable[x].time]
ScoresOf   == [x \in AllClaims |-> ClaimTable[x].score]
OrphansOf  == [x \in AllClaims |-> ClaimTable[x].orphan]
EventsOf   == [x \in AllClaims |-> "meeting"]

\* A reviewer confirms that the application is current, or clears its deadline.
Reviews == {[stale |-> FALSE], [deadline |-> Null, stale |-> TRUE]}

Interchangeable == Permutations(Resolvers)
=============================================================================

-------------------------- MODULE RateLimiterProofs --------------------------
(***************************************************************************)
(* The properties of RateLimiter, for any numbers of requests and keys.    *)
(*                                                                         *)
(* A window begins at the time its first request read.  Windows of one     *)
(* entry do not overlap, so the ended ones fit into the time before the    *)
(* current one; each of them admitted at most Limit requests.              *)
(***************************************************************************)
EXTENDS RateLimiter, FiniteSetTheorems, TLAPS

Entry == [count : Nat \ {0}, resetAt : Nat]

\* What the current window of k counts.
WindowCounts(k) ==
    /\ inWindow[k] <= Limit
    /\ inWindow[k] <= admitted[k]
    /\ entries[k].count >= Limit \/ inWindow[k] = entries[k].count
    /\ entries[k].count >= Limit => inWindow[k] = Limit

\* The windows of k before the current one.
EarlierWindows(k) ==
    /\ entries[k].resetAt \in Window .. clock + Window
    /\ (admitted[k] - inWindow[k]) * Window <= Limit * (entries[k].resetAt - Window)

Inv ==
    /\ TypeOK
    /\ IsFiniteSet(DOMAIN entries)
    /\ TableBounded
    /\ \A k \in DOMAIN entries : WindowCounts(k) /\ EarlierWindows(k)
    /\ \A k \in Keys \ DOMAIN entries : admitted[k] = 0

\* A window of length W that ends at E is followed by one that begins at N: a requests
\* were admitted, i of them to the window that ends, and L is the limit of each.
LEMMA NextWindow ==
    ASSUME NEW a \in Nat, NEW i \in Nat, NEW W \in Nat, NEW L \in Nat, NEW E \in Nat,
           NEW N \in Nat, i <= a, i <= L, W <= E, E <= N,
           (a - i) * W <= L * (E - W)
    PROVE  a * W <= L * N
<1>1. (a - i) * W + i * W = a * W
  OBVIOUS
<1>2. i * W <= L * W
  OBVIOUS
<1>3. L * (E - W) + L * W = L * E
  OBVIOUS
<1>4. L * E <= L * N
  OBVIOUS
<1>5. /\ (a - i) * W \in Int /\ i * W \in Int /\ a * W \in Int
      /\ L * (E - W) \in Int /\ L * W \in Int /\ L * E \in Int /\ L * N \in Int
  OBVIOUS
<1> QED
  BY <1>1, <1>2, <1>3, <1>4, <1>5

LEMMA CleanedTable ==
    ASSUME TypeOK, IsFiniteSet(DOMAIN entries), NEW t
    PROVE  /\ Live(t) \subseteq DOMAIN Cleaned(t)
           /\ DOMAIN Cleaned(t) \subseteq DOMAIN entries
           /\ Cleaned(t) \in [DOMAIN Cleaned(t) -> Entry]
           /\ \A j \in DOMAIN Cleaned(t) : Cleaned(t)[j] = entries[j]
           /\ Full(Cleaned(t)) => Cardinality(Live(t)) >= MaxEntries
<1>1. Live(t) \subseteq DOMAIN entries
  BY DEF Live
<1>2. entries \in [DOMAIN entries -> Entry]
  BY DEF TypeOK, Entry
<1>3. CASE Full(entries)
  <2>1. Cardinality(DOMAIN entries) \in Nat
    BY FS_CardinalityType
  <2>2. Cleaned(t) = [j \in Live(t) |-> entries[j]]
    BY <1>3, <2>1, RateLimiterAssumption DEF Full, Cleaned, CleanupExpired, Restrict
  <2> QED
    BY <1>1, <1>2, <2>2 DEF Full
<1>4. CASE ~Full(entries)
  <2>1. Cleaned(t) = entries
    BY <1>4 DEF Cleaned
  <2> QED
    BY <1>1, <1>2, <1>4, <2>1
<1> QED
  BY <1>3, <1>4

-----------------------------------------------------------------------------

LEMMA InitInv == Init => Inv
<1> SUFFICES ASSUME Init
             PROVE  Inv
  OBVIOUS
<1>1. DOMAIN entries = {}
  BY DEF Init
<1>2. TypeOK
  BY <1>1 DEF Init, TypeOK
<1>3. IsFiniteSet(DOMAIN entries) /\ TableBounded
  BY <1>1, FS_EmptySet, RateLimiterAssumption DEF TableBounded
<1> QED
  BY <1>1, <1>2, <1>3 DEF Inv, Init

\* A request that opens a window of its key.
LEMMA NewWindow ==
    ASSUME Inv, NEW r \in Requests, NEW D, NEW table \in [D -> Entry],
           D \subseteq DOMAIN entries, \A j \in D : table[j] = entries[j],
           Cardinality(D \cup {key[r]}) <= MaxEntries,
           NEW total \in Nat \ {0}, (total - 1) * Window <= Limit * now[r],
           entries' = WithWindow(table, key[r], now[r]),
           Answer(r, "admitted"), Admit(key[r], total, 1), UNCHANGED <<clock, key, now>>
    PROVE  Inv'
<1> USE RateLimiterAssumption
<1>k. PICK k \in Keys : k = key[r]
  BY DEF Inv, TypeOK
<1>1. /\ TypeOK /\ clock \in Nat /\ now[r] \in 0 .. clock
      /\ D \subseteq Keys /\ IsFiniteSet(D)
  BY FS_Subset DEF Inv, TypeOK
<1>2. /\ entries' \in [D \cup {k} -> Entry] /\ DOMAIN entries' = D \cup {k}
      /\ entries'[k] = [count |-> 1, resetAt |-> now[r] + Window]
      /\ \A j \in D \ {k} : entries'[j] = entries[j]
  <2>1. entries' = WithWindow(table, k, now[r])
    BY <1>k
  <2>2. [count |-> 1, resetAt |-> now[r] + Window] \in Entry
    BY <1>1 DEF Entry
  <2> QED
    BY <2>1, <2>2 DEF WithWindow
<1>3. /\ admitted' = [j \in Keys |->
                        IF j \in D \cup {k} THEN [admitted EXCEPT ![k] = total][j] ELSE 0]
      /\ inWindow' = [j \in Keys |->
                        IF j \in D \cup {k} THEN [inWindow EXCEPT ![k] = 1][j] ELSE 0]
  BY <1>k, <1>2 DEF Admit, Forgotten
<1>4. TypeOK'
  BY <1>1, <1>2, <1>3 DEF TypeOK, Answer, Entry
<1>5. IsFiniteSet(DOMAIN entries') /\ TableBounded'
  BY <1>k, <1>1, <1>2, FS_AddElement DEF TableBounded
<1>6. (WindowCounts(k) /\ EarlierWindows(k))'
  <2>1. admitted'[k] = total /\ inWindow'[k] = 1
    BY <1>1, <1>3 DEF TypeOK
  <2>2. WindowCounts(k)'
    <3>1. entries'[k].count = 1
      BY <1>2
    <3> QED
      BY <2>1, <3>1 DEF WindowCounts
  <2>3. (now[r] + Window) - Window = now[r]
    BY <1>1
  <2>4. /\ entries'[k].resetAt \in Window .. clock + Window
        /\ entries'[k].resetAt - Window = now[r]
    BY <1>1, <1>2, <2>3
  <2> QED
    BY <2>1, <2>2, <2>4 DEF EarlierWindows
<1>7. ASSUME NEW j \in D \ {k}
      PROVE  (WindowCounts(j) /\ EarlierWindows(j))'
  <2>1. WindowCounts(j) /\ EarlierWindows(j) /\ j \in Keys
    BY <1>1 DEF Inv
  <2>2. admitted'[j] = admitted[j] /\ inWindow'[j] = inWindow[j] /\ entries'[j] = entries[j]
    BY <1>1, <1>2, <1>3, <2>1 DEF TypeOK
  <2> QED
    BY <2>1, <2>2 DEF WindowCounts, EarlierWindows
<1>8. \A j \in Keys \ DOMAIN entries' : admitted'[j] = 0
  BY <1>2, <1>3
<1> QED
  BY <1>2, <1>4, <1>5, <1>6, <1>7, <1>8 DEF Inv

LEMMA NextInv == Inv /\ [Next]_vars => Inv'
<1> SUFFICES ASSUME Inv, [Next]_vars
             PROVE  Inv'
  OBVIOUS
<1> USE RateLimiterAssumption
<1>t. TypeOK /\ IsFiniteSet(DOMAIN entries) /\ TableBounded
  BY DEF Inv
<1>e. entries \in [DOMAIN entries -> Entry] /\ DOMAIN entries \subseteq Keys
  BY <1>t DEF TypeOK, Entry
<1>c. Cardinality(DOMAIN entries) \in Nat
  BY <1>t, FS_CardinalityType
<1>1. CASE UNCHANGED vars
  BY <1>1 DEF vars, request, history, Inv, TypeOK, TableBounded, WindowCounts, EarlierWindows
<1>2. CASE Tick
  <2>1. TypeOK'
    BY <1>2, <1>t DEF Tick, TypeOK, request, history
  <2>2. UNCHANGED <<entries, history>> /\ clock' = clock + 1
    BY <1>2 DEF Tick
  <2>3. ASSUME NEW k \in DOMAIN entries
        PROVE  (WindowCounts(k) /\ EarlierWindows(k))'
    BY <2>2, <2>3, <1>t DEF Inv, TypeOK, history, WindowCounts, EarlierWindows
  <2> QED
    BY <2>1, <2>2, <2>3 DEF Inv, TableBounded, history
<1>3. ASSUME NEW r \in Requests, ReadClock(r)
      PROVE  Inv'
  <2>1. TypeOK'
    BY <1>3, <1>t DEF ReadClock, TypeOK, history
  <2> QED
    BY <1>3, <2>1 DEF ReadClock, Inv, TableBounded, history, WindowCounts, EarlierWindows
<1>4. ASSUME NEW r \in Requests, Count(r)
      PROVE  Inv'
  <2>k. PICK k \in Keys : k = key[r]
    BY <1>t DEF TypeOK
  <2> DEFINE count == entries[k].count + 1
  <2>1. /\ k \in DOMAIN entries
        /\ entries[k] \in Entry
        /\ entries' = [entries EXCEPT ![k].count = count]
        /\ UNCHANGED <<clock, key, now>>
    BY <1>4, <1>e, <2>k DEF Count, Live
  <2>2. /\ DOMAIN entries' = DOMAIN entries
        /\ entries' \in [DOMAIN entries -> Entry]
        /\ entries'[k].count = count
        /\ \A j \in DOMAIN entries : entries'[j].resetAt = entries[j].resetAt
        /\ \A j \in DOMAIN entries \ {k} : entries'[j] = entries[j]
    BY <2>1, <1>e DEF Entry
  <2>3. CASE /\ count <= Limit
             /\ Answer(r, "admitted")
             /\ Admit(k, admitted[k] + 1, inWindow[k] + 1)
    <3>1. /\ admitted' = [j \in Keys |-> IF j \in DOMAIN entries
                            THEN [admitted EXCEPT ![k] = admitted[k] + 1][j] ELSE 0]
          /\ inWindow' = [j \in Keys |-> IF j \in DOMAIN entries
                            THEN [inWindow EXCEPT ![k] = inWindow[k] + 1][j] ELSE 0]
      BY <2>2, <2>3 DEF Admit, Forgotten
    <3>2. TypeOK'
      BY <1>t, <2>1, <2>2, <2>3, <3>1 DEF TypeOK, Answer, Entry
    <3>3. ASSUME NEW j \in DOMAIN entries
          PROVE  (WindowCounts(j) /\ EarlierWindows(j))'
      <4>1. WindowCounts(j) /\ EarlierWindows(j) /\ j \in Keys
        BY <1>e DEF Inv
      <4>2. CASE j = k
        <5>1. admitted'[k] = admitted[k] + 1 /\ inWindow'[k] = inWindow[k] + 1
          BY <1>t, <2>1, <3>1 DEF TypeOK
        <5>2. /\ admitted[k] \in Nat /\ inWindow[k] \in Nat
              /\ entries[k].count \in Nat /\ entries[k].resetAt \in Nat
          BY <1>t, <2>1 DEF TypeOK, Entry
        <5>3. admitted'[k] - inWindow'[k] = admitted[k] - inWindow[k]
          BY <5>1, <5>2
        <5>4. inWindow[k] = entries[k].count
          BY <2>3, <4>1, <4>2, <5>2 DEF WindowCounts
        <5>5. WindowCounts(k)'
          BY <2>2, <2>3, <4>1, <4>2, <5>1, <5>2, <5>4 DEF WindowCounts
        <5>6. EarlierWindows(k)'
          BY <2>1, <2>2, <4>1, <4>2, <5>3 DEF EarlierWindows
        <5> QED
          BY <4>2, <5>5, <5>6
      <4>3. CASE j # k
        BY <1>t, <2>1, <2>2, <3>1, <4>1, <4>3 DEF TypeOK, WindowCounts, EarlierWindows
      <4> QED
        BY <4>2, <4>3
    <3>4. \A j \in Keys \ DOMAIN entries' : admitted'[j] = 0
      BY <2>2, <3>1
    <3> QED
      BY <1>t, <2>2, <3>2, <3>3, <3>4 DEF Inv, TableBounded
  <2>4. CASE count > Limit /\ Answer(r, "refused") /\ UNCHANGED history
    <3>1. TypeOK'
      BY <1>t, <2>1, <2>2, <2>4 DEF TypeOK, Answer, Entry, history
    <3>2. ASSUME NEW j \in DOMAIN entries
          PROVE  (WindowCounts(j) /\ EarlierWindows(j))'
      <4>1. WindowCounts(j) /\ EarlierWindows(j) /\ entries[j].count \in Nat
        BY <1>e DEF Inv, Entry
      <4> QED
        BY <2>1, <2>2, <2>4, <4>1 DEF history, WindowCounts, EarlierWindows
    <3> QED
      BY <1>t, <2>2, <2>4, <3>1, <3>2 DEF Inv, TableBounded, history
  <2> QED
    BY <1>4, <2>k, <2>3, <2>4 DEF Count
<1>5. ASSUME NEW r \in Requests, Reopen(r)
      PROVE  Inv'
  <2> DEFINE k == key[r]
  <2>1. /\ k \in DOMAIN entries /\ k \in Keys
        /\ entries[k].resetAt <= now[r]
        /\ entries[k].resetAt \in Nat /\ now[r] \in Nat
        /\ admitted[k] \in Nat /\ inWindow[k] \in Nat
    BY <1>5, <1>t, <1>e DEF Reopen, Live, TypeOK, Entry
  <2>2. WindowCounts(k) /\ EarlierWindows(k)
    BY <2>1 DEF Inv
  <2>3. admitted[k] * Window <= Limit * now[r]
    <3>1. /\ inWindow[k] <= admitted[k] /\ inWindow[k] <= Limit
          /\ Window <= entries[k].resetAt
          /\ (admitted[k] - inWindow[k]) * Window <= Limit * (entries[k].resetAt - Window)
      BY <2>2 DEF WindowCounts, EarlierWindows
    <3> QED
      BY <2>1, <3>1, NextWindow
  <2>4. (admitted[k] + 1) - 1 = admitted[k]
    BY <2>1
  <2>5. DOMAIN entries \cup {k} = DOMAIN entries
    BY <2>1
  <2> DEFINE total == admitted[k] + 1
  <2>6. /\ entries' = WithWindow(entries, k, now[r]) /\ Answer(r, "admitted")
        /\ Admit(k, total, 1) /\ UNCHANGED <<clock, key, now>>
    BY <1>5 DEF Reopen
  <2>7. total \in Nat \ {0} /\ (total - 1) * Window <= Limit * now[r]
    BY <2>1, <2>3, <2>4
  <2>8. Cardinality(DOMAIN entries \cup {k}) <= MaxEntries
    BY <1>t, <2>5 DEF TableBounded
  <2> QED
    BY <1>e, <2>6, <2>7, <2>8, NewWindow
<1>6. ASSUME NEW r \in Requests, Open(r)
      PROVE  Inv'
  <2> DEFINE k == key[r]
             table == Cleaned(now[r])
             D == DOMAIN table
  <2>1. /\ D \subseteq DOMAIN entries /\ table \in [D -> Entry]
        /\ \A j \in D : table[j] = entries[j]
    BY <1>t, CleanedTable
  <2>2. ~Full(table) /\ k \notin DOMAIN entries
    BY <1>6 DEF Open
  <2>3. Cardinality(D \cup {k}) <= MaxEntries
    <3>1. IsFiniteSet(D)
      BY <1>t, <2>1, FS_Subset
    <3>2. Cardinality(D) \in Nat
      BY <3>1, FS_CardinalityType
    <3>3. Cardinality(D \cup {k}) = Cardinality(D) + 1
      BY <2>1, <2>2, <3>1, FS_AddElement
    <3> QED
      BY <2>2, <3>2, <3>3 DEF Full
  <2>4. 1 \in Nat \ {0} /\ (1 - 1) * Window <= Limit * now[r]
    <3>1. now[r] \in Nat
      BY <1>t DEF TypeOK
    <3> QED
      BY <3>1
  <2>5. /\ entries' = WithWindow(table, k, now[r]) /\ Answer(r, "admitted")
        /\ Admit(k, 1, 1) /\ UNCHANGED <<clock, key, now>>
    BY <1>6 DEF Open
  <2> HIDE DEF table
  <2> QED
    BY <2>1, <2>3, <2>4, <2>5, NewWindow
<1>7. ASSUME NEW r \in Requests, TableFull(r)
      PROVE  Inv'
  <2> DEFINE table == Cleaned(now[r])
             D == DOMAIN table
  <2>1. /\ D \subseteq DOMAIN entries /\ table \in [D -> Entry]
        /\ \A j \in D : table[j] = entries[j]
    BY <1>t, CleanedTable
  <2>2. /\ entries' = table
        /\ admitted' = [j \in Keys |-> IF j \in D THEN admitted[j] ELSE 0]
        /\ inWindow' = [j \in Keys |-> IF j \in D THEN inWindow[j] ELSE 0]
        /\ Answer(r, "refused")
        /\ UNCHANGED <<clock, key, now>>
    BY <1>7 DEF TableFull, Forgotten
  <2> HIDE DEF table
  <2>3. IsFiniteSet(D) /\ Cardinality(D) <= Cardinality(DOMAIN entries)
    BY <1>t, <2>1, FS_Subset
  <2>4. Cardinality(D) \in Nat
    BY <2>3, FS_CardinalityType
  <2>5. TypeOK'
    BY <1>t, <2>1, <2>2 DEF TypeOK, Answer, Entry
  <2>6. ASSUME NEW j \in D
        PROVE  (WindowCounts(j) /\ EarlierWindows(j))'
    <3>1. WindowCounts(j) /\ EarlierWindows(j) /\ j \in Keys
      BY <1>e, <2>1 DEF Inv
    <3>2. admitted'[j] = admitted[j] /\ inWindow'[j] = inWindow[j] /\ entries'[j] = entries[j]
      BY <2>1, <2>2, <3>1
    <3> QED
      BY <2>2, <3>1, <3>2 DEF WindowCounts, EarlierWindows
  <2>7. \A j \in Keys \ DOMAIN entries' : admitted'[j] = 0
    BY <2>2
  <2>8. TableBounded'
    BY <1>t, <1>c, <2>2, <2>3, <2>4 DEF TableBounded
  <2> QED
    BY <2>2, <2>3, <2>5, <2>6, <2>7, <2>8 DEF Inv
<1> QED
  BY <1>1, <1>2, <1>3, <1>4, <1>5, <1>6, <1>7 DEF Next

LEMMA InvHolds == Spec => []Inv
<1> QED
  BY InitInv, NextInv, PTL DEF Spec

-----------------------------------------------------------------------------

\* The state of the limiter has its type.
THEOREM TypeCorrect == Spec => []TypeOK
<1>1. Inv => TypeOK
  BY DEF Inv
<1> QED
  BY <1>1, InvHolds, PTL

\* The table never has more than rateLimitMaxEntries entries (rate_limit.go:18).
THEOREM TableHolds == Spec => []TableBounded
<1>1. Inv => TableBounded
  BY DEF Inv
<1> QED
  BY <1>1, InvHolds, PTL

\* allow admits no more than Limit requests of a key per Window, averaged over the time
\* its entry exists and up to one more window, whatever the order of the times it sees.
THEOREM RateHolds == Spec => []AdmissionRate
<1>1. Inv => AdmissionRate
  <2> SUFFICES ASSUME Inv, NEW k \in Keys
               PROVE  admitted[k] * Window <= Limit * (clock + Window)
    BY DEF AdmissionRate
  <2>1. /\ clock \in Nat /\ admitted[k] \in Nat /\ inWindow[k] \in Nat
        /\ Limit \in Nat /\ Window \in Nat
    BY RateLimiterAssumption DEF Inv, TypeOK
  <2>2. CASE k \in DOMAIN entries
    <3>1. /\ inWindow[k] <= admitted[k] /\ inWindow[k] <= Limit
          /\ entries[k].resetAt \in Nat
          /\ Window <= entries[k].resetAt /\ entries[k].resetAt <= clock + Window
          /\ (admitted[k] - inWindow[k]) * Window <= Limit * (entries[k].resetAt - Window)
      BY <2>1, <2>2 DEF Inv, WindowCounts, EarlierWindows
    <3>2. clock + Window \in Nat
      BY <2>1
    <3> QED
      BY <2>1, <3>1, <3>2, NextWindow
  <2>3. CASE k \notin DOMAIN entries
    <3>1. admitted[k] = 0
      BY <2>3 DEF Inv
    <3> QED
      BY <2>1, <3>1
  <2> QED
    BY <2>2, <2>3
<1> QED
  BY <1>1, InvHolds, PTL

\* allow refuses only at the limit of an open window or of the table, in which
\* cleanupExpired has left no ended window.
THEOREM RefusalsHaveCause == Spec => RefusedForCause
<1> DEFINE Cause(r) ==
              \/ key[r] \in Live(now[r]) /\ inWindow[key[r]] = Limit
              \/ key[r] \notin DOMAIN entries /\ Cardinality(Live(now[r])) >= MaxEntries
           Step == \A r \in Requests : pc[r] # "refused" /\ pc'[r] = "refused" => Cause(r)
<1>1. Inv /\ [Next]_vars => [Step]_vars
  <2> SUFFICES ASSUME Inv, Next, NEW r \in Requests, pc[r] # "refused", pc'[r] = "refused"
               PROVE  Cause(r)
    OBVIOUS
  <2>1. TypeOK /\ IsFiniteSet(DOMAIN entries)
    BY DEF Inv
  <2>2. Count(r) \/ TableFull(r)
    <3>1. pc' # pc
      OBVIOUS
    <3>2. PICK q \in Requests : ReadClock(q) \/ Count(q) \/ Reopen(q) \/ Open(q) \/ TableFull(q)
      BY <3>1 DEF Next, Tick, request
    <3>3. q = r
      BY <2>1, <3>2 DEF TypeOK, ReadClock, Count, Reopen, Open, TableFull, Answer
    <3> QED
      BY <2>1, <3>2, <3>3 DEF TypeOK, ReadClock, Reopen, Open, Answer
  <2>3. CASE Count(r)
    <3> DEFINE k == key[r]
    <3>1. k \in Live(now[r]) /\ entries[k].count + 1 > Limit
      BY <2>1, <2>3 DEF Count, Answer, TypeOK
    <3>2. k \in DOMAIN entries /\ entries[k].count \in Nat
      BY <2>1, <3>1 DEF Live, TypeOK
    <3>3. entries[k].count >= Limit
      BY <3>1, <3>2, RateLimiterAssumption
    <3>4. inWindow[k] = Limit
      BY <3>2, <3>3 DEF Inv, WindowCounts
    <3> QED
      BY <3>1, <3>4
  <2>4. CASE TableFull(r)
    BY <2>1, <2>4, CleanedTable DEF TableFull
  <2> QED
    BY <2>2, <2>3, <2>4
<1> QED
  BY <1>1, InvHolds, PTL DEF Spec, RefusedForCause

\* allow and cleanupExpired leave a window alone until it has ended by the clock.
THEOREM WindowsKept == Spec => WindowsRunTheirCourse
<1> DEFINE Step == \A k \in Live(clock) :
                      /\ k \in DOMAIN entries'
                      /\ entries'[k].resetAt = entries[k].resetAt
<1>1. Inv /\ [Next]_vars => [Step]_vars
  <2> SUFFICES ASSUME Inv, Next, NEW k \in Live(clock)
               PROVE  k \in DOMAIN entries' /\ entries'[k].resetAt = entries[k].resetAt
    OBVIOUS
  <2>1. TypeOK /\ IsFiniteSet(DOMAIN entries) /\ k \in DOMAIN entries
    BY DEF Inv, Live
  <2>2. ASSUME NEW r \in Requests
        PROVE  k \in Live(now[r])
    <3>1. now[r] \in 0 .. clock /\ clock \in Nat /\ entries[k].resetAt \in Nat
      BY <2>1 DEF TypeOK
    <3> QED
      BY <2>1, <3>1 DEF Live
  <2>3. ASSUME NEW r \in Requests
        PROVE  k \in DOMAIN Cleaned(now[r]) /\ Cleaned(now[r])[k] = entries[k]
    BY <2>1, <2>2, <2>3, CleanedTable
  <2>4. CASE Tick
    BY <2>1, <2>4 DEF Tick
  <2>5. ASSUME NEW r \in Requests, ReadClock(r)
        PROVE  k \in DOMAIN entries' /\ entries'[k].resetAt = entries[k].resetAt
    BY <2>1, <2>5 DEF ReadClock
  <2>6. ASSUME NEW r \in Requests, Count(r)
        PROVE  k \in DOMAIN entries' /\ entries'[k].resetAt = entries[k].resetAt
    <3>1. entries' = [entries EXCEPT ![key[r]].count = entries[key[r]].count + 1]
      BY <2>6 DEF Count
    <3>2. entries[k] \in Entry
      BY <2>1 DEF TypeOK, Entry
    <3> QED
      BY <2>1, <3>1, <3>2 DEF Entry
  <2>7. ASSUME NEW r \in Requests, Reopen(r)
        PROVE  k \in DOMAIN entries' /\ entries'[k].resetAt = entries[k].resetAt
    <3>1. key[r] # k
      BY <2>2, <2>7 DEF Reopen
    <3> QED
      BY <2>1, <2>7, <3>1 DEF Reopen, WithWindow
  <2>8. ASSUME NEW r \in Requests, Open(r)
        PROVE  k \in DOMAIN entries' /\ entries'[k].resetAt = entries[k].resetAt
    <3>1. key[r] # k
      BY <2>1, <2>8 DEF Open
    <3> QED
      BY <2>3, <2>8, <3>1 DEF Open, WithWindow
  <2>9. ASSUME NEW r \in Requests, TableFull(r)
        PROVE  k \in DOMAIN entries' /\ entries'[k].resetAt = entries[k].resetAt
    BY <2>3, <2>9 DEF TableFull
  <2> QED
    BY <2>4, <2>5, <2>6, <2>7, <2>8, <2>9 DEF Next
<1> QED
  BY <1>1, InvHolds, PTL DEF Spec, WindowsRunTheirCourse
=============================================================================

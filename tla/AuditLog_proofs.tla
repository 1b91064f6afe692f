--------------------------- MODULE AuditLog_proofs ---------------------------
(***************************************************************************)
(* Theorems about AuditLog for every number of slots and every size of     *)
(* file, with their proofs.                                                *)
(***************************************************************************)
EXTENDS AuditLog, SequenceTheorems, TLAPS

\* Files' worth of rows grow with the number of files.
LEMMA FilesWorth ==
  ASSUME NEW x \in Int, NEW y \in Int
  PROVE  /\ x * Limit \in Int
         /\ (x + 1) * Limit = x * Limit + Limit
         /\ x <= y => x * Limit <= y * Limit
  BY LogAssumption

\* Unlinking takes one file and leaves the others.
LEMMA UnlinkTakes ==
  ASSUME NEW d, NEW s
  PROVE  /\ DOMAIN Unlink(d, s) = DOMAIN d \ {s}
         /\ \A t \in DOMAIN d \ {s} : Unlink(d, s)[t] = d[t]
  BY DEF Unlink, Restrict

\* A renamed file takes the place of what was there.
LEMMA RenameMoves ==
  ASSUME NEW d, NEW s, NEW t, s # t
  PROVE  /\ s \notin DOMAIN d => Rename(d, s, t) = d
         /\ s \in DOMAIN d =>
              /\ DOMAIN Rename(d, s, t) = (DOMAIN d \ {s}) \cup {t}
              /\ Rename(d, s, t)[t] = d[s]
              /\ \A u \in DOMAIN d \ {s, t} : Rename(d, s, t)[u] = d[u]
  BY DEF Rename

\* Opening the log leaves every file as it is.
LEMMA CreateAdds ==
  ASSUME NEW d
  PROVE  /\ DOMAIN Create(d) = DOMAIN d \cup {0}
         /\ \A s \in DOMAIN d : Create(d)[s] = d[s]
         /\ 0 \notin DOMAIN d => Create(d)[0] = <<>>
  BY DEF Create

\* Rows that are numbered upwards, and so lie at least as far apart as their
\* places.
Spaced(f) == \A i, j \in DOMAIN f : i < j => f[j] - f[i] >= j - i

\* Every row of the one set comes before every row of the other.
Before(A, B) == \A a \in A, b \in B : a < b

\* The rows of a file are naturals, by their places.
LEMMA RowsOf ==
  ASSUME NEW f \in Seq(Nat)
  PROVE  /\ Len(f) \in Nat /\ DOMAIN f = 1..Len(f)
         /\ \A i \in 1..Len(f) : f[i] \in Nat /\ f[i] \in Range(f)
         /\ Range(f) \subseteq Nat
         /\ \A r \in Range(f) : \E i \in 1..Len(f) : r = f[i]
<1>1. Len(f) \in Nat /\ DOMAIN f = 1..Len(f) /\ \A i \in 1..Len(f) : f[i] \in Nat
  BY LenProperties, ElementOfSeq
<1> QED
  BY <1>1 DEF Range

\* No rows.
LEMMA NoRows == Spaced(<<>>) /\ Range(<<>>) = {} /\ <<>> \in Seq(Nat)
<1>1. Len(<< >>) = 0 /\ << >> \in Seq(Nat)
  BY EmptySeq
<1>2. DOMAIN << >> = {}
  BY <1>1, RowsOf
<1> QED
  BY <1>1, <1>2 DEF Spaced, Range

\* Later rows behind earlier ones.
LEMMA ConcatRows ==
  ASSUME NEW f \in Seq(Nat), NEW g \in Seq(Nat),
         Spaced(f), Spaced(g), Before(Range(f), Range(g))
  PROVE  /\ f \o g \in Seq(Nat)
         /\ Spaced(f \o g)
         /\ Range(f \o g) = Range(f) \cup Range(g)
         /\ Len(f \o g) >= Len(f)
<1> DEFINE h == f \o g
           m == Len(f)
           n == Len(g)
<1>1. /\ m \in Nat /\ n \in Nat
      /\ DOMAIN f = 1..m /\ DOMAIN g = 1..n
      /\ \A i \in 1..m : f[i] \in Nat /\ f[i] \in Range(f)
      /\ \A i \in 1..n : g[i] \in Nat /\ g[i] \in Range(g)
  BY RowsOf
<1>2. /\ h \in Seq(Nat) /\ Len(h) = m + n
      /\ \A i \in 1..(m + n) : h[i] = IF i <= m THEN f[i] ELSE g[i - m]
  BY ConcatProperties
<1>3. DOMAIN h = 1..(m + n)
  BY <1>2, RowsOf
<1> HIDE DEF h, m, n
<1>4. \A i \in 1..(m + n) : (i <= m /\ i \in 1..m) \/ (i > m /\ i - m \in 1..n)
  BY <1>1
<1>5. Range(h) = Range(f) \cup Range(g)
  <2>1. ASSUME NEW r \in Range(h) PROVE r \in Range(f) \cup Range(g)
    <3>1. PICK i \in 1..(m + n) : r = h[i]
      BY <1>3 DEF Range
    <3>2. CASE i <= m
      BY <1>1, <1>2, <1>4, <3>1, <3>2
    <3>3. CASE i > m
      BY <1>1, <1>2, <1>4, <3>1, <3>3
    <3> QED
      BY <1>1, <3>2, <3>3
  <2>2. ASSUME NEW r \in Range(f) PROVE r \in Range(h)
    <3>1. PICK i \in 1..m : r = f[i]
      BY <1>1 DEF Range
    <3>2. i \in 1..(m + n) /\ h[i] = r
      BY <1>1, <1>2, <3>1
    <3> QED
      BY <1>3, <3>2 DEF Range
  <2>3. ASSUME NEW r \in Range(g) PROVE r \in Range(h)
    <3>1. PICK i \in 1..n : r = g[i]
      BY <1>1 DEF Range
    <3>2. i + m \in 1..(m + n) /\ ~(i + m <= m) /\ (i + m) - m = i
      BY <1>1
    <3>3. h[i + m] = r
      BY <1>2, <3>1, <3>2
    <3> QED
      BY <1>3, <3>2, <3>3 DEF Range
  <2> QED
    BY <2>1, <2>2, <2>3
<1>6. Spaced(h)
  <2> SUFFICES ASSUME NEW i \in 1..(m + n), NEW j \in 1..(m + n), i < j
               PROVE  h[j] - h[i] >= j - i
    BY <1>3 DEF Spaced
  <2>1. CASE j <= m
    <3>1. i \in 1..m /\ j \in 1..m /\ h[i] = f[i] /\ h[j] = f[j]
      BY <1>1, <1>2, <2>1
    <3> QED
      BY <1>1, <3>1 DEF Spaced
  <2>2. CASE i > m
    <3>1. /\ i - m \in 1..n /\ j - m \in 1..n /\ i - m < j - m /\ j > m
          /\ (j - m) - (i - m) = j - i
      BY <1>1, <2>2
    <3>2. h[i] = g[i - m] /\ h[j] = g[j - m]
      BY <1>1, <1>2, <2>2, <3>1
    <3>3. g[j - m] - g[i - m] >= (j - m) - (i - m)
      BY <1>1, <3>1 DEF Spaced
    <3> QED
      BY <3>1, <3>2, <3>3
  <2>3. CASE i <= m /\ j > m
    <3> DEFINE k == j - m
    <3>1. /\ i \in 1..m /\ m \in 1..m /\ k \in 1..n /\ 1 \in 1..n /\ j = k + m
          /\ h[i] = f[i] /\ h[j] = g[k]
      BY <1>1, <1>2, <2>3
    <3> HIDE DEF k
    <3>2. f[m] - f[i] >= m - i /\ f[m] \in Nat /\ f[i] \in Nat
      <4>1. f[m] \in Nat /\ f[i] \in Nat /\ (i < m => f[m] - f[i] >= m - i)
        BY <1>1, <3>1 DEF Spaced
      <4> QED
        BY <1>1, <3>1, <4>1
    <3>3. g[k] - g[1] >= k - 1 /\ g[k] \in Nat /\ g[1] \in Nat
      <4>1. g[k] \in Nat /\ g[1] \in Nat /\ (1 < k => g[k] - g[1] >= k - 1)
        BY <1>1, <3>1 DEF Spaced
      <4> QED
        BY <1>1, <3>1, <4>1
    <3>4. f[m] < g[1]
      BY <1>1, <3>1 DEF Before
    <3> QED
      BY <1>1, <3>1, <3>2, <3>3, <3>4
  <2> QED
    BY <1>1, <2>1, <2>2, <2>3
<1> QED
  BY <1>1, <1>2, <1>5, <1>6 DEF h, m, n

\* One row behind earlier ones.
LEMMA AppendRow ==
  ASSUME NEW f \in Seq(Nat), NEW r \in Nat, Spaced(f), Before(Range(f), {r})
  PROVE  /\ Append(f, r) \in Seq(Nat)
         /\ Spaced(Append(f, r))
         /\ Range(Append(f, r)) = Range(f) \cup {r}
<1> DEFINE g == << r >>
<1>1. g \in Seq(Nat) /\ Len(g) = 1 /\ g[1] = r
  OBVIOUS
<1>2. Append(f, r) = f \o g
  BY AppendIsConcat
<1> HIDE DEF g
<1>3. DOMAIN g = 1..1
  BY <1>1, RowsOf
<1>4. Spaced(g) /\ Range(g) = {r}
  BY <1>1, <1>3 DEF Spaced, Range
<1>5. Before(Range(f), Range(g))
  BY <1>4
<1> QED
  BY <1>1, <1>2, <1>4, <1>5, ConcatRows

\* A file that is full spans as many rows as it holds at least.
LEMMA FullSpans ==
  ASSUME NEW f \in Seq(Nat), Spaced(f), Len(f) >= Limit
  PROVE  \E a, b \in Range(f) : b >= a + Limit - 1
<1>1. /\ Len(f) \in Nat /\ DOMAIN f = 1..Len(f)
      /\ \A i \in 1..Len(f) : f[i] \in Nat /\ f[i] \in Range(f)
  BY RowsOf
<1>2. 1 \in 1..Len(f) /\ Len(f) \in 1..Len(f) /\ Limit \in Nat
  BY <1>1, LogAssumption
<1>3. f[Len(f)] >= f[1] + Limit - 1
  <2>1. CASE Len(f) = 1
    BY <1>1, <1>2, <2>1, LogAssumption
  <2>2. CASE Len(f) > 1
    <3>1. f[Len(f)] - f[1] >= Len(f) - 1
      BY <1>1, <1>2, <2>2 DEF Spaced
    <3> QED
      BY <1>1, <1>2, <3>1
  <2> QED
    BY <1>1, <1>2, <2>1, <2>2
<1> QED
  BY <1>1, <1>2, <1>3

(***************************************************************************)
(* The inductive invariant.                                                *)
(***************************************************************************)

\* The row that the current record() will write, or the next one.
Upcoming == IF pc = "idle" THEN row + 1 ELSE row

\* A record() under way has its row, between two files nothing is open, a
\* rotation is on a full file, and the slot that a shift fills is empty.
WriterInv ==
  /\ pc # "idle" => row > 0
  /\ open => 0 \in DOMAIN disk
  /\ ~open => buffer = <<>>
  /\ pc \in {"close", "write"} => open
  /\ pc \in {"drop", "shift", "reopen"} => ~open
  /\ pc \in {"close", "drop", "shift"} => 0 \in DOMAIN disk /\ Len(disk[0]) >= Limit
  /\ pc = "shift" => /\ slot < Keep
                     /\ IF slot = -1 THEN Keep = 0 ELSE slot + 1 \notin DOMAIN disk

\* The rows go up from the oldest file through the active one and the buffer
\* to the row that is to come.
OrderInv ==
  /\ \A s \in DOMAIN disk :
       Spaced(disk[s]) /\ Before(Range(disk[s]), Range(buffer) \cup {Upcoming})
  /\ \A s, t \in DOMAIN disk : s > t => Before(Range(disk[s]), Range(disk[t]))
  /\ Spaced(buffer) /\ Before(Range(buffer), {Upcoming})

\* A file in slot s has been through s rotations, of which the current one may
\* not be over yet and some broke off: the rest have each left a full file
\* between it and the active one.
Moved(s) == pc = "shift" /\ 0 <= slot /\ slot + 1 < s

Age(s) == (IF Moved(s) THEN s - 2 ELSE s - 1) - broken

Active == IF 0 \in DOMAIN disk THEN Range(disk[0]) ELSE {}

Later == Active \cup Range(buffer) \cup {Upcoming}

AgeInv ==
  \A s \in DOMAIN disk \ {0} : \A r \in Range(disk[s]), q \in Later :
    q - r > Age(s) * Limit

LogInv ==
  /\ TypeOK
  /\ WriterInv
  /\ OrderInv
  /\ RotatedAreFull
  /\ AgeInv
  /\ RecentRowsKept

\* Rows, slots and ages are integers.
LEMMA TypedRows ==
  ASSUME TypeOK
  PROVE  /\ \A s \in DOMAIN disk : disk[s] \in Seq(Nat) /\ Range(disk[s]) \subseteq Nat
         /\ buffer \in Seq(Nat) /\ Range(buffer) \subseteq Nat
         /\ row \in Nat /\ Upcoming \in Nat /\ slot \in Int
         /\ broken \in Nat /\ faults \in Nat /\ Keep \in Nat /\ Top \in Nat \ {0}
         /\ DOMAIN disk \subseteq Nat
         /\ Active \subseteq Nat /\ Later \subseteq Nat
         /\ \A s \in Int : Age(s) \in Int
<1>1. row \in Nat /\ broken \in Nat /\ faults \in Nat /\ slot \in Int /\ DOMAIN disk \subseteq 0..Top
  BY LogAssumption DEF TypeOK
<1>2. Keep \in Nat /\ Top \in Nat \ {0}
  BY LogAssumption DEF Top
<1>3. 1..row \subseteq Nat
  BY <1>1
<1>4. /\ \A s \in DOMAIN disk : disk[s] \in Seq(Nat)
      /\ buffer \in Seq(Nat)
  BY <1>3, SeqMonotonic DEF TypeOK
<1>5. /\ \A s \in DOMAIN disk : Range(disk[s]) \subseteq Nat
      /\ Range(buffer) \subseteq Nat
  BY <1>4, RowsOf
<1>6. Upcoming \in Nat
  BY <1>1 DEF Upcoming
<1>7. \A s \in Int : Age(s) \in Int
  BY <1>1 DEF Age
<1>8. Active \subseteq Nat /\ Later \subseteq Nat
  BY <1>5, <1>6 DEF Active, Later
<1> QED
  BY <1>1, <1>2, <1>4, <1>5, <1>6, <1>7, <1>8

\* So are those of the next state.
LEMMA TypedNext ==
  ASSUME TypeOK'
  PROVE  /\ Upcoming' \in Nat /\ row' \in Nat /\ broken' \in Nat
         /\ DOMAIN disk' \subseteq Nat
         /\ \A s \in Int : Age(s)' \in Int
<1>1. row' \in Nat /\ broken' \in Nat /\ faults' \in Nat
  BY LogAssumption DEF TypeOK
<1>2. Upcoming' \in Nat
  <2>1. \A n \in Nat : n + 1 \in Nat
    OBVIOUS
  <2>2. Upcoming' = row' + 1 \/ Upcoming' = row'
    BY Zenon DEF Upcoming
  <2> QED
    BY <1>1, <2>1, <2>2, Zenon
<1>3. DOMAIN disk' \subseteq Nat
  <2>1. DOMAIN disk' \subseteq 0..Top
    BY DEF TypeOK
  <2> QED
    BY <2>1, LogAssumption DEF Top
<1>4. ASSUME NEW s \in Int PROVE Age(s)' \in Int
  <2>1. \A n \in Nat : s - 2 - n \in Int /\ s - 1 - n \in Int
    OBVIOUS
  <2>2. Age(s)' = s - 2 - broken' \/ Age(s)' = s - 1 - broken'
    BY Zenon DEF Age
  <2> QED
    BY <1>1, <2>1, <2>2, Zenon
<1> QED
  BY <1>1, <1>2, <1>3, <1>4

\* What keeps the rows in order: the rotated files stay as they are or go, and
\* the active log and the buffer share out what comes after them.
LEMMA FlowKeeps ==
  ASSUME LogInv, TypeOK',
         \A s \in DOMAIN disk' \ {0} : s \in DOMAIN disk /\ disk'[s] = disk[s],
         0 \in DOMAIN disk' => /\ Spaced(disk'[0])
                               /\ Range(disk'[0]) \subseteq Later
                               /\ Before(Range(disk'[0]), Range(buffer') \cup {Upcoming'}),
         Spaced(buffer'), Range(buffer') \subseteq Later,
         Before(Range(buffer'), {Upcoming'}),
         Upcoming' >= Upcoming,
         \A s \in DOMAIN disk' \ {0} : Age(s)' <= Age(s)
  PROVE  OrderInv' /\ RotatedAreFull' /\ AgeInv'
<1>1. /\ \A s \in DOMAIN disk : disk[s] \in Seq(Nat) /\ Range(disk[s]) \subseteq Nat
      /\ buffer \in Seq(Nat) /\ Range(buffer) \subseteq Nat
      /\ Upcoming \in Nat /\ DOMAIN disk \subseteq Nat
      /\ Active \subseteq Nat /\ Later \subseteq Nat
      /\ \A s \in Int : Age(s) \in Int
  BY TypedRows DEF LogInv
<1>2. Upcoming' \in Nat /\ DOMAIN disk' \subseteq Nat /\ \A s \in Int : Age(s)' \in Int
  BY TypedNext
<1>3. ASSUME NEW q \in Later' PROVE q \in Nat /\ \E p \in Later : q >= p
  <2>1. q \in Later \/ q = Upcoming'
    BY DEF Later, Active
  <2>2. Upcoming \in Later
    BY DEF Later
  <2>3. CASE q \in Later
    BY <1>1, <2>3
  <2>4. CASE q = Upcoming'
    BY <1>1, <1>2, <2>2, <2>4
  <2> QED
    BY <2>1, <2>3, <2>4
<1>4. ASSUME NEW s \in DOMAIN disk \ {0}, NEW r \in Range(disk[s]), NEW q \in Later
      PROVE  r < q
  <2>1. Before(Range(disk[s]), Range(buffer) \cup {Upcoming})
    BY DEF LogInv, OrderInv
  <2>2. 0 \in DOMAIN disk => Before(Range(disk[s]), Range(disk[0]))
    BY <1>1 DEF LogInv, OrderInv
  <2> QED
    BY <2>1, <2>2 DEF Later, Active, Before
<1>5. ASSUME NEW s \in DOMAIN disk' \ {0}, NEW r \in Range(disk'[s]), NEW q \in Later'
      PROVE  r < q
  <2>1. PICK p \in Later : q >= p
    BY <1>3
  <2>2. r < p /\ r \in Nat /\ p \in Nat /\ q \in Nat
    BY <1>1, <1>3, <1>4
  <2> QED
    BY <2>1, <2>2
<1>6. OrderInv'
  <2>1. \A s \in DOMAIN disk' : Spaced(disk'[s])
    BY DEF LogInv, OrderInv
  <2>2. ASSUME NEW s \in DOMAIN disk'
        PROVE  Before(Range(disk'[s]), Range(buffer') \cup {Upcoming'})
    <3>1. CASE s = 0
      BY <3>1
    <3>2. CASE s # 0
      BY <1>5, <3>2 DEF Before, Later
    <3> QED
      BY <3>1, <3>2
  <2>3. ASSUME NEW s \in DOMAIN disk', NEW t \in DOMAIN disk', s > t
        PROVE  Before(Range(disk'[s]), Range(disk'[t]))
    <3>1. s # 0
      BY <1>2, <2>3
    <3>2. CASE t = 0
      BY <1>5, <3>1, <3>2 DEF Before, Later, Active
    <3>3. CASE t # 0
      BY <2>3, <3>1, <3>3 DEF LogInv, OrderInv
    <3> QED
      BY <3>2, <3>3
  <2> QED
    BY <2>1, <2>2, <2>3 DEF OrderInv
<1>7. RotatedAreFull'
  BY DEF LogInv, RotatedAreFull
<1>8. AgeInv'
  <2> SUFFICES ASSUME NEW s \in DOMAIN disk' \ {0}, NEW r \in Range(disk'[s]), NEW q \in Later'
               PROVE  q - r > Age(s)' * Limit
    BY DEF AgeInv
  <2>1. PICK p \in Later : q >= p
    BY <1>3
  <2>2. s \in DOMAIN disk \ {0} /\ r \in Range(disk[s]) /\ s \in Int
    BY <1>1
  <2>3. p - r > Age(s) * Limit /\ p \in Nat /\ r \in Nat /\ q \in Nat
    BY <1>1, <1>3, <2>2 DEF LogInv, AgeInv
  <2>4. Age(s)' * Limit <= Age(s) * Limit /\ Age(s)' * Limit \in Int /\ Age(s) * Limit \in Int
    BY <1>1, <1>2, <2>2, FilesWorth
  <2> QED
    BY <2>1, <2>3, <2>4
<1> QED
  BY <1>6, <1>7, <1>8

\* Files that go, an empty active log that comes, and a buffer that is lost
\* leave the rows in order.
LEMMA QuietKeeps ==
  ASSUME LogInv, TypeOK',
         DOMAIN disk' \ {0} \subseteq DOMAIN disk,
         \A s \in DOMAIN disk' : disk'[s] = IF s \in DOMAIN disk THEN disk[s] ELSE <<>>,
         buffer' \in {buffer, <<>>},
         Upcoming' >= Upcoming,
         \A s \in DOMAIN disk' \ {0} : Age(s)' <= Age(s)
  PROVE  OrderInv' /\ RotatedAreFull' /\ AgeInv'
<1>1. /\ \A s \in DOMAIN disk : Range(disk[s]) \subseteq Nat
      /\ Range(buffer) \subseteq Nat /\ Upcoming \in Nat
  BY TypedRows DEF LogInv
<1>2. Upcoming' \in Nat
  BY TypedNext
<1>3. /\ Range(buffer') \subseteq Range(buffer) /\ Spaced(buffer')
      /\ Range(<<>>) = {} /\ Spaced(<<>>)
  BY NoRows DEF LogInv, OrderInv
<1>4. ASSUME NEW A, A \subseteq Nat, Before(A, {Upcoming})
      PROVE  Before(A, {Upcoming'})
  BY <1>1, <1>2, <1>4 DEF Before
<1>5. Before(Range(buffer'), {Upcoming'})
  BY <1>1, <1>3, <1>4 DEF LogInv, OrderInv, Before
<1>6. 0 \in DOMAIN disk' => /\ Spaced(disk'[0])
                            /\ Range(disk'[0]) \subseteq Later
                            /\ Before(Range(disk'[0]), Range(buffer') \cup {Upcoming'})
  <2>1. CASE 0 \in DOMAIN disk
    <3>1. Spaced(disk[0]) /\ Before(Range(disk[0]), Range(buffer) \cup {Upcoming})
      BY <2>1 DEF LogInv, OrderInv
    <3>2. Before(Range(disk[0]), {Upcoming})
      BY <3>1 DEF Before
    <3>3. Before(Range(disk[0]), {Upcoming'})
      BY <1>1, <1>4, <2>1, <3>2
    <3>4. Before(Range(disk[0]), Range(buffer') \cup {Upcoming'})
      BY <1>3, <3>1, <3>3 DEF Before
    <3> QED
      BY <2>1, <3>1, <3>4 DEF Later, Active
  <2>2. CASE 0 \notin DOMAIN disk
    BY <1>3, <2>2 DEF Before
  <2> QED
    BY <2>1, <2>2
<1>7. Range(buffer') \subseteq Later
  BY <1>3 DEF Later
<1> QED
  BY <1>3, <1>5, <1>6, <1>7, FlowKeeps

\* Every step keeps the types: the rows of files and buffer have been offered,
\* and a rotation renames within the slots.
LEMMA TypeKeeps ==
  ASSUME LogInv, Next PROVE TypeOK'
<1>1. TypeOK /\ WriterInv
  BY DEF LogInv
<1>2. /\ row \in 0..MaxRows /\ row \in Nat /\ slot \in (-1)..Top /\ slot \in Int
      /\ Keep \in Nat /\ Top \in Nat \ {0} /\ Keep <= Top /\ Limit \in Nat \ {0}
      /\ MaxRows \in Nat /\ MaxFaults \in Nat
      /\ faults \in 0..MaxFaults /\ broken \in 0..faults /\ cutoff \in 0..row
  BY <1>1, LogAssumption DEF TypeOK, Top
<1>3. /\ DOMAIN disk \subseteq 0..Top
      /\ \A s \in DOMAIN disk : disk[s] \in Seq(1..row)
      /\ buffer \in Seq(1..row)
      /\ reported \subseteq 1..row /\ purged \subseteq 1..row
      /\ todo \subseteq 1..Top /\ doomed \in 0..Top
      /\ open \in BOOLEAN /\ closed \in BOOLEAN /\ pc \in Pcs
  BY <1>1 DEF TypeOK
<1>4. << >> \in Seq(1..row)
  BY EmptySeq
<1> DEFINE Rows == Seq(1..row)
           Slots == 0..Top
<1>5. /\ DOMAIN Create(disk) \subseteq Slots
      /\ \A s \in DOMAIN Create(disk) : Create(disk)[s] \in Rows
  <2>1. DOMAIN disk \subseteq Slots /\ 0 \in Slots /\ << >> \in Rows /\ \A s \in DOMAIN disk : disk[s] \in Rows
    BY <1>2, <1>3, <1>4
  <2> HIDE DEF Rows, Slots
  <2> QED
    BY <2>1, CreateAdds
<1>6. ASSUME NEW s
      PROVE  /\ DOMAIN Unlink(disk, s) \subseteq Slots
             /\ \A t \in DOMAIN Unlink(disk, s) : Unlink(disk, s)[t] \in Rows
  <2>1. DOMAIN disk \subseteq Slots /\ \A t \in DOMAIN disk : disk[t] \in Rows
    BY <1>3
  <2> HIDE DEF Rows, Slots
  <2>2. /\ DOMAIN Unlink(disk, s) = DOMAIN disk \ {s}
        /\ \A t \in DOMAIN disk \ {s} : Unlink(disk, s)[t] = disk[t]
    BY UnlinkTakes
  <2> QED
    BY <2>1, <2>2
<1>7. ASSUME NEW s \in 0..(Top - 1)
      PROVE  /\ DOMAIN Rename(disk, s, s + 1) \subseteq Slots
             /\ \A t \in DOMAIN Rename(disk, s, s + 1) : Rename(disk, s, s + 1)[t] \in Rows
  <2> DEFINE t == s + 1
  <2>1. s # t /\ t \in Slots
    BY <1>2
  <2>2. DOMAIN disk \subseteq Slots /\ \A u \in DOMAIN disk : disk[u] \in Rows
    BY <1>3
  <2> HIDE DEF Rows, Slots, t
  <2>3. CASE s \in DOMAIN disk
    <3>1. /\ DOMAIN Rename(disk, s, t) = (DOMAIN disk \ {s}) \cup {t}
          /\ Rename(disk, s, t)[t] = disk[s]
          /\ \A u \in DOMAIN disk \ {s, t} : Rename(disk, s, t)[u] = disk[u]
      BY <2>1, <2>3 DEF Rename
    <3>2. DOMAIN Rename(disk, s, t) \subseteq Slots
      BY <2>1, <2>2, <3>1
    <3>3. \A u \in DOMAIN Rename(disk, s, t) : u = t \/ u \in DOMAIN disk \ {s, t}
      BY <3>1
    <3>4. \A u \in DOMAIN Rename(disk, s, t) : Rename(disk, s, t)[u] \in Rows
      BY <2>2, <2>3, <3>1, <3>3
    <3> QED
      BY <3>2, <3>4 DEF t
  <2>4. CASE s \notin DOMAIN disk
    <3>1. Rename(disk, s, t) = disk
      BY <2>1, <2>4, RenameMoves
    <3> QED
      BY <2>2, <3>1 DEF t
  <2> QED
    BY <2>3, <2>4
<1>8. ASSUME NEW f \in Seq(1..row), row \in 1..row
      PROVE  Append(f, row) \in Seq(1..row)
  BY <1>8, AppendProperties
<1>9. CASE Record
  <2>1. row' \in 0..MaxRows /\ 1..row \subseteq 1..row' /\ cutoff' \in 0..row'
    BY <1>2, <1>9 DEF Record, purge
  <2>2. \A f \in Seq(1..row) : f \in Seq(1..row')
    BY <2>1, SeqMonotonic
  <2>3. /\ \A s \in DOMAIN disk' : disk'[s] \in Seq(1..row')
        /\ buffer' \in Seq(1..row')
    BY <1>3, <1>9, <2>2 DEF Record, writer
  <2>4. reported' \subseteq 1..row' /\ purged' \subseteq 1..row'
    BY <1>3, <1>9, <2>1 DEF Record, purge
  <2>5. pc' \in Pcs
    BY <1>9 DEF Record, Goto, Pcs
  <2>6. UNCHANGED <<disk, open, closed, slot, todo, doomed, faults, broken>>
    BY <1>9 DEF Record, writer, purge
  <2> QED
    BY <1>2, <1>3, <2>1, <2>3, <2>4, <2>5, <2>6 DEF TypeOK
<1>10. CASE EnsureOpen
  <2>1. disk' = Create(disk) /\ open' = TRUE /\ pc' \in Pcs
    BY <1>10 DEF EnsureOpen, Goto, Pcs
  <2> QED
    BY <1>1, <1>5, <1>10, <2>1 DEF EnsureOpen, TypeOK, purge
<1>11. ASSUME Fault PROVE faults' \in 0..MaxFaults /\ broken \in 0..faults' /\ broken + 1 \in 0..faults'
  BY <1>2, <1>11 DEF Fault
<1>12. CASE OpenFails
  <2>1. faults' \in 0..MaxFaults /\ broken \in 0..faults' /\ pc' \in Pcs
    BY <1>11, <1>12 DEF OpenFails, Goto, Pcs
  <2> QED
    BY <1>1, <1>12, <2>1 DEF OpenFails, TypeOK, writer, purge
<1>13. ASSUME 0 \in DOMAIN disk, NEW f \in Rows
       PROVE  \A s \in DOMAIN [disk EXCEPT ![0] = f] : [disk EXCEPT ![0] = f][s] \in Rows
  <2>1. \A s \in DOMAIN disk : disk[s] \in Rows
    BY <1>3
  <2> HIDE DEF Rows
  <2> QED
    BY <1>13, <2>1
<1>14. CASE Write
  <2>1. 0 \in DOMAIN disk /\ disk[0] \o buffer \in Rows
    BY <1>1, <1>3, <1>14, ConcatProperties DEF Write, WriterInv
  <2>2. row \in 1..row
    BY <1>1, <1>2, <1>14 DEF Write, WriterInv
  <2>3. Append(disk[0] \o buffer, row) \in Rows
    BY <1>8, <2>1, <2>2
  <2>4. disk' = [disk EXCEPT ![0] = Append(disk[0] \o buffer, row)]
    BY <1>14 DEF Write
  <2>5. DOMAIN disk' \subseteq 0..Top /\ \A s \in DOMAIN disk' : disk'[s] \in Rows
    BY <1>3, <1>13, <2>1, <2>3, <2>4
  <2>6. pc' \in Pcs /\ buffer' = << >> /\ reported' \subseteq 1..row /\ row' = row
    BY <1>3, <1>14, <2>2 DEF Write, Goto, Pcs
  <2>7. UNCHANGED <<open, closed, slot, purge, faults, broken>>
    BY <1>14 DEF Write
  <2> QED
    BY <1>2, <1>3, <1>4, <2>5, <2>6, <2>7 DEF TypeOK, purge
<1>15. CASE WriteFails
  <2>1. row \in 1..row
    BY <1>1, <1>2, <1>15 DEF WriteFails, WriterInv
  <2>2. buffer' \in Seq(1..row) /\ pc' \in Pcs
    BY <1>3, <1>8, <1>15, <2>1 DEF WriteFails, Goto, Pcs
  <2>3. faults' \in 0..MaxFaults /\ broken \in 0..faults'
    BY <1>11, <1>15 DEF WriteFails
  <2> QED
    BY <1>2, <1>3, <1>15, <2>2, <2>3 DEF WriteFails, TypeOK, purge
<1>16. ASSUME CloseFile
       PROVE  /\ DOMAIN disk' \subseteq 0..Top /\ \A s \in DOMAIN disk' : disk'[s] \in Rows
              /\ buffer' \in Rows /\ open' \in BOOLEAN
              /\ faults' \in 0..MaxFaults /\ broken \in 0..faults'
  <2>1. CASE open /\ disk' = [disk EXCEPT ![0] = disk[0] \o buffer] /\ faults' = faults
    <3>1. 0 \in DOMAIN disk /\ disk[0] \o buffer \in Rows
      BY <1>1, <1>3, <2>1, ConcatProperties DEF WriterInv
    <3>2. DOMAIN disk' \subseteq 0..Top /\ \A s \in DOMAIN disk' : disk'[s] \in Rows
      BY <1>3, <1>13, <2>1, <3>1
    <3> QED
      BY <1>2, <1>4, <1>16, <2>1, <3>2 DEF CloseFile
  <2>2. CASE disk' = disk /\ (faults' = faults \/ Fault)
    BY <1>2, <1>3, <1>4, <1>11, <1>16, <2>2 DEF CloseFile
  <2> QED
    BY <1>3, <1>16, <2>1, <2>2 DEF CloseFile
<1>17. CASE CloseActive
  <2>1. CloseFile /\ pc' \in Pcs
    BY <1>17 DEF CloseActive, Goto, Pcs
  <2> QED
    BY <1>2, <1>3, <1>16, <1>17, <2>1 DEF CloseActive, TypeOK, purge
<1>18. CASE Close
  <2>1. CloseFile /\ closed' \in BOOLEAN
    BY <1>18 DEF Close
  <2> QED
    BY <1>2, <1>3, <1>16, <1>18, <2>1 DEF Close, TypeOK, purge
<1>19. CASE DropOldest
  <2>1. /\ DOMAIN disk' \subseteq Slots
        /\ \A s \in DOMAIN disk' : disk'[s] \in Rows
    BY <1>3, <1>6, <1>19 DEF DropOldest
  <2>2. pc' \in Pcs /\ slot' \in (-1)..Top
    BY <1>2, <1>19 DEF DropOldest, Goto, Pcs
  <2> QED
    BY <1>2, <1>3, <1>19, <2>1, <2>2 DEF DropOldest, TypeOK, writer, purge
<1>20. CASE Shift
  <2>1. slot \in 0..(Top - 1)
    BY <1>1, <1>2, <1>20 DEF Shift, WriterInv
  <2>2. /\ DOMAIN disk' \subseteq Slots
        /\ \A s \in DOMAIN disk' : disk'[s] \in Rows
    BY <1>7, <1>20, <2>1 DEF Shift
  <2>3. slot' \in (-1)..Top
    BY <1>2, <1>20 DEF Shift
  <2> QED
    BY <1>2, <1>3, <1>20, <2>2, <2>3 DEF Shift, TypeOK, writer, purge
<1>21. CASE ShiftActive
  <2>1. /\ DOMAIN Rename(disk, 0, 0 + 1) \subseteq Slots
        /\ \A s \in DOMAIN Rename(disk, 0, 0 + 1) : Rename(disk, 0, 0 + 1)[s] \in Rows
    <3>1. 0 \in 0..(Top - 1)
      BY <1>2
    <3> QED
      BY <1>7, <3>1
  <2>2. disk' = Rename(disk, 0, 0 + 1) /\ pc' \in Pcs
    BY <1>21 DEF ShiftActive, MoveActive, Goto, Pcs
  <2> QED
    BY <1>2, <1>3, <1>21, <2>1, <2>2 DEF ShiftActive, TypeOK, writer, purge
<1>22. CASE RotationFails
  <2>1. faults' \in 0..MaxFaults /\ broken' \in 0..faults' /\ pc' \in Pcs
    BY <1>11, <1>22 DEF RotationFails, Goto, Pcs
  <2> QED
    BY <1>2, <1>3, <1>22, <2>1 DEF RotationFails, TypeOK, writer, purge
<1>23. CASE Reopen
  <2>1. disk' = Create(disk) /\ open' = TRUE /\ pc' \in Pcs
    BY <1>23 DEF Reopen, Goto, Pcs
  <2> QED
    BY <1>2, <1>3, <1>5, <1>23, <2>1 DEF Reopen, TypeOK, purge
<1>24. CASE NewWriter
  BY <1>2, <1>3, <1>24 DEF NewWriter, TypeOK, purge
<1>25. CASE Kill
  <2>1. faults' \in 0..MaxFaults /\ broken' \in 0..faults' /\ pc' \in Pcs
    BY <1>11, <1>25 DEF Kill, Goto, Pcs
  <2> QED
    BY <1>2, <1>3, <1>4, <1>25, <2>1 DEF Kill, TypeOK, purge
<1>26. CASE PurgeStart
  <2>1. cutoff' \in 0..row /\ todo' \subseteq 1..Top
    BY <1>2, <1>3, <1>26 DEF PurgeStart
  <2> QED
    BY <1>2, <1>3, <1>26, <2>1 DEF PurgeStart, TypeOK, writer
<1>27. CASE PurgeStat
  <2>1. doomed' \in 0..Top /\ todo' \subseteq 1..Top
    BY <1>2, <1>3, <1>27 DEF PurgeStat
  <2> QED
    BY <1>2, <1>3, <1>27, <2>1 DEF PurgeStat, TypeOK, writer
<1>28. CASE PurgeUnlink
  <2>1. /\ DOMAIN disk' \subseteq Slots
        /\ \A s \in DOMAIN disk' : disk'[s] \in Rows
    BY <1>6, <1>28 DEF PurgeUnlink
  <2>2. doomed \in DOMAIN disk => Range(disk[doomed]) \subseteq 1..row
    <3>1. SUFFICES ASSUME doomed \in DOMAIN disk, NEW r \in Range(disk[doomed]) PROVE r \in 1..row
      OBVIOUS
    <3>2. disk[doomed] \in Seq(1..row)
      BY <1>3, <3>1
    <3>3. /\ DOMAIN disk[doomed] = 1..Len(disk[doomed])
          /\ \A i \in 1..Len(disk[doomed]) : disk[doomed][i] \in 1..row
      BY <3>2, LenProperties, ElementOfSeq
    <3> QED
      BY <3>1, <3>3 DEF Range
  <2>3. purged' \subseteq 1..row
    BY <1>3, <1>28, <2>2, Zenon DEF PurgeUnlink
  <2>4. doomed' \in 0..Top
    BY <1>2, <1>28 DEF PurgeUnlink
  <2> QED
    BY <1>2, <1>3, <1>28, <2>1, <2>3, <2>4 DEF PurgeUnlink, TypeOK, writer
<1>29. CASE PurgeUnlinkFails
  <2>1. faults' \in 0..MaxFaults /\ broken \in 0..faults' /\ doomed' \in 0..Top
    BY <1>2, <1>11, <1>29 DEF PurgeUnlinkFails
  <2> QED
    BY <1>2, <1>3, <1>29, <2>1 DEF PurgeUnlinkFails, TypeOK, writer
<1> QED
  BY <1>9, <1>10, <1>12, <1>14, <1>15, <1>17, <1>18, <1>19, <1>20, <1>21, <1>22, <1>23,
     <1>24, <1>25, <1>26, <1>27, <1>28, <1>29 DEF Next, RecordStep, PurgeStep

\* Every step keeps what the writer relies on: a shift goes down from the slot
\* that the unlink emptied, and no other step fills a slot.
LEMMA WriterKeeps ==
  ASSUME LogInv, Next PROVE WriterInv'
<1>1. TypeOK /\ WriterInv
  BY DEF LogInv
<1>2. /\ row \in Nat /\ slot \in Int /\ Keep \in Nat /\ DOMAIN disk \subseteq 0..Top
      /\ Top \in Nat /\ (Keep > 0 => Top = Keep)
  BY <1>1, LogAssumption DEF TypeOK, Top
<1>3. ASSUME UNCHANGED <<disk, open, buffer, slot, row>>, pc' \in {"idle", pc}
      PROVE  WriterInv'
  BY <1>1, <1>3 DEF WriterInv
<1>4. CASE Record
  <2>1. row' > 0 /\ pc = "idle" /\ pc' \in {"idle", "open"}
    BY <1>2, <1>4 DEF Record, Goto
  <2> QED
    BY <1>1, <1>4, <2>1 DEF Record, WriterInv, writer
<1>5. ASSUME disk' = Create(disk) PROVE 0 \in DOMAIN disk' /\ DOMAIN disk' = DOMAIN disk \cup {0}
  BY <1>5, CreateAdds
<1>6. CASE EnsureOpen
  <2>1. /\ pc' \in {"close", "write"} /\ (pc' = "close" => Len(disk'[0]) >= Limit)
        /\ open' /\ pc = "open" /\ row' = row /\ 0 \in DOMAIN disk'
    BY <1>5, <1>6 DEF EnsureOpen, Goto, ShouldRotate
  <2> QED
    BY <1>1, <2>1 DEF WriterInv
<1>7. CASE OpenFails
  BY <1>3, <1>7 DEF OpenFails, Goto, writer
<1>8. CASE Write
  <2>1. pc' = "idle" /\ buffer' = << >> /\ open' = open /\ DOMAIN disk' = DOMAIN disk
    BY <1>8 DEF Write, Goto
  <2> QED
    BY <1>1, <2>1 DEF WriterInv
<1>9. CASE WriteFails
  <2>1. pc' = "idle" /\ open' = open /\ open /\ disk' = disk
    BY <1>1, <1>9 DEF WriteFails, Goto, WriterInv
  <2> QED
    BY <1>1, <2>1 DEF WriterInv
<1>10. CASE CloseActive
  <2>1. /\ pc = "close" /\ pc' = "drop" /\ row' = row /\ ~open' /\ buffer' = << >>
        /\ disk' = disk \/ disk' = [disk EXCEPT ![0] = disk[0] \o buffer]
    BY <1>10 DEF CloseActive, CloseFile, Goto
  <2>2. 0 \in DOMAIN disk /\ Len(disk[0]) >= Limit /\ row > 0
    BY <1>1, <2>1 DEF WriterInv
  <2>3. Len(disk[0] \o buffer) >= Len(disk[0]) /\ Len(disk[0]) \in Nat /\ Len(disk[0] \o buffer) \in Nat
    <3>1. disk[0] \in Seq(1..row) /\ buffer \in Seq(1..row)
      BY <1>1, <2>2 DEF TypeOK
    <3>2. Len(disk[0]) \in Nat /\ Len(buffer) \in Nat /\ Len(disk[0] \o buffer) = Len(disk[0]) + Len(buffer)
      BY <3>1, ConcatProperties, LenProperties
    <3> QED
      BY <3>2
  <2>4. 0 \in DOMAIN disk' /\ Len(disk'[0]) >= Limit
    BY <2>1, <2>2, <2>3, LogAssumption
  <2> QED
    BY <2>1, <2>2, <2>4 DEF WriterInv
<1>11. CASE DropOldest
  <2>1. /\ pc = "drop" /\ pc' = "shift" /\ row' = row /\ slot' = Keep - 1
        /\ open' = open /\ buffer' = buffer
    BY <1>11 DEF DropOldest, Goto, writer
  <2>2. 0 \in DOMAIN disk /\ Len(disk[0]) >= Limit /\ row > 0 /\ ~open /\ buffer = << >>
    BY <1>1, <2>1 DEF WriterInv
  <2>3. CASE Keep = 0
    <3>1. disk' = disk /\ slot' = -1 /\ slot' < Keep
      BY <1>11, <2>1, <2>3 DEF DropOldest
    <3> QED
      BY <2>1, <2>2, <2>3, <3>1 DEF WriterInv
  <2>4. CASE Keep # 0
    <3>1. /\ DOMAIN disk' = DOMAIN disk \ {Keep}
          /\ \A t \in DOMAIN disk \ {Keep} : disk'[t] = disk[t]
      BY <1>11, <2>4, UnlinkTakes DEF DropOldest
    <3>2. slot' < Keep /\ slot' + 1 = Keep /\ slot' # -1
      BY <1>2, <2>1, <2>4
    <3>3. 0 \in DOMAIN disk' /\ disk'[0] = disk[0] /\ slot' + 1 \notin DOMAIN disk'
      BY <2>2, <2>4, <3>1, <3>2
    <3> QED
      BY <2>1, <2>2, <3>2, <3>3 DEF WriterInv
  <2> QED
    BY <2>3, <2>4
<1>12. CASE Shift
  <2>1. /\ pc = "shift" /\ pc' = "shift" /\ row' = row /\ slot' = slot - 1 /\ slot >= 1
        /\ open' = open /\ buffer' = buffer /\ disk' = Rename(disk, slot, slot + 1)
    BY <1>12 DEF Shift, writer
  <2>2. /\ 0 \in DOMAIN disk /\ Len(disk[0]) >= Limit /\ row > 0 /\ ~open /\ buffer = << >>
        /\ slot < Keep /\ slot + 1 \notin DOMAIN disk
    BY <1>1, <1>2, <2>1 DEF WriterInv
  <2>3. slot' < Keep /\ slot' # -1 /\ slot' + 1 = slot /\ slot # slot + 1 /\ slot # 0 /\ slot + 1 # 0
    BY <1>2, <2>1, <2>2
  <2>4. 0 \in DOMAIN disk' /\ disk'[0] = disk[0] /\ slot \notin DOMAIN disk'
    <3> DEFINE t == slot + 1
    <3>1. slot # t /\ t # 0 /\ t \notin DOMAIN disk /\ disk' = Rename(disk, slot, t)
      BY <2>1, <2>2, <2>3
    <3> HIDE DEF t
    <3> QED
      BY <2>2, <2>3, <3>1 DEF Rename
  <2> QED
    BY <2>1, <2>2, <2>3, <2>4 DEF WriterInv
<1>13. CASE ShiftActive
  <2>1. pc = "shift" /\ pc' = "reopen" /\ row' = row /\ open' = open /\ buffer' = buffer
    BY <1>13 DEF ShiftActive, Goto, writer
  <2> QED
    BY <1>1, <2>1 DEF WriterInv
<1>14. CASE RotationFails
  BY <1>3, <1>14 DEF RotationFails, Goto, writer
<1>15. CASE Reopen
  <2>1. /\ pc' = "write" /\ pc = "reopen" /\ open' /\ row' = row /\ 0 \in DOMAIN disk'
    BY <1>5, <1>15 DEF Reopen, Goto
  <2> QED
    BY <1>1, <2>1 DEF WriterInv
<1>16. CASE Close
  <2>1. pc' = "idle" /\ ~open' /\ buffer' = << >>
    BY <1>16 DEF Close, CloseFile
  <2> QED
    BY <2>1 DEF WriterInv
<1>17. CASE NewWriter
  BY <1>3, <1>17 DEF NewWriter
<1>18. CASE Kill
  <2>1. pc' = "idle" /\ ~open' /\ buffer' = << >>
    BY <1>18 DEF Kill, Goto
  <2> QED
    BY <2>1 DEF WriterInv
<1>19. CASE PurgeStart \/ PurgeStat \/ PurgeUnlinkFails
  BY <1>3, <1>19 DEF PurgeStart, PurgeStat, PurgeUnlinkFails, writer
<1>20. CASE PurgeUnlink
  <2>1. /\ DOMAIN disk' = DOMAIN disk \ {doomed}
        /\ \A t \in DOMAIN disk \ {doomed} : disk'[t] = disk[t]
    BY <1>20, UnlinkTakes DEF PurgeUnlink
  <2>2. doomed # 0 /\ UNCHANGED <<open, buffer, pc, slot, row>>
    BY <1>20 DEF PurgeUnlink, writer
  <2>3. (0 \in DOMAIN disk => 0 \in DOMAIN disk' /\ disk'[0] = disk[0]) /\ DOMAIN disk' \subseteq DOMAIN disk
    BY <2>1, <2>2
  <2> QED
    BY <1>1, <2>2, <2>3 DEF WriterInv
<1> QED
  BY <1>4, <1>6, <1>7, <1>8, <1>9, <1>10, <1>11, <1>12, <1>13, <1>14, <1>15, <1>16, <1>17,
     <1>18, <1>19, <1>20 DEF Next, RecordStep, PurgeStep

\* A file's age changes in a shift only, and a rotation that breaks off makes
\* none older than it was.
LEMMA AgeStays ==
  ASSUME TypeOK, NEW s \in Int
  PROVE  /\ UNCHANGED <<pc, slot, broken>> => Age(s)' = Age(s)
         /\ pc # "shift" /\ pc' # "shift" /\ UNCHANGED broken => Age(s)' = Age(s)
         /\ pc' = "idle" /\ broken' = (IF pc = "shift" THEN broken + 1 ELSE broken)
              => Age(s)' <= Age(s)
<1>1. broken \in Nat /\ slot \in Int
  BY TypedRows
<1>2. UNCHANGED <<pc, slot, broken>> => Age(s)' = Age(s)
  BY DEF Age, Moved
<1>3. pc # "shift" /\ pc' # "shift" /\ UNCHANGED broken => Age(s)' = Age(s)
  BY DEF Age, Moved
<1>4. ASSUME pc' = "idle", broken' = (IF pc = "shift" THEN broken + 1 ELSE broken)
      PROVE  Age(s)' <= Age(s)
  <2>1. Age(s)' = s - 1 - broken'
    BY <1>4 DEF Age, Moved
  <2>2. CASE pc = "shift"
    BY <1>1, <1>4, <2>1, <2>2 DEF Age
  <2>3. CASE pc # "shift"
    BY <1>1, <1>4, <2>1, <2>3 DEF Age, Moved
  <2> QED
    BY <2>2, <2>3
<1> QED
  BY <1>2, <1>3, <1>4

\* No step but record() takes a new row, and the row of a record() that is over
\* is followed by the next.
LEMMA UpcomingStays ==
  ASSUME TypeOK, UNCHANGED row, pc = "idle" => pc' = "idle"
  PROVE  Upcoming' >= Upcoming
<1>1. row \in Nat
  BY TypedRows
<1> QED
  BY <1>1 DEF Upcoming

\* Writing the buffer out leaves what is to come behind what is there.
LEMMA FlushRows ==
  ASSUME LogInv, 0 \in DOMAIN disk
  PROVE  LET f == disk[0] \o buffer
         IN  /\ f \in Seq(Nat) /\ Spaced(f)
             /\ Range(f) = Active \cup Range(buffer)
             /\ Before(Range(f), {Upcoming})
<1>1. disk[0] \in Seq(Nat) /\ buffer \in Seq(Nat)
  BY TypedRows DEF LogInv
<1>2. /\ Spaced(disk[0]) /\ Before(Range(disk[0]), Range(buffer) \cup {Upcoming})
      /\ Spaced(buffer) /\ Before(Range(buffer), {Upcoming})
  BY DEF LogInv, OrderInv
<1>3. Before(Range(disk[0]), Range(buffer))
  BY <1>2 DEF Before
<1> DEFINE f == disk[0] \o buffer
<1>4. f \in Seq(Nat) /\ Spaced(f) /\ Range(f) = Range(disk[0]) \cup Range(buffer)
  BY <1>1, <1>2, <1>3, ConcatRows
<1> HIDE DEF f
<1>5. Before(Range(f), {Upcoming})
  BY <1>2, <1>4 DEF Before
<1>6. Active = Range(disk[0])
  BY DEF Active
<1> QED
  BY <1>4, <1>5, <1>6 DEF f

\* A flush, a write and a write that fails keep the rows in order.
LEMMA WritesKeep ==
  ASSUME LogInv, TypeOK', CloseActive \/ Close \/ Write \/ WriteFails
  PROVE  OrderInv' /\ RotatedAreFull' /\ AgeInv'
<1>1. /\ TypeOK /\ WriterInv /\ OrderInv
      /\ \A s \in DOMAIN disk : disk[s] \in Seq(Nat) /\ Range(disk[s]) \subseteq Nat
      /\ buffer \in Seq(Nat) /\ Range(buffer) \subseteq Nat /\ row \in Nat /\ Upcoming \in Nat
      /\ Active \subseteq Nat /\ Later \subseteq Nat
  BY TypedRows DEF LogInv
<1>2. DOMAIN disk' \subseteq Nat /\ Upcoming' \in Nat
  BY TypedNext
<1>3. Spaced(<<>>) /\ Range(<<>>) = {}
  BY NoRows
<1>4. ASSUME CloseActive \/ Close, 0 \in DOMAIN disk, disk' = [disk EXCEPT ![0] = disk[0] \o buffer]
      PROVE  OrderInv' /\ RotatedAreFull' /\ AgeInv'
  <2> DEFINE f == disk[0] \o buffer
  <2>1. Spaced(f) /\ Range(f) = Active \cup Range(buffer) /\ Before(Range(f), {Upcoming})
    BY <1>4, FlushRows
  <2> HIDE DEF f
  <2>2. disk'[0] = f /\ DOMAIN disk' = DOMAIN disk /\ \A s \in DOMAIN disk \ {0} : disk'[s] = disk[s]
    BY <1>4 DEF f
  <2>3. buffer' = << >> /\ Upcoming' = Upcoming /\ pc # "shift" /\ pc' # "shift" /\ broken' = broken
    BY <1>4 DEF CloseActive, Close, CloseFile, Goto, Upcoming
  <2>4. \A s \in DOMAIN disk' \ {0} : Age(s)' <= Age(s)
    <3>1. \A s \in DOMAIN disk' : s \in Int
      BY <1>2
    <3>2. \A s \in DOMAIN disk' : Age(s)' = Age(s) /\ Age(s) \in Int
      BY <1>1, <2>3, <3>1, AgeStays, TypedRows
    <3> QED
      BY <3>2
  <2>5. Range(disk'[0]) \subseteq Later
    BY <2>1, <2>2 DEF Later
  <2>6. Before(Range(disk'[0]), Range(buffer') \cup {Upcoming'})
    BY <1>3, <2>1, <2>2, <2>3
  <2>7. Spaced(buffer') /\ Range(buffer') \subseteq Later /\ Before(Range(buffer'), {Upcoming'})
    BY <1>3, <2>3 DEF Before
  <2>8. Upcoming' >= Upcoming
    BY <1>1, <2>3
  <2> QED
    BY <2>1, <2>2, <2>4, <2>5, <2>6, <2>7, <2>8, FlowKeeps
<1>5. CASE Write
  <2>1. /\ pc = "write" /\ pc' = "idle" /\ row' = row /\ buffer' = << >>
        /\ disk' = [disk EXCEPT ![0] = Append(disk[0] \o buffer, row)]
        /\ broken' = broken
    BY <1>5 DEF Write, Goto
  <2>2. 0 \in DOMAIN disk /\ Upcoming = row /\ Upcoming' = row + 1
    BY <1>1, <2>1 DEF WriterInv, Upcoming
  <2> DEFINE f == disk[0] \o buffer
             g == Append(f, row)
  <2>3. /\ f \in Seq(Nat) /\ Spaced(f) /\ Range(f) = Active \cup Range(buffer)
        /\ Before(Range(f), {row})
    BY <2>2, FlushRows
  <2>4. disk'[0] = g /\ DOMAIN disk' = DOMAIN disk /\ \A s \in DOMAIN disk \ {0} : disk'[s] = disk[s]
    BY <2>1, <2>2
  <2> HIDE DEF f
  <2>5. Spaced(g) /\ Range(g) = Range(f) \cup {row}
    BY <1>1, <2>3, AppendRow
  <2> HIDE DEF g
  <2>6. Range(disk'[0]) \subseteq Later
    BY <2>2, <2>3, <2>4, <2>5 DEF Later
  <2>7. Before(Range(disk'[0]), Range(buffer') \cup {Upcoming'})
    <3>1. ASSUME NEW r \in Range(g) PROVE r < row + 1
      <4>1. r \in Nat
        BY <1>1, <2>4, <2>6
      <4>2. r < row \/ r = row
        BY <2>3, <2>5 DEF Before
      <4> QED
        BY <1>1, <4>1, <4>2
    <3>2. Range(buffer') \cup {Upcoming'} = {row + 1}
      BY <1>3, <2>1, <2>2
    <3> QED
      BY <2>4, <3>1, <3>2 DEF Before
  <2>8. Spaced(buffer') /\ Range(buffer') \subseteq Later /\ Before(Range(buffer'), {Upcoming'})
    BY <1>3, <2>1 DEF Before
  <2>9. \A s \in DOMAIN disk' \ {0} : Age(s)' <= Age(s)
    <3>1. \A s \in DOMAIN disk' : s \in Int
      BY <1>2
    <3>2. \A s \in DOMAIN disk' : Age(s)' = Age(s) /\ Age(s) \in Int
      BY <1>1, <2>1, <3>1, AgeStays, TypedRows
    <3> QED
      BY <3>2
  <2>10. Upcoming' >= Upcoming
    BY <1>1, <2>2
  <2> QED
    BY <2>4, <2>5, <2>6, <2>7, <2>8, <2>9, <2>10, FlowKeeps
<1>6. CASE WriteFails
  <2>1. /\ pc = "write" /\ pc' = "idle" /\ row' = row /\ buffer' = Append(buffer, row)
        /\ disk' = disk /\ broken' = broken
    BY <1>6 DEF WriteFails, Goto
  <2>2. 0 \in DOMAIN disk /\ Upcoming = row /\ Upcoming' = row + 1
    BY <1>1, <2>1 DEF WriterInv, Upcoming
  <2>3. Spaced(buffer) /\ Before(Range(buffer), {row})
    BY <1>1, <2>2 DEF OrderInv
  <2> DEFINE g == Append(buffer, row)
  <2>4. Spaced(g) /\ Range(g) = Range(buffer) \cup {row}
    BY <1>1, <2>3, AppendRow
  <2> HIDE DEF g
  <2>5. buffer' = g
    BY <2>1 DEF g
  <2>6. Range(buffer') \subseteq Later /\ Spaced(buffer')
    BY <2>2, <2>4, <2>5 DEF Later
  <2>7. Spaced(disk[0]) /\ Before(Range(disk[0]), Range(buffer) \cup {row})
    BY <1>1, <2>2 DEF OrderInv
  <2>8. \A r \in Nat : r < row => r < row + 1
    BY <1>1
  <2>9. Before(Range(buffer'), {Upcoming'})
    BY <1>1, <2>2, <2>3, <2>4, <2>5, <2>8 DEF Before
  <2>10. Before(Range(disk'[0]), Range(buffer') \cup {Upcoming'})
    <3>1. Before(Range(disk[0]), Range(buffer'))
      BY <2>4, <2>5, <2>7 DEF Before
    <3>2. Before(Range(disk[0]), {Upcoming'})
      BY <1>1, <2>2, <2>7, <2>8 DEF Before
    <3> QED
      BY <2>1, <3>1, <3>2 DEF Before
  <2>11. Range(disk'[0]) \subseteq Later
    BY <2>1, <2>2 DEF Later, Active
  <2>12. \A s \in DOMAIN disk' \ {0} : Age(s)' <= Age(s)
    <3>1. \A s \in DOMAIN disk' : s \in Int
      BY <1>2
    <3>2. \A s \in DOMAIN disk' : Age(s)' = Age(s) /\ Age(s) \in Int
      BY <1>1, <2>1, <3>1, AgeStays, TypedRows
    <3> QED
      BY <3>2
  <2>13. Upcoming' >= Upcoming
    BY <1>1, <2>2
  <2> QED
    BY <2>1, <2>6, <2>7, <2>9, <2>10, <2>11, <2>12, <2>13, FlowKeeps
<1>7. ASSUME CloseActive \/ Close, disk' = disk
      PROVE  OrderInv' /\ RotatedAreFull' /\ AgeInv'
  <2>1. buffer' = << >> /\ Upcoming' = Upcoming /\ pc # "shift" /\ pc' # "shift" /\ broken' = broken
    BY <1>7 DEF CloseActive, Close, CloseFile, Goto, Upcoming
  <2>2. \A s \in DOMAIN disk' \ {0} : Age(s)' <= Age(s)
    <3>1. \A s \in DOMAIN disk' : s \in Int
      BY <1>2
    <3>2. \A s \in DOMAIN disk' : Age(s)' = Age(s) /\ Age(s) \in Int
      BY <1>1, <2>1, <3>1, AgeStays, TypedRows
    <3> QED
      BY <3>2
  <2>3. Upcoming' >= Upcoming
    BY <1>1, <2>1
  <2> QED
    BY <1>7, <2>1, <2>2, <2>3, QuietKeeps
<1>8. CASE CloseActive \/ Close
  <2>1. disk' = disk \/ (open /\ disk' = [disk EXCEPT ![0] = disk[0] \o buffer])
    BY <1>8 DEF CloseActive, Close, CloseFile
  <2>2. open => 0 \in DOMAIN disk
    BY <1>1 DEF WriterInv
  <2> QED
    BY <1>4, <1>7, <1>8, <2>1, <2>2
<1> QED
  BY <1>5, <1>6, <1>8

\* A shift moves a file into the empty slot above it, and its age with it.
LEMMA ShiftKeeps ==
  ASSUME LogInv, TypeOK', Shift
  PROVE  OrderInv' /\ RotatedAreFull' /\ AgeInv'
<1>1. /\ TypeOK /\ WriterInv /\ OrderInv /\ RotatedAreFull /\ AgeInv
      /\ DOMAIN disk \subseteq Nat /\ slot \in Int /\ row \in Nat /\ Upcoming \in Nat /\ broken \in Nat
      /\ \A s \in Int : Age(s) \in Int
  BY TypedRows DEF LogInv
<1>0. PICK t : t = slot + 1
  OBVIOUS
<1>2. /\ pc = "shift" /\ slot >= 1 /\ disk' = Rename(disk, slot, t) /\ slot' = slot - 1
      /\ pc' = pc /\ UNCHANGED <<open, buffer, row, broken>>
  BY <1>0 DEF Shift, writer
<1>3. t \notin DOMAIN disk /\ slot # t /\ t # 0 /\ slot # 0 /\ t \in Int /\ t = slot + 1
  BY <1>0, <1>1, <1>2 DEF WriterInv
<1>4. Upcoming' = Upcoming /\ buffer' = buffer
  BY <1>2 DEF Upcoming
<1>5. \A s \in Int \ {t} : Age(s)' = Age(s)
  <2>1. \A s \in Int \ {t} : Moved(s)' <=> Moved(s)
    BY <1>1, <1>2, <1>3 DEF Moved
  <2> QED
    BY <1>2, <2>1 DEF Age
<1>6. Age(t)' = Age(slot)
  <2>1. Moved(t)' /\ ~Moved(slot)
    <3>1. 0 <= slot - 1 /\ (slot - 1) + 1 < t /\ ~(slot + 1 < slot)
      BY <1>1, <1>2, <1>3
    <3> QED
      BY <1>2, <3>1 DEF Moved
  <2>2. Age(t)' = t - 2 - broken /\ Age(slot) = slot - 1 - broken
    BY <1>2, <2>1 DEF Age
  <2> QED
    BY <1>1, <1>3, <2>2
<1>7. CASE slot \notin DOMAIN disk
  <2>1. disk' = disk
    BY <1>2, <1>3, <1>7, RenameMoves
  <2>2. \A s \in DOMAIN disk' : s \in Int \ {t}
    BY <1>1, <1>3, <2>1
  <2>3. \A s \in DOMAIN disk' \ {0} : Age(s)' <= Age(s)
    BY <1>1, <1>5, <2>2
  <2>4. Upcoming' >= Upcoming
    BY <1>1, <1>4
  <2> QED
    BY <1>4, <2>1, <2>3, <2>4, QuietKeeps
<1>8. CASE slot \in DOMAIN disk
  <2> DEFINE From(s) == IF s = t THEN slot ELSE s
  <2>1. /\ DOMAIN disk' = (DOMAIN disk \ {slot}) \cup {t}
        /\ disk'[t] = disk[slot]
        /\ \A u \in DOMAIN disk \ {slot, t} : disk'[u] = disk[u]
    BY <1>2, <1>3, <1>8 DEF Rename
  <2>2. /\ \A s \in DOMAIN disk' : From(s) \in DOMAIN disk /\ disk'[s] = disk[From(s)]
        /\ \A s \in DOMAIN disk' \ {0} : From(s) # 0 /\ Age(s)' = Age(From(s))
    <3>1. ASSUME NEW s \in DOMAIN disk', s # t
          PROVE  s \in DOMAIN disk \ {slot, t} /\ Age(s)' = Age(s)
      BY <1>1, <1>3, <1>5, <2>1, <3>1
    <3>2. ASSUME NEW s \in DOMAIN disk'
          PROVE  From(s) \in DOMAIN disk /\ disk'[s] = disk[From(s)]
      BY <1>8, <2>1, <3>1
    <3>3. ASSUME NEW s \in DOMAIN disk' \ {0}
          PROVE  From(s) # 0 /\ Age(s)' = Age(From(s))
      BY <1>3, <1>6, <3>1
    <3> QED
      BY <3>2, <3>3
  <2>3. ASSUME NEW r \in DOMAIN disk', NEW s \in DOMAIN disk', r > s
        PROVE  From(r) > From(s)
    <3>1. r \in Int /\ s \in Int /\ r # slot /\ s # slot
      BY <1>1, <1>3, <2>1
    <3>2. CASE r = t
      <4>1. From(r) = slot /\ From(s) = s /\ s < slot
        BY <1>1, <1>3, <2>3, <3>1, <3>2
      <4> QED
        BY <1>1, <3>1, <4>1
    <3>3. CASE s = t
      <4>1. From(r) = r /\ From(s) = slot /\ r > slot
        BY <1>1, <1>3, <2>3, <3>1, <3>3
      <4> QED
        BY <1>1, <3>1, <4>1
    <3> QED
      BY <2>3, <3>2, <3>3
  <2>4. Active' = Active /\ Later' = Later
    <3>1. 0 \in DOMAIN disk' <=> 0 \in DOMAIN disk
      BY <1>3, <2>1
    <3>2. 0 \in DOMAIN disk => disk'[0] = disk[0]
      BY <1>3, <2>1
    <3>3. Active' = Active
      BY <3>1, <3>2 DEF Active
    <3> QED
      BY <1>4, <3>3 DEF Later
  <2> HIDE DEF From
  <2>5. OrderInv'
    <3>1. \A s \in DOMAIN disk' :
            Spaced(disk'[s]) /\ Before(Range(disk'[s]), Range(buffer') \cup {Upcoming'})
      BY <1>1, <1>4, <2>2 DEF OrderInv
    <3>2. \A r, s \in DOMAIN disk' : r > s => Before(Range(disk'[r]), Range(disk'[s]))
      BY <1>1, <2>2, <2>3 DEF OrderInv
    <3>3. Spaced(buffer') /\ Before(Range(buffer'), {Upcoming'})
      BY <1>1, <1>4 DEF OrderInv
    <3> QED
      BY <3>1, <3>2, <3>3 DEF OrderInv
  <2>6. RotatedAreFull'
    BY <1>1, <2>2 DEF RotatedAreFull
  <2>7. AgeInv'
    BY <1>1, <2>2, <2>4 DEF AgeInv
  <2> QED
    BY <2>5, <2>6, <2>7
<1> QED
  BY <1>7, <1>8

\* The rotation of a full active log puts a file's worth of rows between the
\* older files and what is to come.
LEMMA FullBetween ==
  ASSUME LogInv, pc \in {"drop", "shift"}
  PROVE  \A s \in DOMAIN disk \ {0} : \A r \in Range(disk[s]) :
           row - r > (Age(s) + 1) * Limit
<1>1. /\ TypeOK /\ WriterInv /\ OrderInv /\ AgeInv
      /\ DOMAIN disk \subseteq Nat /\ row \in Nat
      /\ \A s \in DOMAIN disk : disk[s] \in Seq(Nat) /\ Range(disk[s]) \subseteq Nat
      /\ \A s \in Int : Age(s) \in Int
  BY TypedRows DEF LogInv
<1>2. 0 \in DOMAIN disk /\ Len(disk[0]) >= Limit
  BY <1>1 DEF WriterInv
<1>3. Spaced(disk[0]) /\ Before(Range(disk[0]), {row})
  BY <1>1, <1>2 DEF OrderInv, Upcoming, Before
<1>4. PICK a, b \in Range(disk[0]) : b >= a + Limit - 1
  BY <1>1, <1>2, <1>3, FullSpans
<1>5. a \in Nat /\ b \in Nat /\ b < row /\ a \in Later /\ Limit \in Nat
  BY <1>1, <1>2, <1>3, <1>4, LogAssumption DEF Before, Later, Active
<1> SUFFICES ASSUME NEW s \in DOMAIN disk \ {0}, NEW r \in Range(disk[s])
             PROVE  row - r > (Age(s) + 1) * Limit
  OBVIOUS
<1>6. a - r > Age(s) * Limit /\ r \in Nat /\ Age(s) \in Int
  BY <1>1, <1>5 DEF AgeInv
<1> DEFINE x == Age(s) * Limit
           y == (Age(s) + 1) * Limit
<1>7. x \in Int /\ y = x + Limit
  BY <1>6, FilesWorth
<1>8. a - r > x
  BY <1>6
<1> HIDE DEF x, y
<1>9. row - r > x + Limit
  BY <1>1, <1>4, <1>5, <1>6, <1>7, <1>8
<1>10. row - r > y
  BY <1>7, <1>9
<1> QED
  BY <1>10 DEF y

\* The active log becomes the youngest rotated file.
LEMMA ShiftActiveKeeps ==
  ASSUME LogInv, TypeOK', ShiftActive
  PROVE  OrderInv' /\ RotatedAreFull' /\ AgeInv'
<1>1. /\ TypeOK /\ WriterInv /\ OrderInv /\ RotatedAreFull /\ AgeInv
      /\ DOMAIN disk \subseteq Nat /\ slot \in Int /\ row \in Nat /\ broken \in Nat
      /\ \A s \in DOMAIN disk : disk[s] \in Seq(Nat) /\ Range(disk[s]) \subseteq Nat
      /\ \A s \in Int : Age(s) \in Int
  BY TypedRows DEF LogInv
<1>2. /\ pc = "shift" /\ slot < 1 /\ disk' = Rename(disk, 0, 1) /\ pc' = "reopen"
      /\ UNCHANGED <<open, buffer, slot, row, broken>>
  BY DEF ShiftActive, MoveActive, Goto, writer
<1>3. /\ 0 \in DOMAIN disk /\ Len(disk[0]) >= Limit /\ buffer = << >>
  BY <1>1, <1>2 DEF WriterInv
<1>4. /\ DOMAIN disk' = (DOMAIN disk \ {0}) \cup {1} /\ disk'[1] = disk[0]
      /\ \A s \in DOMAIN disk \ {0, 1} : disk'[s] = disk[s]
  BY <1>2, <1>3 DEF Rename
<1>5. /\ Upcoming = row /\ Upcoming' = row /\ Range(buffer) = {} /\ buffer' = buffer
  BY <1>2, <1>3, NoRows DEF Upcoming
<1>6. Active' = {} /\ Later' = {row}
  <2>1. 0 \notin DOMAIN disk'
    BY <1>4
  <2>2. Active' = {}
    BY <2>1 DEF Active
  <2> QED
    BY <1>5, <2>2 DEF Later
<1>7. ASSUME NEW s \in DOMAIN disk', s # 1
      PROVE  /\ s \in DOMAIN disk \ {0, 1} /\ disk'[s] = disk[s]
             /\ s \in Nat /\ s > 1 /\ Age(s)' = Age(s) + 1
  <2>1. s \in DOMAIN disk \ {0, 1} /\ disk'[s] = disk[s] /\ s \in Nat /\ s > 1
    <3>1. s \in DOMAIN disk \ {0, 1} /\ disk'[s] = disk[s]
      BY <1>4, <1>7
    <3> QED
      BY <1>1, <3>1
  <2>2. slot # -1
    <3>1. CASE Keep = 0
      BY <1>1, <2>1, <3>1 DEF TypeOK, Top
    <3>2. CASE Keep # 0
      BY <1>1, <1>2, <3>2 DEF WriterInv
    <3> QED
      BY <3>1, <3>2
  <2>3. slot = 0
    BY <1>1, <1>2, <2>2 DEF TypeOK
  <2>4. Moved(s) /\ ~Moved(s)'
    BY <1>2, <2>1, <2>3 DEF Moved
  <2>5. Age(s) = s - 2 - broken /\ Age(s)' = s - 1 - broken
    BY <1>2, <2>4 DEF Age
  <2> QED
    BY <1>1, <2>1, <2>5
<1>8. OrderInv'
  <2>1. Spaced(disk[0]) /\ Before(Range(disk[0]), {row})
    BY <1>1, <1>3, <1>5 DEF OrderInv
  <2>2. ASSUME NEW s \in DOMAIN disk'
        PROVE  Spaced(disk'[s]) /\ Before(Range(disk'[s]), Range(buffer') \cup {Upcoming'})
    <3>1. CASE s = 1
      BY <1>4, <1>5, <2>1, <3>1
    <3>2. CASE s # 1
      BY <1>1, <1>5, <1>7, <3>2 DEF OrderInv
    <3> QED
      BY <3>1, <3>2
  <2>3. ASSUME NEW s \in DOMAIN disk', NEW t \in DOMAIN disk', s > t
        PROVE  Before(Range(disk'[s]), Range(disk'[t]))
    <3>1. s # 1
      BY <1>4, <1>7, <2>3
    <3>2. s \in DOMAIN disk /\ disk'[s] = disk[s] /\ s > 1 /\ s \in Nat /\ s > 0
      BY <1>7, <3>1
    <3>3. CASE t = 1
      BY <1>1, <1>3, <1>4, <3>2, <3>3 DEF OrderInv
    <3>4. CASE t # 1
      BY <1>1, <1>7, <2>3, <3>2, <3>4 DEF OrderInv
    <3> QED
      BY <3>3, <3>4
  <2>4. Spaced(buffer') /\ Before(Range(buffer'), {Upcoming'})
    BY <1>1, <1>5 DEF OrderInv
  <2> QED
    BY <2>2, <2>3, <2>4 DEF OrderInv
<1>9. RotatedAreFull'
  BY <1>1, <1>3, <1>4, <1>7 DEF RotatedAreFull
<1>10. AgeInv'
  <2> SUFFICES ASSUME NEW s \in DOMAIN disk' \ {0}, NEW r \in Range(disk'[s])
               PROVE  row - r > Age(s)' * Limit
    BY <1>6 DEF AgeInv
  <2>1. CASE s = 1
    <3>1. r \in Nat /\ r < row
      BY <1>1, <1>3, <1>4, <1>5, <2>1 DEF OrderInv, Before
    <3>2. Age(s)' = 0 - broken
      BY <1>1, <1>2, <2>1 DEF Age, Moved
    <3>3. (0 - broken) * Limit <= 0 * Limit /\ 0 * Limit = 0 /\ (0 - broken) * Limit \in Int
      BY <1>1, FilesWorth, LogAssumption
    <3> QED
      BY <1>1, <3>1, <3>2, <3>3
  <2>2. CASE s # 1
    BY <1>2, <1>7, <2>2, FullBetween
  <2> QED
    BY <2>1, <2>2
<1> QED
  BY <1>8, <1>9, <1>10

\* Every step keeps the rows in order and the files apart.
LEMMA OrderKeeps ==
  ASSUME LogInv, TypeOK', Next
  PROVE  OrderInv' /\ RotatedAreFull' /\ AgeInv'
<1>1. /\ TypeOK /\ WriterInv /\ row \in Nat /\ Upcoming \in Nat
      /\ DOMAIN disk \subseteq 0..Top /\ Keep \in Nat /\ Top \in Nat
      /\ \A s \in Int : Age(s) \in Int
  BY TypedRows DEF LogInv, TypeOK
<1>2. \A s \in DOMAIN disk' : s \in Int
  BY TypedNext
\* Of the files a quiet step may take some and make an empty active one.
<1>3. ASSUME \/ disk' = disk
             \/ disk' = Create(disk)
             \/ \E s : disk' = Unlink(disk, s)
      PROVE  /\ DOMAIN disk' \ {0} \subseteq DOMAIN disk
             /\ \A s \in DOMAIN disk' : disk'[s] = IF s \in DOMAIN disk THEN disk[s] ELSE <<>>
  <2>1. CASE disk' = disk
    BY <2>1
  <2>2. CASE disk' = Create(disk)
    BY <2>2 DEF Create
  <2>3. ASSUME NEW s, disk' = Unlink(disk, s)
        PROVE  /\ DOMAIN disk' = DOMAIN disk \ {s}
               /\ \A t \in DOMAIN disk \ {s} : disk'[t] = disk[t]
    BY <2>3, UnlinkTakes
  <2> QED
    BY <1>3, <2>1, <2>2, <2>3
<1>4. ASSUME \/ disk' = disk
             \/ disk' = Create(disk)
             \/ \E s : disk' = Unlink(disk, s),
             buffer' \in {buffer, << >>}, Upcoming' >= Upcoming,
             \A s \in DOMAIN disk' : Age(s)' <= Age(s)
      PROVE  OrderInv' /\ RotatedAreFull' /\ AgeInv'
  BY <1>3, <1>4, QuietKeeps
<1>5. ASSUME \/ UNCHANGED <<pc, slot, broken>>
             \/ pc # "shift" /\ pc' # "shift" /\ UNCHANGED broken
             \/ pc' = "idle" /\ broken' = IF pc = "shift" THEN broken + 1 ELSE broken
      PROVE  \A s \in DOMAIN disk' : Age(s)' <= Age(s)
  <2> SUFFICES ASSUME NEW s \in DOMAIN disk' PROVE Age(s)' <= Age(s)
    OBVIOUS
  <2>1. s \in Int /\ Age(s) \in Int
    BY <1>1, <1>2
  <2> QED
    BY <1>1, <1>5, <2>1, AgeStays
<1>6. CASE Record
  <2>1. /\ disk' = disk /\ buffer' = buffer /\ broken' = broken /\ row' = row + 1
        /\ pc = "idle" /\ pc' \in {"idle", "open"}
    BY <1>6 DEF Record, Goto, writer
  <2>2. Upcoming' >= Upcoming
    BY <1>1, <2>1 DEF Upcoming
  <2> QED
    BY <1>4, <1>5, <2>1, <2>2
<1>7. CASE EnsureOpen \/ Reopen
  <2>1. /\ disk' = Create(disk) /\ buffer' = buffer /\ broken' = broken /\ row' = row
        /\ pc \in {"open", "reopen"} /\ pc' \in {"close", "write"}
    BY <1>7 DEF EnsureOpen, Reopen, Goto
  <2>2. Upcoming' >= Upcoming
    BY <1>1, <2>1, UpcomingStays
  <2> QED
    BY <1>4, <1>5, <2>1, <2>2
<1>8. CASE OpenFails \/ RotationFails \/ Kill
  <2>1. /\ disk' = disk /\ buffer' \in {buffer, << >>} /\ row' = row /\ pc' = "idle"
        /\ broken' = IF pc = "shift" THEN broken + 1 ELSE broken
    BY <1>8 DEF OpenFails, RotationFails, Kill, Goto, writer
  <2>2. Upcoming' >= Upcoming
    BY <1>1, <2>1, UpcomingStays
  <2> QED
    BY <1>4, <1>5, <2>1, <2>2
<1>9. CASE DropOldest
  <2>1. /\ disk' = (IF Keep = 0 THEN disk ELSE Unlink(disk, Keep))
        /\ buffer' = buffer /\ broken' = broken /\ row' = row
        /\ pc = "drop" /\ pc' = "shift" /\ slot' = Keep - 1
    BY <1>9 DEF DropOldest, Goto, writer
  <2>2. Upcoming' >= Upcoming
    BY <1>1, <2>1, UpcomingStays
  <2>3. ASSUME NEW s \in DOMAIN disk' PROVE Age(s)' <= Age(s)
    <3>1. s \in 0..Top
      BY DEF TypeOK
    <3>2. ~(0 <= Keep - 1 /\ (Keep - 1) + 1 < s)
      BY <1>1, <3>1 DEF Top
    <3>3. Age(s)' = Age(s)
      BY <2>1, <3>2 DEF Age, Moved
    <3> QED
      BY <1>1, <3>1, <3>3
  <2> QED
    BY <1>4, <2>1, <2>2, <2>3
<1>10. CASE NewWriter \/ PurgeStart \/ PurgeStat \/ PurgeUnlinkFails
  <2>1. UNCHANGED <<disk, buffer, pc, slot, row, broken>>
    BY <1>10 DEF NewWriter, PurgeStart, PurgeStat, PurgeUnlinkFails, writer
  <2>2. Upcoming' >= Upcoming
    BY <1>1, <2>1, UpcomingStays
  <2> QED
    BY <1>4, <1>5, <2>1, <2>2
<1>11. CASE PurgeUnlink
  <2>1. disk' = Unlink(disk, doomed) /\ UNCHANGED <<buffer, pc, slot, row, broken>>
    BY <1>11 DEF PurgeUnlink, writer
  <2>2. Upcoming' >= Upcoming
    BY <1>1, <2>1, UpcomingStays
  <2> QED
    BY <1>4, <1>5, <2>1, <2>2
<1> QED
  BY <1>6, <1>7, <1>8, <1>9, <1>10, <1>11, WritesKeep, ShiftKeeps, ShiftActiveKeeps
     DEF Next, RecordStep, PurgeStep

\* Rows are written behind what is there, and leave the disk with the oldest
\* file of a rotation or with the file the purge takes.
LEMMA RowsStay ==
  ASSUME LogInv, Next, NEW s \in DOMAIN disk
  PROVE  \/ Range(disk[s]) \subseteq OnDisk'
         \/ DropOldest /\ s = Top /\ Keep # 0
         \/ ShiftActive /\ s = Top /\ Keep = 0
         \/ PurgeUnlink /\ s = doomed
<1>1. /\ TypeOK /\ WriterInv /\ OrderInv
      /\ DOMAIN disk \subseteq Nat /\ slot \in Int /\ row \in Nat /\ Keep \in Nat
      /\ s \in Nat /\ disk[s] \in Seq(Nat) /\ buffer \in Seq(Nat)
  BY TypedRows DEF LogInv
<1>2. ASSUME NEW t \in DOMAIN disk', Range(disk[s]) \subseteq Range(disk'[t])
      PROVE  Range(disk[s]) \subseteq OnDisk'
  BY <1>2 DEF OnDisk
<1>3. ASSUME s \in DOMAIN disk', disk'[s] = disk[s]
      PROVE  Range(disk[s]) \subseteq OnDisk'
  BY <1>2, <1>3
<1>4. CASE disk' = disk
  BY <1>3, <1>4
<1>5. CASE EnsureOpen \/ Reopen
  <2>1. disk' = Create(disk)
    BY <1>5 DEF EnsureOpen, Reopen
  <2>2. s \in DOMAIN disk' /\ disk'[s] = disk[s]
    BY <2>1, CreateAdds
  <2> QED
    BY <1>3, <2>2
<1>6. CASE Write
  <2>1. 0 \in DOMAIN disk /\ Upcoming = row /\ disk' = [disk EXCEPT ![0] = Append(disk[0] \o buffer, row)]
    BY <1>1, <1>6 DEF Write, WriterInv, Upcoming
  <2> DEFINE f == disk[0] \o buffer
             g == Append(f, row)
  <2>2. f \in Seq(Nat) /\ Spaced(f) /\ Before(Range(f), {row}) /\ Range(f) = Active \cup Range(buffer)
    BY <2>1, FlushRows
  <2>3. disk'[0] = g /\ DOMAIN disk' = DOMAIN disk /\ \A t \in DOMAIN disk \ {0} : disk'[t] = disk[t]
    BY <2>1
  <2> HIDE DEF f
  <2>4. Range(g) = Range(f) \cup {row}
    BY <1>1, <2>2, AppendRow
  <2> HIDE DEF g
  <2>5. Range(disk[0]) \subseteq Range(disk'[0])
    BY <2>1, <2>2, <2>3, <2>4 DEF Active
  <2> QED
    BY <1>2, <1>3, <2>1, <2>3, <2>5
<1>7. CASE CloseFile
  <2>1. CASE open /\ disk' = [disk EXCEPT ![0] = disk[0] \o buffer]
    <3> DEFINE f == disk[0] \o buffer
    <3>1. 0 \in DOMAIN disk
      BY <1>1, <2>1 DEF WriterInv
    <3>2. Range(f) = Active \cup Range(buffer)
      BY <3>1, FlushRows
    <3>3. disk'[0] = f /\ DOMAIN disk' = DOMAIN disk /\ \A t \in DOMAIN disk \ {0} : disk'[t] = disk[t]
      BY <2>1, <3>1
    <3> HIDE DEF f
    <3>4. Range(disk[0]) \subseteq Range(disk'[0])
      BY <3>1, <3>2, <3>3 DEF Active
    <3> QED
      BY <1>2, <1>3, <3>1, <3>3, <3>4
  <2> QED
    BY <1>4, <1>7, <2>1 DEF CloseFile
<1>8. CASE DropOldest
  <2>1. CASE Keep = 0
    BY <1>4, <1>8, <2>1 DEF DropOldest
  <2>2. CASE Keep # 0 /\ s # Top
    <3>1. disk' = Unlink(disk, Keep) /\ s # Keep
      BY <1>8, <2>2 DEF DropOldest, Top
    <3>2. s \in DOMAIN disk' /\ disk'[s] = disk[s]
      BY <3>1, UnlinkTakes
    <3> QED
      BY <1>3, <3>2
  <2> QED
    BY <1>8, <2>1, <2>2
<1>9. CASE Shift
  <2>1. PICK t : t = slot + 1
    OBVIOUS
  <2>2. disk' = Rename(disk, slot, t) /\ slot # t /\ t \notin DOMAIN disk
    BY <1>1, <1>9, <2>1 DEF Shift, WriterInv
  <2>3. CASE slot \notin DOMAIN disk
    BY <1>4, <2>2, <2>3, RenameMoves
  <2>4. CASE slot \in DOMAIN disk
    <3>1. /\ DOMAIN disk' = (DOMAIN disk \ {slot}) \cup {t}
          /\ disk'[t] = disk[slot]
          /\ \A u \in DOMAIN disk \ {slot, t} : disk'[u] = disk[u]
      BY <2>2, <2>4 DEF Rename
    <3>2. CASE s = slot
      BY <1>2, <3>1, <3>2
    <3>3. CASE s # slot
      BY <1>3, <2>2, <3>1, <3>3
    <3> QED
      BY <3>2, <3>3
  <2> QED
    BY <2>3, <2>4
<1>10. CASE ShiftActive
  <2>1. /\ pc = "shift" /\ slot < 1 /\ disk' = Rename(disk, 0, 1) /\ 0 \in DOMAIN disk
    BY <1>1, <1>10 DEF ShiftActive, MoveActive, WriterInv
  <2>2. /\ DOMAIN disk' = (DOMAIN disk \ {0}) \cup {1} /\ disk'[1] = disk[0]
        /\ \A u \in DOMAIN disk \ {0, 1} : disk'[u] = disk[u]
    BY <2>1 DEF Rename
  <2>3. CASE s = 0
    BY <1>2, <2>2, <2>3
  <2>4. CASE s = 1
    <3>1. slot = -1 => Keep = 0
      BY <1>1, <2>1 DEF WriterInv
    <3>2. slot # -1 => slot + 1 # 1
      BY <1>1, <2>1, <2>4 DEF WriterInv
    <3>3. slot \in {-1, 0}
      BY <1>1, <2>1 DEF TypeOK
    <3> QED
      BY <1>10, <2>4, <3>1, <3>2, <3>3 DEF Top
  <2>5. CASE s \notin {0, 1}
    BY <1>3, <2>2, <2>5
  <2> QED
    BY <2>3, <2>4, <2>5
<1>11. CASE PurgeUnlink
  <2>1. CASE s # doomed
    <3>1. s \in DOMAIN disk' /\ disk'[s] = disk[s]
      BY <1>11, <2>1, UnlinkTakes DEF PurgeUnlink
    <3> QED
      BY <1>3, <3>1
  <2> QED
    BY <1>11, <2>1
<1> QED
  BY <1>4, <1>5, <1>6, <1>7, <1>8, <1>9, <1>10, <1>11
     DEF Next, RecordStep, PurgeStep, Record, OpenFails, WriteFails, CloseActive, RotationFails,
         Close, NewWriter, Kill, PurgeStart, PurgeStat, PurgeUnlinkFails

\* What a rotation drops is older than all the files it keeps are long.
LEMMA OldestIsOld ==
  ASSUME LogInv, Top \in DOMAIN disk,
         (DropOldest /\ Keep # 0) \/ (ShiftActive /\ Keep = 0)
  PROVE  \A r \in Range(disk[Top]) : row - r > (Top - broken) * Limit
<1>1. /\ Top \in Nat \ {0} /\ broken \in Nat /\ slot \in Int /\ Keep \in Nat
      /\ TypeOK /\ WriterInv
  BY TypedRows DEF LogInv
<1>2. pc \in {"drop", "shift"} /\ (pc = "shift" => slot < 1 /\ Keep = 0)
  BY DEF DropOldest, ShiftActive
<1>3. ~Moved(Top)
  BY <1>1, <1>2 DEF Moved, Top
<1>4. Age(Top) + 1 = Top - broken
  <2>1. Age(Top) = Top - 1 - broken
    BY <1>3 DEF Age
  <2> QED
    BY <1>1, <2>1
<1> QED
  BY <1>1, <1>2, <1>4, FullBetween

\* Rows that were reported stay, or have been purged, or are old enough.
LEMMA RecentKeeps ==
  ASSUME LogInv, TypeOK', Next
  PROVE  RecentRowsKept'
<1>1. TypeOK /\ WriterInv /\ RecentRowsKept /\ row \in Nat /\ broken \in Nat /\ Top \in Nat
  BY TypedRows DEF LogInv
<1>2. row' \in Nat /\ broken' \in Nat
  BY TypedNext
<1>3. row' >= row /\ broken' >= broken
  BY <1>1 DEF Next, RecordStep, PurgeStep, Record, EnsureOpen, OpenFails, Write, WriteFails,
      CloseActive, DropOldest, Shift, ShiftActive, RotationFails, Reopen, Close, NewWriter, Kill,
      PurgeStart, PurgeStat, PurgeUnlink, PurgeUnlinkFails
<1>4. purged \subseteq purged'
  BY DEF Next, RecordStep, PurgeStep, Record, EnsureOpen, OpenFails, Write, WriteFails,
      CloseActive, DropOldest, Shift, ShiftActive, RotationFails, Reopen, Close, NewWriter, Kill,
      PurgeStart, PurgeStat, PurgeUnlink, PurgeUnlinkFails, purge
<1>5. reported' \subseteq reported \cup OnDisk'
  <2>1. CASE Write
    <3>1. 0 \in DOMAIN disk /\ Upcoming = row
      BY <1>1, <2>1 DEF Write, WriterInv, Upcoming
    <3> DEFINE f == disk[0] \o buffer
    <3>2. f \in Seq(Nat) /\ Spaced(f) /\ Before(Range(f), {row})
      BY <3>1, FlushRows
    <3>3. disk' = [disk EXCEPT ![0] = Append(f, row)] /\ reported' = reported \cup {row}
      BY <2>1 DEF Write
    <3> HIDE DEF f
    <3>4. row \in Range(Append(f, row))
      BY <1>1, <3>2, AppendRow
    <3>5. 0 \in DOMAIN disk' /\ disk'[0] = Append(f, row)
      BY <3>1, <3>3
    <3>6. row \in OnDisk'
      BY <3>4, <3>5 DEF OnDisk
    <3> QED
      BY <3>3, <3>6
  <2>2. CASE ~Write
    <3>1. UNCHANGED reported
      BY <2>2 DEF Next, RecordStep, PurgeStep, Record, EnsureOpen, OpenFails, WriteFails,
          CloseActive, DropOldest, Shift, ShiftActive, RotationFails, Reopen, Close, NewWriter, Kill,
          PurgeStart, PurgeStat, PurgeUnlink, PurgeUnlinkFails
    <3> QED
      BY <3>1
  <2> QED
    BY <2>1, <2>2
<1>6. ASSUME NEW r \in OnDisk
      PROVE  r \in OnDisk' \cup purged' \/ row - r > (Top - broken) * Limit
  <2>1. PICK s \in DOMAIN disk : r \in Range(disk[s])
    BY DEF OnDisk
  <2>2. CASE s = Top /\ ((DropOldest /\ Keep # 0) \/ (ShiftActive /\ Keep = 0))
    BY <2>1, <2>2, OldestIsOld
  <2>3. CASE PurgeUnlink /\ s = doomed
    <3>1. purged' = purged \cup Range(disk[s])
      BY <2>3 DEF PurgeUnlink
    <3> QED
      BY <2>1, <3>1
  <2>4. CASE Range(disk[s]) \subseteq OnDisk'
    BY <2>1, <2>4
  <2>5. \/ Range(disk[s]) \subseteq OnDisk'
        \/ DropOldest /\ s = Top /\ Keep # 0
        \/ ShiftActive /\ s = Top /\ Keep = 0
        \/ PurgeUnlink /\ s = doomed
    BY RowsStay
  <2> QED
    BY <2>2, <2>3, <2>4, <2>5
<1> SUFFICES ASSUME NEW r \in reported', r \notin OnDisk' \cup purged'
             PROVE  row' - r > (Top - broken') * Limit
  BY DEF RecentRowsKept, Top
<1>7. r \in reported /\ r \in Nat
  BY <1>1, <1>5 DEF TypeOK
<1>8. row - r > (Top - broken) * Limit
  BY <1>1, <1>4, <1>6, <1>7 DEF RecentRowsKept
<1>9. /\ (Top - broken') * Limit <= (Top - broken) * Limit
      /\ (Top - broken') * Limit \in Int /\ (Top - broken) * Limit \in Int
  BY <1>1, <1>2, <1>3, FilesWorth
<1> QED
  BY <1>1, <1>2, <1>3, <1>7, <1>8, <1>9

---------------------------------------------------------------------------
(***************************************************************************)
(* The theorems.                                                           *)
(***************************************************************************)

\* The log starts with no file and no row.
LEMMA InitLogInv == Init => LogInv
<1> SUFFICES ASSUME Init PROVE LogInv
  OBVIOUS
<1>1. DOMAIN disk = {} /\ reported = {} /\ buffer = << >> /\ pc = "idle" /\ ~open
  BY DEF Init
<1>2. Spaced(<<>>) /\ Range(<<>>) = {} /\ << >> \in Seq(1..row)
  BY NoRows, EmptySeq
<1>3. TypeOK
  <2>1. Top \in Nat /\ MaxRows \in Nat /\ MaxFaults \in Nat
    BY LogAssumption DEF Top
  <2>2. /\ slot = 0 /\ row = 0 /\ broken = 0 /\ faults = 0 /\ cutoff = 0 /\ doomed = 0
        /\ todo = {} /\ purged = {} /\ open = FALSE /\ closed = FALSE
    BY DEF Init
  <2>3. pc \in Pcs
    BY <1>1 DEF Pcs
  <2>4. /\ slot \in (-1)..Top /\ row \in 0..MaxRows /\ cutoff \in 0..row /\ doomed \in 0..Top
        /\ faults \in 0..MaxFaults /\ broken \in 0..faults
    BY <2>1, <2>2
  <2> QED
    BY <1>1, <1>2, <2>2, <2>3, <2>4 DEF TypeOK
<1>4. WriterInv
  BY <1>1 DEF WriterInv
<1>5. OrderInv
  BY <1>1, <1>2 DEF OrderInv, Before
<1>6. RotatedAreFull /\ AgeInv /\ RecentRowsKept
  BY <1>1 DEF RotatedAreFull, AgeInv, RecentRowsKept
<1> QED
  BY <1>3, <1>4, <1>5, <1>6 DEF LogInv

\* A step that changes nothing keeps the invariant.
LEMMA StutterKeepsLog == LogInv /\ UNCHANGED vars => LogInv'
<1> SUFFICES ASSUME LogInv, UNCHANGED vars PROVE LogInv'
  OBVIOUS
<1> USE DEF vars, writer, purge
<1>1. TypeOK' = TypeOK
  BY DEF TypeOK
<1>2. WriterInv' = WriterInv
  BY DEF WriterInv
<1>3. Upcoming' = Upcoming /\ Active' = Active
  BY DEF Upcoming, Active
<1>4. OrderInv' = OrderInv
  BY <1>3 DEF OrderInv
<1>5. Later' = Later /\ \A s : Age(s)' = Age(s)
  BY <1>3 DEF Later, Age, Moved
<1>6. AgeInv' = AgeInv
  BY <1>5 DEF AgeInv
<1>7. RotatedAreFull' = RotatedAreFull /\ RecentRowsKept' = RecentRowsKept
  BY DEF RotatedAreFull, RecentRowsKept, OnDisk
<1> QED
  BY <1>1, <1>2, <1>4, <1>6, <1>7 DEF LogInv

\* The inductive invariant holds throughout: whatever fails, wherever the
\* process is killed and whenever the purge looks, AuditWriter of src/audit.py
\* keeps its files apart by as many rows as their slots say.
THEOREM LogAlways == Spec => []LogInv
<1>1. LogInv /\ [Next]_vars => LogInv'
  <2> SUFFICES ASSUME LogInv, [Next]_vars PROVE LogInv'
    OBVIOUS
  <2>1. CASE Next
    BY <2>1, TypeKeeps, WriterKeeps, OrderKeeps, RecentKeeps DEF LogInv
  <2>2. CASE UNCHANGED vars
    BY <2>2, StutterKeepsLog
  <2> QED
    BY <2>1, <2>2
<1> QED
  BY <1>1, InitLogInv, PTL DEF Spec

\* Slots, rows and counters stay in their ranges; in particular no rotation of
\* AuditWriter._rotate_locked makes a file beyond the last slot.
THEOREM LogTypeCorrect == Spec => []TypeOK
BY LogAlways, PTL DEF LogInv

\* record() and the rotations of AuditWriter keep the rows in the order of the
\* calls, across files, failures and restarts, and write none twice.
THEOREM RowsStayInOrder == Spec => []RowsInOrder
<1>1. LogInv => RowsInOrder
  <2> SUFFICES ASSUME LogInv,
                      NEW s \in DOMAIN disk, NEW t \in DOMAIN disk,
                      NEW i \in DOMAIN disk[s], NEW j \in DOMAIN disk[t],
                      s > t \/ (s = t /\ i < j)
               PROVE  disk[s][i] < disk[t][j]
    BY DEF RowsInOrder
  <2>1. disk[s] \in Seq(Nat) /\ disk[t] \in Seq(Nat) /\ Spaced(disk[s])
    BY TypedRows DEF LogInv, OrderInv
  <2>2. /\ i \in Nat /\ disk[s][i] \in Nat /\ disk[s][i] \in Range(disk[s])
        /\ j \in Nat /\ disk[t][j] \in Nat /\ disk[t][j] \in Range(disk[t])
    BY <2>1, RowsOf
  <2>3. CASE s > t
    BY <2>2, <2>3 DEF LogInv, OrderInv, Before
  <2>4. CASE s = t /\ i < j
    <3>1. disk[s][j] - disk[s][i] >= j - i
      BY <2>1, <2>4 DEF Spaced
    <3> QED
      BY <2>2, <2>4, <3>1
  <2> QED
    BY <2>3, <2>4
<1> QED
  BY <1>1, LogAlways, PTL

\* AuditWriter._rotate_locked spends a slot on a full file only, also after a
\* rotation that broke off.
THEOREM RotationsAreFull == Spec => []RotatedAreFull
BY LogAlways, PTL DEF LogInv

\* A row that AuditWriter.record reported stays readable for as long as the
\* slots promise, less one file for each rotation that broke off in its shift.
THEOREM RecentRowsStay == Spec => []RecentRowsKept
BY LogAlways, PTL DEF LogInv

\* No step of record(), of a rotation, of a restart or of the purge takes rows
\* off the disk but with the oldest file or the one the purge unlinks.
THEOREM RowsLeaveWithTheirFile == Spec => RowsLeaveByAge
<1> DEFINE Leave == \A s \in DOMAIN disk :
              \/ Range(disk[s]) \subseteq OnDisk'
              \/ s = Top
              \/ s = doomed /\ doomed' = 0
<1>1. LogInv /\ [Next]_vars => [Leave]_vars
  <2> SUFFICES ASSUME LogInv, Next, NEW s \in DOMAIN disk
               PROVE  Range(disk[s]) \subseteq OnDisk' \/ s = Top \/ (s = doomed /\ doomed' = 0)
    OBVIOUS
  <2> QED
    BY RowsStay DEF PurgeUnlink
<1> QED
  BY <1>1, LogAlways, PTL DEF Spec, RowsLeaveByAge
=============================================================================

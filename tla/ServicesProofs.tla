--------------------------- MODULE ServicesProofs ---------------------------
(***************************************************************************)
(* The two choices of a research request: what the loops of appendRowsN    *)
(* and add return, for every list and every bound, and from it what a plan *)
(* has and what a selection keeps.  Then the services beside each other:   *)
(* the composition behaves as each of them does by itself, so that what is *)
(* proved of one holds in the composition, for every value of the          *)
(* constants.                                                              *)
(***************************************************************************)
EXTENDS MCServices, AccountsProofs, ServingProofs, SequenceTheorems

-----------------------------------------------------------------------------
(* Loops over a list.                                                       *)

\* What holds before the first turn, and after each turn if it held before
\* it, holds after all of them.
LEMMA EveryTurn ==
  ASSUME NEW N \in Nat, NEW Good, 0 \in Good,
         \A n \in 0..N : n < N /\ n \in Good => n + 1 \in Good
  PROVE  \A n \in 0..N : n \in Good
<1> DEFINE Bad == {n \in Nat : n <= N /\ n \notin Good}
<1>1. SUFFICES ASSUME Bad # {} PROVE FALSE
  OBVIOUS
<1>2. PICK m \in Bad : \A k \in Bad : m <= k
  <2>1. Bad \in SUBSET Nat
    OBVIOUS
  <2> QED
    BY <1>1, <2>1, LeastNat
<1>3. m # 0
  OBVIOUS
<1>4. m - 1 \in 0..N /\ m - 1 < N /\ m - 1 \notin Bad
  BY <1>2, <1>3
<1>5. m - 1 \in Good
  BY <1>4
<1>6. (m - 1) + 1 \in Good
  BY <1>4, <1>5
<1> QED
  BY <1>6

\* The values a loop has after each of its turns.
Turns(N, first, turn, f) == f = [n \in 0..N |-> IF n = 0 THEN first ELSE turn[n][f[n - 1]]]

\* There are such values, whatever a turn does.
LEMMA LoopRuns ==
  ASSUME NEW N \in Nat, NEW S, NEW first \in S, NEW turn \in [1..N -> [S -> S]]
  PROVE  \E f \in [0..N -> S] : Turns(N, first, turn, f)
<1> DEFINE Good == {n \in 0..N : \E f \in [0..n -> S] : Turns(n, first, turn, f)}
<1>1. 0 \in Good
  <2>1. [n \in 0..0 |-> first] \in [0..0 -> S] /\ Turns(0, first, turn, [n \in 0..0 |-> first])
    BY DEF Turns
  <2> QED
    BY <2>1
<1>2. ASSUME NEW n \in 0..N, n < N, n \in Good PROVE n + 1 \in Good
  <2>1. PICK f \in [0..n -> S] : Turns(n, first, turn, f)
    BY <1>2
  <2> DEFINE g == [k \in 0..(n + 1) |-> IF k = n + 1 THEN turn[n + 1][f[n]] ELSE f[k]]
  <2>2. f[n] \in S /\ turn[n + 1][f[n]] \in S
    BY <1>2
  <2>3. g \in [0..(n + 1) -> S]
    BY <2>2
  <2>4. \A k \in 0..n : g[k] = f[k]
    OBVIOUS
  <2>5. \A k \in 0..(n + 1) : g[k] = IF k = 0 THEN first ELSE turn[k][g[k - 1]]
    <3> SUFFICES ASSUME NEW k \in 0..(n + 1) PROVE g[k] = IF k = 0 THEN first ELSE turn[k][g[k - 1]]
      OBVIOUS
    <3>1. CASE k = n + 1
      BY <3>1, <2>4
    <3>2. CASE k \in 0..n
      <4>1. f[k] = IF k = 0 THEN first ELSE turn[k][f[k - 1]]
        BY <2>1, <3>2 DEF Turns
      <4>2. k # 0 => g[k - 1] = f[k - 1]
        BY <2>4, <3>2
      <4> QED
        BY <2>4, <3>2, <4>1, <4>2
    <3> QED
      BY <3>1, <3>2
  <2>6. Turns(n + 1, first, turn, g)
    <3> HIDE DEF g
    <3> QED
      BY <2>3, <2>5 DEF Turns
  <2> QED
    BY <1>2, <2>3, <2>6
<1>3. \A n \in 0..N : n \in Good
  <2> HIDE DEF Good
  <2> QED
    BY <1>1, <1>2, EveryTurn
<1> QED
  BY <1>3


-----------------------------------------------------------------------------
(* appendRowsN.                                                             *)

Has(list, x) == \E i \in 1..Len(list) : list[i] = x

NoneTwice(list) == \A i, j \in 1..Len(list) : i # j => list[i] # list[j]

StartsWith(list, first) ==
  Len(first) <= Len(list) /\ \A i \in 1..Len(first) : list[i] = first[i]

\* A list that starts with another has what the other has.
LEMMA StartHas ==
  ASSUME NEW E, NEW first \in Seq(E), NEW list \in Seq(E), StartsWith(list, first), NEW x, Has(first, x)
  PROVE  Has(list, x)
BY DEF StartsWith, Has

\* To start with is transitive.
LEMMA StartsTransitive ==
  ASSUME NEW E, NEW a \in Seq(E), NEW b \in Seq(E), NEW c \in Seq(E),
         StartsWith(b, a), StartsWith(c, b)
  PROVE  StartsWith(c, a)
BY DEF StartsWith

\* A turn of the loop leaves the list or appends the row, if the list is not
\* full and does not have it.
LEMMA OneRow ==
  ASSUME NEW E, NEW list \in Seq(E), NEW row \in E, NEW atMost \in Nat, NEW after,
         after = AppendRow(list, row, atMost)
  PROVE  /\ after \in Seq(E)
         /\ \/ after = list /\ (Len(list) >= atMost \/ Has(list, row))
            \/ /\ Len(list) < atMost /\ ~Has(list, row)
               /\ Len(after) = Len(list) + 1 /\ after[Len(after)] = row
               /\ \A i \in 1..Len(list) : after[i] = list[i]
<1>1. CASE Len(list) >= atMost \/ Has(list, row)
  BY <1>1 DEF AppendRow, Has
<1>2. CASE ~(Len(list) >= atMost \/ Has(list, row))
  <2>1. after = Append(list, row)
    BY <1>2 DEF AppendRow, Has
  <2>2. Len(list) \in Nat /\ Len(list) < atMost
    BY <1>2
  <2> QED
    BY <1>2, <2>1, <2>2, AppendProperties
<1> QED
  BY <1>1, <1>2

\* The turn keeps what the list had, adds the row at most, and leaves it out
\* only of a full list.
LEMMA OneRowKeeps ==
  ASSUME NEW E, NEW list \in Seq(E), NEW row \in E, NEW atMost \in Nat, NEW after,
         after = AppendRow(list, row, atMost)
  PROVE  /\ after \in Seq(E)
         /\ StartsWith(after, list)
         /\ NoneTwice(list) => NoneTwice(after)
         /\ Len(list) <= atMost => Len(after) <= atMost
         /\ Len(after) <= Len(list) + 1
         /\ \A x : Has(after, x) => Has(list, x) \/ x = row
         /\ Has(after, row) \/ (Len(list) >= atMost /\ after = list)
<1>1. after \in Seq(E)
  BY OneRow
<1>2. CASE after = list /\ (Len(list) >= atMost \/ Has(list, row))
  BY <1>1, <1>2 DEF StartsWith
<1>3. CASE /\ Len(list) < atMost /\ ~Has(list, row)
           /\ Len(after) = Len(list) + 1 /\ after[Len(after)] = row
           /\ \A i \in 1..Len(list) : after[i] = list[i]
  <2>1. StartsWith(after, list)
    BY <1>1, <1>3 DEF StartsWith
  <2>2. NoneTwice(list) => NoneTwice(after)
    <3> SUFFICES ASSUME NoneTwice(list), NEW i \in 1..Len(after), NEW j \in 1..Len(after), i # j
                 PROVE  after[i] # after[j]
      BY DEF NoneTwice
    <3>1. CASE i \in 1..Len(list) /\ j \in 1..Len(list)
      BY <1>3, <3>1 DEF NoneTwice
    <3>2. CASE i = Len(after) /\ j \in 1..Len(list)
      BY <1>3, <3>2 DEF Has
    <3>3. CASE j = Len(after) /\ i \in 1..Len(list)
      BY <1>3, <3>3 DEF Has
    <3> QED
      BY <1>1, <1>3, <3>1, <3>2, <3>3
  <2>3. \A x : Has(after, x) => Has(list, x) \/ x = row
    <3> SUFFICES ASSUME NEW i \in 1..Len(after) PROVE Has(list, after[i]) \/ after[i] = row
      BY DEF Has
    <3>1. i \in 1..Len(list) \/ i = Len(after)
      BY <1>1, <1>3
    <3> QED
      BY <1>3, <3>1 DEF Has
  <2>4. Has(after, row)
    BY <1>1, <1>3 DEF Has
  <2> QED
    BY <1>1, <1>3, <2>1, <2>2, <2>3, <2>4
<1> QED
  BY <1>2, <1>3, OneRow

\* The list after each turn of appendRowsN.
Kept(list, more, atMost, seqs) ==
  seqs = [n \in 0..Len(more) |-> IF n = 0 THEN list ELSE AppendRow(seqs[n - 1], more[n], atMost)]

AtMost(list, maxAdd, limit) == IF maxAdd > 0 THEN Min({limit, Len(list) + maxAdd}) ELSE limit

\* The bound is the limit or the number of sources with the rows to add.
LEMMA AtMostIs ==
  ASSUME NEW E, NEW list \in Seq(E), NEW maxAdd \in Nat, NEW limit \in Nat, NEW atMost,
         atMost = AtMost(list, maxAdd, limit)
  PROVE  /\ atMost \in Nat /\ atMost <= limit
         /\ maxAdd > 0 => atMost <= Len(list) + maxAdd
         /\ atMost = limit \/ (maxAdd > 0 /\ atMost = Len(list) + maxAdd)
<1>1. Len(list) \in Nat
  OBVIOUS
<1>2. CASE maxAdd = 0
  BY <1>2 DEF AtMost
<1>3. CASE maxAdd > 0
  <2> DEFINE T == {limit, Len(list) + maxAdd}
  <2>1. atMost = CHOOSE x \in T : \A y \in T : x <= y
    BY <1>3 DEF AtMost, Min
  <2>2. \E x \in T : \A y \in T : x <= y
    BY <1>1
  <2>3. atMost \in T /\ \A y \in T : atMost <= y
    BY <2>1, <2>2
  <2> QED
    BY <1>1, <1>3, <2>3
<1> QED
  BY <1>2, <1>3

\* The loop runs, and the list it ends with is that of its last turn.
Runs(E, list, more, maxAdd, limit) ==
  \E seqs \in [0..Len(more) -> Seq(E)] :
    /\ Kept(list, more, AtMost(list, maxAdd, limit), seqs)
    /\ AppendRowsN(list, more, maxAdd, limit) = seqs[Len(more)]

\* It does, for all sources, rows and bounds.
LEMMA KeptRuns ==
  ASSUME NEW E, NEW list \in Seq(E), NEW more \in Seq(E), NEW maxAdd \in Nat, NEW limit \in Nat
  PROVE  Runs(E, list, more, maxAdd, limit)
<1> DEFINE atMost == AtMost(list, maxAdd, limit)
           turn == [n \in 1..Len(more) |-> [s \in Seq(E) |-> AppendRow(s, more[n], atMost)]]
           run == CHOOSE f : Kept(list, more, atMost, f)
<1>1. AppendRowsN(list, more, maxAdd, limit) = run[Len(more)]
  BY DEF AppendRowsN, Kept, AtMost
<1>2. Len(more) \in Nat /\ \A n \in 1..Len(more) : more[n] \in E
  OBVIOUS
<1>3. atMost \in Nat
  BY AtMostIs
<1> HIDE DEF atMost
<1>4. turn \in [1..Len(more) -> [Seq(E) -> Seq(E)]]
  BY <1>2, <1>3, OneRow
<1>5. PICK f \in [0..Len(more) -> Seq(E)] : Turns(Len(more), list, turn, f)
  <2> HIDE DEF turn
  <2> QED
    BY <1>2, <1>4, LoopRuns
<1>6. Kept(list, more, atMost, f)
  <2>1. \A n \in 1..Len(more) : turn[n][f[n - 1]] = AppendRow(f[n - 1], more[n], atMost)
    OBVIOUS
  <2> HIDE DEF turn
  <2>2. \A n \in 0..Len(more) : f[n] = IF n = 0 THEN list ELSE turn[n][f[n - 1]]
    BY <1>5 DEF Turns
  <2>3. \A n \in 0..Len(more) : f[n] = IF n = 0 THEN list ELSE AppendRow(f[n - 1], more[n], atMost)
    <3> SUFFICES ASSUME NEW n \in 0..Len(more)
                 PROVE  f[n] = IF n = 0 THEN list ELSE AppendRow(f[n - 1], more[n], atMost)
      OBVIOUS
    <3>1. CASE n = 0
      BY <2>2, <3>1
    <3>2. CASE n \in 1..Len(more)
      <4>1. n # 0
        BY <3>2
      <4>2. f[n] = turn[n][f[n - 1]]
        BY <2>2, <4>1
      <4> QED
        BY <2>1, <3>2, <4>1, <4>2
    <3> QED
      BY <1>2, <3>1, <3>2
  <2> QED
    BY <2>3 DEF Kept
<1>7. Kept(list, more, atMost, run)
  BY <1>6
<1> HIDE DEF run, turn
<1>8. \A n \in 0..Len(more) : run[n] = f[n]
  <2> DEFINE Good == {n \in 0..Len(more) : run[n] = f[n]}
  <2>1. 0 \in Good
    BY <1>2, <1>6, <1>7 DEF Kept
  <2>2. \A n \in 0..Len(more) : n < Len(more) /\ n \in Good => n + 1 \in Good
    BY <1>2, <1>6, <1>7 DEF Kept
  <2>3. \A n \in 0..Len(more) : n \in Good
    <3> HIDE DEF Good
    <3> QED
      BY <1>2, <2>1, <2>2, EveryTurn
  <2> QED
    BY <2>3
<1> QED
  BY <1>1, <1>2, <1>5, <1>6, <1>8 DEF atMost, Runs

\* What the loop keeps after its n-th turn: the sources of before come first,
\* none is there twice if none was, nothing comes in but the rows, and a row
\* stays out only of a full list.
KeepsUpTo(list, more, atMost, n, now) ==
  /\ StartsWith(now, list)
  /\ NoneTwice(list) => NoneTwice(now)
  /\ Len(list) <= atMost => Len(now) <= atMost
  /\ Len(now) <= Len(list) + n
  /\ \A x : Has(now, x) => Has(list, x) \/ Has(more, x)
  /\ \A j \in 1..n : Has(now, more[j]) \/ (Len(now) >= atMost /\ Len(now) < Len(list) + n)

\* One more turn keeps it.
LEMMA OneMoreTurn ==
  ASSUME NEW E, NEW list \in Seq(E), NEW more \in Seq(E), NEW atMost \in Nat,
         NEW n \in 1..Len(more), NEW before \in Seq(E), NEW now,
         now = AppendRow(before, more[n], atMost),
         KeepsUpTo(list, more, atMost, n - 1, before)
  PROVE  now \in Seq(E) /\ KeepsUpTo(list, more, atMost, n, now)
<1>0. more[n] \in E /\ n \in Nat /\ n - 1 \in Nat
  OBVIOUS
<1>1. /\ now \in Seq(E)
      /\ StartsWith(now, before)
      /\ NoneTwice(before) => NoneTwice(now)
      /\ Len(before) <= atMost => Len(now) <= atMost
      /\ Len(now) <= Len(before) + 1
      /\ \A x : Has(now, x) => Has(before, x) \/ x = more[n]
      /\ Has(now, more[n]) \/ (Len(before) >= atMost /\ now = before)
  BY <1>0, OneRowKeeps
<1>2. Len(list) \in Nat /\ Len(before) \in Nat /\ Len(now) \in Nat /\ Len(before) <= Len(now)
  BY <1>1 DEF StartsWith
<1>3. StartsWith(now, list)
  BY <1>1, StartsTransitive DEF KeepsUpTo
<1>4. Has(more, more[n])
  BY DEF Has
<1>5. \A x : Has(now, x) => Has(list, x) \/ Has(more, x)
  BY <1>1, <1>4 DEF KeepsUpTo
<1>6. Len(now) <= Len(list) + n
  BY <1>0, <1>1, <1>2 DEF KeepsUpTo
<1>7. ASSUME NEW j \in 1..n
      PROVE  Has(now, more[j]) \/ (Len(now) >= atMost /\ Len(now) < Len(list) + n)
  <2>1. CASE j = n
    BY <1>0, <1>1, <1>2, <2>1 DEF KeepsUpTo
  <2>2. CASE j \in 1..(n - 1) /\ Has(before, more[j])
    BY <1>1, <2>2, StartHas
  <2>3. CASE j \in 1..(n - 1) /\ Len(before) >= atMost /\ Len(before) < Len(list) + (n - 1)
    BY <1>0, <1>1, <1>2, <2>3
  <2> QED
    BY <1>0, <2>1, <2>2, <2>3 DEF KeepsUpTo
<1> QED
  BY <1>1, <1>3, <1>5, <1>6, <1>7 DEF KeepsUpTo

\* The whole loop keeps it, and takes the first row unless the list is full.
LEMMA AllRows ==
  ASSUME NEW E, NEW list \in Seq(E), NEW more \in Seq(E), NEW atMost \in Nat,
         NEW seqs \in [0..Len(more) -> Seq(E)], Kept(list, more, atMost, seqs)
  PROVE  /\ KeepsUpTo(list, more, atMost, Len(more), seqs[Len(more)])
         /\ Len(more) > 0 /\ Len(list) < atMost => Has(seqs[Len(more)], more[1])
<1> DEFINE Good == {n \in 0..Len(more) : /\ KeepsUpTo(list, more, atMost, n, seqs[n])
                                         /\ n > 0 /\ Len(list) < atMost => Has(seqs[n], more[1])}
<1>0. Len(more) \in Nat /\ Len(list) \in Nat
  OBVIOUS
<1>1. 0 \in Good
  <2>1. seqs[0] = list
    BY <1>0 DEF Kept
  <2>2. KeepsUpTo(list, more, atMost, 0, list)
    BY <1>0 DEF KeepsUpTo, StartsWith
  <2> QED
    BY <1>0, <2>1, <2>2
<1>2. ASSUME NEW n \in 0..Len(more), n < Len(more), n \in Good PROVE n + 1 \in Good
  <2>1. n + 1 \in 1..Len(more) /\ (n + 1) - 1 = n /\ n + 1 # 0
    BY <1>0, <1>2
  <2>2. seqs[n + 1] = AppendRow(seqs[n], more[n + 1], atMost)
    BY <2>1 DEF Kept
  <2>3. KeepsUpTo(list, more, atMost, n + 1, seqs[n + 1])
    <3>1. KeepsUpTo(list, more, atMost, (n + 1) - 1, seqs[n]) /\ seqs[n] \in Seq(E)
      BY <1>2, <2>1
    <3>2. seqs[n + 1] = AppendRow(seqs[n], more[n + 1], atMost)
      BY <2>2
    <3> DEFINE m == n + 1
    <3> HIDE DEF m
    <3>3. KeepsUpTo(list, more, atMost, m, seqs[m])
      BY <2>1, <3>1, <3>2, OneMoreTurn DEF m
    <3> QED
      BY <3>3 DEF m
  <2>4. more[n + 1] \in E
    BY <2>1
  <2>5. /\ StartsWith(seqs[n + 1], seqs[n])
        /\ Has(seqs[n + 1], more[n + 1]) \/ (Len(seqs[n]) >= atMost /\ seqs[n + 1] = seqs[n])
    BY <2>2, <2>4, OneRowKeeps
  <2>6. ASSUME Len(list) < atMost PROVE Has(seqs[n + 1], more[1])
    <3>1. CASE n = 0
      BY <2>1, <2>5, <2>6, <3>1 DEF Kept
    <3>2. CASE n > 0
      BY <1>2, <2>1, <2>5, <2>6, <3>2, StartHas
    <3> QED
      BY <1>0, <3>1, <3>2
  <2> QED
    BY <2>1, <2>3, <2>6
<1>3. \A n \in 0..Len(more) : n \in Good
  <2> HIDE DEF Good
  <2> QED
    BY <1>0, <1>1, <1>2, EveryTurn
<1> QED
  BY <1>0, <1>3

\* What appendRowsN returns: the sources of before and then rows, none twice,
\* within the limit and at most maxAdd of them; all the rows are there if it
\* may add that many, unless the limit is reached, and the first one if there
\* was room.
Appended(list, more, maxAdd, limit, now) ==
  /\ StartsWith(now, list)
  /\ NoneTwice(list) => NoneTwice(now)
  /\ Len(now) <= limit
  /\ maxAdd > 0 => Len(now) <= Len(list) + maxAdd
  /\ Len(now) <= Len(list) + Len(more)
  /\ \A x : Has(now, x) => Has(list, x) \/ Has(more, x)
  /\ maxAdd = 0 \/ Len(more) <= maxAdd =>
       Len(now) >= limit \/ \A x : Has(more, x) => Has(now, x)
  /\ Len(more) > 0 /\ Len(list) < limit => Has(now, more[1])

\* How many it may add.
LEMMA AppendsAtMost ==
  ASSUME NEW list, NEW more, NEW maxAdd, NEW limit, NEW now,
         Appended(list, more, maxAdd, limit, now)
  PROVE  /\ Len(now) <= Len(list) + Len(more)
         /\ maxAdd > 0 => Len(now) <= Len(list) + maxAdd
BY Zenon DEF Appended

\* For all sources, rows and bounds.
LEMMA AppendRowsNAppends ==
  ASSUME NEW E, NEW list \in Seq(E), NEW more \in Seq(E), NEW maxAdd \in Nat, NEW limit \in Nat,
         NEW now, now = AppendRowsN(list, more, maxAdd, limit), Len(list) <= limit
  PROVE  now \in Seq(E) /\ Appended(list, more, maxAdd, limit, now)
<1> DEFINE atMost == AtMost(list, maxAdd, limit)
<1>1. PICK seqs \in [0..Len(more) -> Seq(E)] :
        Kept(list, more, atMost, seqs) /\ now = seqs[Len(more)]
  <2>1. Runs(E, list, more, maxAdd, limit)
    BY KeptRuns
  <2> QED
    BY <2>1 DEF Runs
<1>2. /\ atMost \in Nat /\ atMost <= limit
      /\ maxAdd > 0 => atMost <= Len(list) + maxAdd
      /\ atMost = limit \/ (maxAdd > 0 /\ atMost = Len(list) + maxAdd)
  BY AtMostIs
<1> HIDE DEF atMost
<1>3. Len(more) \in Nat /\ Len(list) \in Nat
  OBVIOUS
<1>4. now \in Seq(E) /\ Len(now) \in Nat
  BY <1>1, <1>3
<1>5. /\ KeepsUpTo(list, more, atMost, Len(more), now)
      /\ Len(more) > 0 /\ Len(list) < atMost => Has(now, more[1])
  BY <1>1, <1>2, AllRows
<1>6. Len(list) <= atMost
  BY <1>2, <1>3
<1>7. Len(now) <= limit /\ (maxAdd > 0 => Len(now) <= Len(list) + maxAdd)
  BY <1>2, <1>3, <1>4, <1>5, <1>6 DEF KeepsUpTo
<1>8. ASSUME maxAdd = 0 \/ Len(more) <= maxAdd, ~(Len(now) >= limit), NEW x, Has(more, x)
      PROVE  Has(now, x)
  <2>1. PICK j \in 1..Len(more) : more[j] = x
    BY <1>8 DEF Has
  <2>2. ~(Len(now) >= atMost /\ Len(now) < Len(list) + Len(more))
    BY <1>2, <1>3, <1>4, <1>8
  <2> QED
    BY <1>5, <2>1, <2>2 DEF KeepsUpTo
<1>9. Len(more) > 0 /\ Len(list) < limit => Has(now, more[1])
  BY <1>2, <1>3, <1>5
<1> QED
  BY <1>4, <1>5, <1>7, <1>8, <1>9 DEF KeepsUpTo, Appended

-----------------------------------------------------------------------------
(* Fill.                                                                    *)

\* The lists after the steps: each comes from the one before by appendRowsN.
Filled(limit, steps, filled) ==
  filled = [k \in 0..Len(steps) |-> IF k = 0 THEN <<>>
                                    ELSE AppendRowsN(filled[k - 1], steps[k][1], steps[k][2], limit)]

FillRuns(E, limit, steps) ==
  \E filled \in [0..Len(steps) -> Seq(E)] :
    /\ filled[0] = <<>>
    /\ \A k \in 0..Len(steps) : Len(filled[k]) <= limit
    /\ \A k \in 1..Len(steps) : Appended(filled[k - 1], steps[k][1], steps[k][2], limit, filled[k])
    /\ Fill(limit, steps) = filled[Len(steps)]

IsSteps(E, steps) ==
  /\ Len(steps) \in Nat
  /\ \A k \in 1..Len(steps) : steps[k][1] \in Seq(E) /\ steps[k][2] \in Nat

\* Fill runs: its steps append one after the other.
LEMMA FillAppends ==
  ASSUME NEW E, NEW steps, IsSteps(E, steps), NEW limit \in Nat
  PROVE  FillRuns(E, limit, steps)
<1> DEFINE Chain == {s \in Seq(E) : Len(s) <= limit}
           turn == [k \in 1..Len(steps) |->
                      [s \in Chain |-> AppendRowsN(s, steps[k][1], steps[k][2], limit)]]
           run == CHOOSE f : Filled(limit, steps, f)
<1>1. Fill(limit, steps) = run[Len(steps)]
  BY DEF Fill, Filled
<1>2. Len(steps) \in Nat /\ <<>> \in Chain
  BY DEF IsSteps
<1>3. ASSUME NEW k \in 1..Len(steps), NEW s \in Chain, NEW now,
             now = AppendRowsN(s, steps[k][1], steps[k][2], limit)
      PROVE  now \in Chain /\ Appended(s, steps[k][1], steps[k][2], limit, now)
  <2>1. PICK more, maxAdd : more = steps[k][1] /\ maxAdd = steps[k][2]
    OBVIOUS
  <2>2. more \in Seq(E) /\ maxAdd \in Nat /\ s \in Seq(E) /\ Len(s) <= limit
    BY <2>1 DEF IsSteps
  <2>3. now = AppendRowsN(s, more, maxAdd, limit)
    BY <1>3, <2>1
  <2>4. now \in Seq(E) /\ Appended(s, more, maxAdd, limit, now)
    BY <2>2, <2>3, AppendRowsNAppends
  <2> QED
    BY <2>1, <2>4 DEF Appended
<1>4. turn \in [1..Len(steps) -> [Chain -> Chain]]
  BY <1>3
<1>5. PICK f \in [0..Len(steps) -> Chain] : Turns(Len(steps), <<>>, turn, f)
  <2> HIDE DEF turn, Chain
  <2> QED
    BY <1>2, <1>4, LoopRuns
<1>6. \A k \in 1..Len(steps) : k - 1 \in 0..Len(steps) /\ f[k - 1] \in Chain /\ k # 0
  BY <1>2
<1>7. \A k \in 1..Len(steps) : turn[k][f[k - 1]] = AppendRowsN(f[k - 1], steps[k][1], steps[k][2], limit)
  BY <1>6
<1>8. /\ f[0] = <<>>
      /\ \A k \in 1..Len(steps) : f[k] = AppendRowsN(f[k - 1], steps[k][1], steps[k][2], limit)
  <2> HIDE DEF turn, Chain
  <2>1. f[0] = <<>> /\ \A k \in 1..Len(steps) : f[k] = turn[k][f[k - 1]]
    BY <1>2, <1>5 DEF Turns
  <2> QED
    BY <1>7, <2>1
<1>9. Filled(limit, steps, f)
  <2> HIDE DEF turn, Chain
  <2>1. \A k \in 0..Len(steps) : f[k] = IF k = 0 THEN <<>>
                                        ELSE AppendRowsN(f[k - 1], steps[k][1], steps[k][2], limit)
    BY <1>2, <1>8
  <2> QED
    BY <2>1 DEF Filled
<1>10. Filled(limit, steps, run)
  BY <1>9
<1> HIDE DEF run, turn
<1>11. \A k \in 0..Len(steps) : run[k] = f[k]
  <2> DEFINE Good == {k \in 0..Len(steps) : run[k] = f[k]}
  <2>1. 0 \in Good
    BY <1>2, <1>8, <1>10 DEF Filled
  <2>2. ASSUME NEW k \in 0..Len(steps), k < Len(steps), k \in Good PROVE k + 1 \in Good
    <3>1. k + 1 \in 1..Len(steps) /\ k + 1 # 0 /\ (k + 1) - 1 = k
      BY <1>2, <2>2
    <3>2. run[k + 1] = AppendRowsN(run[k], steps[k + 1][1], steps[k + 1][2], limit)
      BY <1>10, <3>1 DEF Filled
    <3>3. f[k + 1] = AppendRowsN(f[k], steps[k + 1][1], steps[k + 1][2], limit)
      BY <1>8, <3>1
    <3> QED
      BY <2>2, <3>1, <3>2, <3>3
  <2>3. \A k \in 0..Len(steps) : k \in Good
    <3> HIDE DEF Good
    <3> QED
      BY <1>2, <2>1, <2>2, EveryTurn
  <2> QED
    BY <2>3
<1>12. \A k \in 1..Len(steps) : Appended(f[k - 1], steps[k][1], steps[k][2], limit, f[k])
  BY <1>3, <1>6, <1>8
<1>13. f \in [0..Len(steps) -> Seq(E)] /\ \A k \in 0..Len(steps) : Len(f[k]) <= limit
  <2>1. \A s \in Chain : s \in Seq(E) /\ Len(s) <= limit
    OBVIOUS
  <2> HIDE DEF Chain
  <2> QED
    BY <2>1
<1>14. Fill(limit, steps) = f[Len(steps)]
  BY <1>1, <1>2, <1>11
<1> QED
  BY <1>8, <1>12, <1>13, <1>14 DEF FillRuns

\* What k steps leave: sources of the steps, none twice, within the limit, and
\* all the rows of a step that may add that many, unless the limit is reached.
FilledTo(limit, steps, k, now) ==
  /\ NoneTwice(now)
  /\ \A x : Has(now, x) => \E j \in 1..k : Has(steps[j][1], x)
  /\ \A j \in 1..k : steps[j][2] = 0 \/ Len(steps[j][1]) <= steps[j][2] =>
       Len(now) >= limit \/ \A x : Has(steps[j][1], x) => Has(now, x)

\* For every list of steps.
LEMMA FillFills ==
  ASSUME NEW E, NEW steps, IsSteps(E, steps), NEW limit \in Nat,
         NEW now, now = Fill(limit, steps)
  PROVE  now \in Seq(E) /\ Len(now) <= limit /\ FilledTo(limit, steps, Len(steps), now)
<1>1. PICK f \in [0..Len(steps) -> Seq(E)] :
        /\ f[0] = <<>>
        /\ \A k \in 0..Len(steps) : Len(f[k]) <= limit
        /\ \A k \in 1..Len(steps) : Appended(f[k - 1], steps[k][1], steps[k][2], limit, f[k])
        /\ now = f[Len(steps)]
  <2>1. FillRuns(E, limit, steps)
    BY FillAppends
  <2> QED
    BY <2>1 DEF FillRuns
<1>2. Len(steps) \in Nat
  BY DEF IsSteps
<1> DEFINE Good == {k \in 0..Len(steps) : FilledTo(limit, steps, k, f[k])}
<1>3. 0 \in Good
  BY <1>1, <1>2 DEF FilledTo, NoneTwice, Has
<1>4. ASSUME NEW k \in 0..Len(steps), k < Len(steps), k \in Good PROVE k + 1 \in Good
  <2>1. PICK m : m = k + 1
    OBVIOUS
  <2>2. m \in 1..Len(steps) /\ m - 1 = k /\ 1..m = 1..k \cup {m} /\ k \in Nat
    BY <1>2, <1>4, <2>1
  <2>3. PICK before, after : before = f[k] /\ after = f[m]
    OBVIOUS
  <2>4. before \in Seq(E) /\ after \in Seq(E) /\ Len(before) <= limit /\ Len(after) <= limit
    <3>1. k \in 0..Len(steps) /\ m \in 0..Len(steps)
      BY <1>2, <2>2
    <3> QED
      BY <1>1, <2>3, <3>1
  <2>5. Appended(before, steps[m][1], steps[m][2], limit, after)
    BY <1>1, <2>2, <2>3
  <2>6. FilledTo(limit, steps, k, before)
    BY <1>4, <2>3
  <2>7. NoneTwice(after)
    BY <2>5, <2>6 DEF Appended, FilledTo
  <2>8. ASSUME NEW x, Has(after, x) PROVE \E j \in 1..m : Has(steps[j][1], x)
    BY <2>2, <2>5, <2>6, <2>8 DEF Appended, FilledTo
  <2>9. \A x : Has(before, x) => Has(after, x)
    BY <2>4, <2>5, StartHas DEF Appended
  <2>10. Len(before) <= Len(after) /\ Len(before) \in Nat /\ Len(after) \in Nat
    BY <2>4, <2>5 DEF Appended, StartsWith
  <2>11. ASSUME NEW j \in 1..m, steps[j][2] = 0 \/ Len(steps[j][1]) <= steps[j][2],
                ~(Len(after) >= limit), NEW x, Has(steps[j][1], x)
         PROVE  Has(after, x)
    <3>1. CASE j = m
      BY <2>5, <2>11, <3>1 DEF Appended
    <3>2. CASE j \in 1..k
      BY <2>6, <2>9, <2>10, <2>11, <3>2 DEF FilledTo
    <3> QED
      BY <2>2, <3>1, <3>2
  <2>12. FilledTo(limit, steps, m, after)
    BY <2>7, <2>8, <2>11 DEF FilledTo
  <2> QED
    BY <1>4, <2>1, <2>2, <2>3, <2>12
<1>5. \A k \in 0..Len(steps) : k \in Good
  <2> HIDE DEF Good
  <2> QED
    BY <1>2, <1>3, <1>4, EveryTurn
<1> QED
  BY <1>1, <1>2, <1>5

-----------------------------------------------------------------------------
(* The selection.                                                           *)

ListName == {"direct", "official", "local", "global", "local social", "global social"}

Item == [list : ListName, n : Nat]

\* What a request for a selection is made of.
LEMMA RequestParts ==
  ASSUME NEW r \in PickRequest
  PROVE  /\ r.kind = "pick"
         /\ r.want.thai \in BOOLEAN /\ r.want.deep \in BOOLEAN
         /\ r.want.scope \in {"local-first", "local-only", "global"}
         /\ ~r.want.thai => r.want.scope = "global"
         /\ r.asks.fresh \in BOOLEAN /\ r.asks.social \in BOOLEAN /\ r.asks.priceOnly \in BOOLEAN
         /\ r.found.direct \in Nat /\ r.found.official \in 0..2 /\ r.found.local \in Nat
         /\ r.found.current \in 0..1 /\ r.found.localSocial \in Nat
         /\ r.found.global \in Nat /\ r.found.globalSocial \in Nat /\ r.found.twin \in BOOLEAN
         /\ r.found.current <= r.found.local
         /\ r.limit \in 1..8
<1>1. r.kind = "pick" /\ r.want \in Preference /\ r.asks \in Intent /\ r.found \in Finding /\ r.limit \in Limits
  BY DEF PickRequest
<1>2. r.limit \in 1..8
  BY <1>1, ChoiceAssumption
<1>3. /\ r.want.thai \in BOOLEAN /\ r.want.deep \in BOOLEAN
      /\ r.want.scope \in {"local-first", "local-only", "global"}
      /\ ~r.want.thai => r.want.scope = "global"
  BY <1>1 DEF Preference
<1>4. r.asks.fresh \in BOOLEAN /\ r.asks.social \in BOOLEAN /\ r.asks.priceOnly \in BOOLEAN
  BY <1>1 DEF Intent
<1>5. /\ r.found.direct \in Nat /\ r.found.official \in 0..2 /\ r.found.local \in Nat
      /\ r.found.current \in 0..1 /\ r.found.localSocial \in Nat
      /\ r.found.global \in Nat /\ r.found.globalSocial \in Nat /\ r.found.twin \in BOOLEAN
      /\ r.found.current <= r.found.local
  BY <1>1, ChoiceAssumption DEF Finding
<1> QED
  BY <1>1, <1>2, <1>3, <1>4, <1>5

\* A list of so many sources.
LEMMA ListIs ==
  ASSUME NEW list \in ListName, NEW n \in Nat
  PROVE  /\ List(list, n) \in Seq(Item) /\ Len(List(list, n)) = n
         /\ \A x : Has(List(list, n), x) <=> \E i \in 1..n : x = Source(list, i)
         /\ \A i \in 1..n : List(list, n)[i] = Source(list, i)
<1>1. \A i \in 1..n : Source(list, i) \in Item
  BY DEF Source, Item
<1>2. List(list, n) \in Seq(Item) /\ Len(List(list, n)) = n
  BY <1>1 DEF List
<1> QED
  BY <1>2 DEF List, Has

\* Rows under a condition.
LEMMA WhenIs ==
  ASSUME NEW E, NEW more \in Seq(E), NEW c \in BOOLEAN
  PROVE  When(c, more) \in Seq(E) /\ \A x : Has(When(c, more), x) <=> c /\ Has(more, x)
BY DEF When, Has

\* The lists of a finding.
LEMMA FoundLists ==
  ASSUME NEW r \in PickRequest
  PROVE  /\ Direct(r) \in Seq(Item) /\ Len(Direct(r)) = r.found.direct
         /\ Official(r) \in Seq(Item) /\ Len(Official(r)) = r.found.official
         /\ LocalWeb(r) \in Seq(Item) /\ GlobalWeb(r) \in Seq(Item)
         /\ Len(GlobalWeb(r)) = r.found.global
         /\ r.found.global > 0 => GlobalWeb(r)[1] = Source("global", 1)
         /\ LocalCurrent(r) \in Seq(Item) /\ Len(LocalCurrent(r)) <= (IF r.asks.fresh THEN 1 ELSE 0)
         /\ \A x : Has(LocalCurrent(r), x) => Has(LocalWeb(r), x)
         /\ LocalSocial(r) \in Seq(Item) /\ GlobalSocial(r) \in Seq(Item)
         /\ r.asks.priceOnly => Len(LocalSocial(r)) = 0
<1>0. PICK direct, local, world, localSocial, globalSocial \in Nat :
        /\ direct = r.found.direct /\ local = r.found.local /\ world = r.found.global
        /\ localSocial = r.found.localSocial /\ globalSocial = r.found.globalSocial
  BY RequestParts
<1>1. Direct(r) \in Seq(Item) /\ Len(Direct(r)) = r.found.direct
  <2>1. List("direct", direct) \in Seq(Item) /\ Len(List("direct", direct)) = direct
    BY ListIs DEF ListName
  <2> QED
    BY <1>0, <2>1 DEF Direct
<1>2. Official(r) \in Seq(Item) /\ Len(Official(r)) = r.found.official
  <2>1. PICK n \in Nat : n = r.found.official
    BY RequestParts
  <2>2. \A i \in 1..n : (IF i = 1 /\ r.found.twin THEN Source("local", 1) ELSE Source("official", i)) \in Item
    BY DEF Source, Item, ListName
  <2> QED
    BY <2>1, <2>2 DEF Official
<1>3. LocalWeb(r) \in Seq(Item) /\ \A i \in 1..local : Has(LocalWeb(r), Source("local", i))
  <2>1. /\ List("local", local) \in Seq(Item)
        /\ \A x : Has(List("local", local), x) <=> \E i \in 1..local : x = Source("local", i)
    BY ListIs DEF ListName
  <2> QED
    BY <1>0, <2>1 DEF LocalWeb
<1>4. /\ GlobalWeb(r) \in Seq(Item) /\ Len(GlobalWeb(r)) = r.found.global
      /\ r.found.global > 0 => GlobalWeb(r)[1] = Source("global", 1)
  <2>1. /\ List("global", world) \in Seq(Item) /\ Len(List("global", world)) = world
        /\ \A i \in 1..world : List("global", world)[i] = Source("global", i)
    BY ListIs DEF ListName
  <2> QED
    BY <1>0, <2>1 DEF GlobalWeb
<1>5. /\ LocalCurrent(r) \in Seq(Item) /\ Len(LocalCurrent(r)) <= (IF r.asks.fresh THEN 1 ELSE 0)
      /\ \A x : Has(LocalCurrent(r), x) => Has(LocalWeb(r), x)
  <2>1. CASE r.found.current = 1 /\ r.asks.fresh
    <3>1. PICK y : y = Source("local", r.found.local)
      OBVIOUS
    <3>2. y \in Item
      BY <1>0, <3>1 DEF Source, Item, ListName
    <3>3. LocalCurrent(r) = <<y>>
      BY <2>1, <3>1 DEF LocalCurrent
    <3>4. Has(LocalWeb(r), y)
      <4>1. r.found.current <= r.found.local
        BY RequestParts
      <4>2. local \in 1..local
        BY <1>0, <2>1, <4>1
      <4> QED
        BY <1>0, <1>3, <3>1, <4>2
    <3>5. \A x : Has(<<y>>, x) => x = y
      BY DEF Has
    <3> QED
      BY <2>1, <3>2, <3>3, <3>4, <3>5
  <2>2. CASE ~(r.found.current = 1 /\ r.asks.fresh)
    BY <2>2 DEF LocalCurrent, Has
  <2> QED
    BY <2>1, <2>2
<1>6. LocalSocial(r) \in Seq(Item) /\ GlobalSocial(r) \in Seq(Item)
  <2>1. List("local social", localSocial) \in Seq(Item) /\ List("global social", globalSocial) \in Seq(Item)
    BY ListIs DEF ListName
  <2>2. CASE r.asks.priceOnly
    BY <2>2 DEF LocalSocial, GlobalSocial
  <2>3. CASE ~r.asks.priceOnly
    BY <1>0, <2>1, <2>3 DEF LocalSocial, GlobalSocial
  <2> QED
    BY <2>2, <2>3
<1>7. r.asks.priceOnly => Len(LocalSocial(r)) = 0
  BY DEF LocalSocial
<1> QED
  BY <1>1, <1>2, <1>3, <1>4, <1>5, <1>6, <1>7

\* What a request admits: the lists of its finding, those of the world unless
\* it is about a region alone.
Offers(r, x) ==
  \/ Has(Direct(r), x) \/ Has(Official(r), x) \/ Has(LocalWeb(r), x) \/ Has(LocalSocial(r), x)
  \/ r.want.scope # "local-only" /\ (Has(GlobalWeb(r), x) \/ Has(GlobalSocial(r), x))

\* Steps that add nothing else, and add all of it if there is room.
AddsAll(r, steps) ==
  /\ IsSteps(Item, steps)
  /\ \A k \in 1..Len(steps) : \A x : Has(steps[k][1], x) => Offers(r, x)
  /\ \A x : Offers(r, x) =>
       \E k \in 1..Len(steps) :
         Has(steps[k][1], x) /\ (steps[k][2] = 0 \/ Len(steps[k][1]) <= steps[k][2])

\* The steps of a local scope.
LEMMA LocalStepsAdd ==
  ASSUME NEW r \in PickRequest
  PROVE  /\ AddsAll(r, LocalSteps(r)) /\ Len(LocalSteps(r)) = 11
         /\ LocalSteps(r)[1] = <<Direct(r), 0>> /\ LocalSteps(r)[2] = <<Official(r), 2>>
         /\ LocalSteps(r)[3] = <<LocalCurrent(r), 1>>
         /\ r.want.deep =>
              /\ LocalSteps(r)[4] = <<LocalWeb(r), IF SourceLimit(r) <= 5 THEN 2 ELSE 3>>
              /\ LocalSteps(r)[5] = <<LocalSocial(r), IF r.asks.priceOnly THEN 0
                                                      ELSE IF SourceLimit(r) <= 5 THEN 1 ELSE 2>>
              /\ r.want.scope # "local-only" => LocalSteps(r)[6][1] = GlobalWeb(r)
<1> DEFINE worldwide == r.want.scope # "local-only"
           people == r.want.deep \/ r.asks.social
           a5 == When(people, LocalSocial(r))
           a6 == When(worldwide, GlobalWeb(r))
           a7 == When(worldwide, When(people, GlobalSocial(r)))
           a11 == When(worldwide, GlobalSocial(r))
<1>1. PICK n4, n5, n6 :
        /\ n4 = IF r.want.deep THEN (IF SourceLimit(r) <= 5 THEN 2 ELSE 3) ELSE 0
        /\ n5 = IF r.want.deep THEN (IF r.asks.priceOnly THEN 0 ELSE IF SourceLimit(r) <= 5 THEN 1 ELSE 2)
                               ELSE 1
        /\ n6 = IF r.want.deep THEN (IF SourceLimit(r) <= 5 THEN 1 ELSE 2) ELSE 2
  OBVIOUS
<1>2. n4 \in Nat /\ n5 \in Nat /\ n6 \in Nat
  BY <1>1
<1>3. /\ Direct(r) \in Seq(Item) /\ Official(r) \in Seq(Item) /\ LocalCurrent(r) \in Seq(Item)
      /\ LocalWeb(r) \in Seq(Item) /\ LocalSocial(r) \in Seq(Item)
      /\ GlobalWeb(r) \in Seq(Item) /\ GlobalSocial(r) \in Seq(Item)
      /\ Len(Official(r)) <= 2
      /\ \A x : Has(LocalCurrent(r), x) => Has(LocalWeb(r), x)
  <2>1. Len(Official(r)) = r.found.official
    BY FoundLists
  <2>2. r.found.official \in 0..2
    BY RequestParts
  <2> QED
    BY <2>1, <2>2, FoundLists
<1>4. worldwide \in BOOLEAN /\ people \in BOOLEAN
  BY RequestParts
<1> HIDE DEF worldwide, people
<1>5. a5 \in Seq(Item) /\ \A x : Has(a5, x) <=> people /\ Has(LocalSocial(r), x)
  BY <1>3, <1>4, WhenIs
<1>6. a6 \in Seq(Item) /\ \A x : Has(a6, x) <=> worldwide /\ Has(GlobalWeb(r), x)
  BY <1>3, <1>4, WhenIs
<1>7. a11 \in Seq(Item) /\ \A x : Has(a11, x) <=> worldwide /\ Has(GlobalSocial(r), x)
  BY <1>3, <1>4, WhenIs
<1>8. a7 \in Seq(Item) /\ \A x : Has(a7, x) => worldwide /\ Has(GlobalSocial(r), x)
  <2>1. PICK b : b = When(people, GlobalSocial(r))
    OBVIOUS
  <2>2. b \in Seq(Item) /\ \A x : Has(b, x) <=> people /\ Has(GlobalSocial(r), x)
    BY <1>3, <1>4, <2>1, WhenIs
  <2>3. a7 \in Seq(Item) /\ \A x : Has(a7, x) <=> worldwide /\ Has(b, x)
    BY <1>4, <2>1, <2>2, WhenIs
  <2> QED
    BY <2>2, <2>3
<1>9. LocalSteps(r) = <<<<Direct(r), 0>>, <<Official(r), 2>>, <<LocalCurrent(r), 1>>, <<LocalWeb(r), n4>>,
                        <<a5, n5>>, <<a6, n6>>, <<a7, 1>>, <<LocalWeb(r), 0>>, <<LocalSocial(r), 0>>,
                        <<a6, 0>>, <<a11, 0>>>>
  BY <1>1 DEF LocalSteps, worldwide, people
<1>10. r.want.deep => a5 = LocalSocial(r)
  BY DEF people, When
<1>11. r.want.scope # "local-only" => a6 = GlobalWeb(r)
  BY DEF worldwide, When
<1> HIDE DEF a5, a6, a7, a11
<1>12. PICK steps : steps = LocalSteps(r)
  OBVIOUS
<1>13. /\ Len(steps) = 11
       /\ steps[1] = <<Direct(r), 0>> /\ steps[2] = <<Official(r), 2>> /\ steps[3] = <<LocalCurrent(r), 1>>
       /\ steps[4] = <<LocalWeb(r), n4>> /\ steps[5] = <<a5, n5>> /\ steps[6] = <<a6, n6>>
       /\ steps[7] = <<a7, 1>> /\ steps[8] = <<LocalWeb(r), 0>> /\ steps[9] = <<LocalSocial(r), 0>>
       /\ steps[10] = <<a6, 0>> /\ steps[11] = <<a11, 0>>
  BY <1>9, <1>12
<1>14. ASSUME NEW k \in 1..Len(steps)
       PROVE  /\ \/ steps[k][1] = Direct(r) \/ steps[k][1] = Official(r) \/ steps[k][1] = LocalCurrent(r)
                 \/ steps[k][1] = LocalWeb(r) \/ steps[k][1] = LocalSocial(r)
                 \/ steps[k][1] = a5 \/ steps[k][1] = a6 \/ steps[k][1] = a7 \/ steps[k][1] = a11
              /\ steps[k][2] \in Nat
  <2>1. k \in {1, 2, 3, 4, 5, 6, 7, 8, 9, 10, 11}
    BY <1>13
  <2> QED
    BY <1>2, <1>13, <2>1
<1>15. IsSteps(Item, steps)
  <2>1. \A k \in 1..Len(steps) : steps[k][1] \in Seq(Item)
    BY <1>3, <1>5, <1>6, <1>7, <1>8, <1>14
  <2> QED
    BY <1>13, <1>14, <2>1 DEF IsSteps
<1>16. ASSUME NEW k \in 1..Len(steps), NEW x, Has(steps[k][1], x) PROVE Offers(r, x)
  BY <1>3, <1>5, <1>6, <1>7, <1>8, <1>14, <1>16 DEF Offers, worldwide
<1>17. ASSUME NEW x, Offers(r, x)
       PROVE  \E k \in 1..Len(steps) :
                Has(steps[k][1], x) /\ (steps[k][2] = 0 \/ Len(steps[k][1]) <= steps[k][2])
  <2>1. \/ Has(Direct(r), x) \/ Has(Official(r), x) \/ Has(LocalWeb(r), x) \/ Has(LocalSocial(r), x)
        \/ Has(a6, x) \/ Has(a11, x)
    BY <1>6, <1>7, <1>17 DEF Offers, worldwide
  <2>2. {1, 2, 8, 9, 10, 11} \subseteq 1..Len(steps)
    BY <1>13
  <2>3. /\ steps[1][1] = Direct(r) /\ steps[1][2] = 0
        /\ steps[2][1] = Official(r) /\ steps[2][2] = 2
        /\ steps[8][1] = LocalWeb(r) /\ steps[8][2] = 0
        /\ steps[9][1] = LocalSocial(r) /\ steps[9][2] = 0
        /\ steps[10][1] = a6 /\ steps[10][2] = 0
        /\ steps[11][1] = a11 /\ steps[11][2] = 0
    BY <1>13
  <2> QED
    BY <1>3, <2>1, <2>2, <2>3
<1>18. AddsAll(r, steps)
  BY <1>15, <1>16, <1>17 DEF AddsAll
<1> QED
  BY <1>1, <1>10, <1>11, <1>12, <1>13, <1>18

\* The steps of a global scope, which admits everything.
LEMMA GlobalStepsAdd ==
  ASSUME NEW r \in PickRequest, ~LocalScope(r)
  PROVE  AddsAll(r, GlobalSteps(r))
<1> DEFINE people == r.want.deep \/ r.asks.social
           a4 == When(people, GlobalSocial(r))
<1>1. PICK n3, n4 : /\ n3 = IF r.want.deep THEN 5 ELSE 0
                    /\ n4 = IF r.want.deep THEN 3 ELSE 1
  OBVIOUS
<1>2. n3 \in Nat /\ n4 \in Nat
  BY <1>1
<1>3. /\ Direct(r) \in Seq(Item) /\ Official(r) \in Seq(Item) /\ LocalWeb(r) \in Seq(Item)
      /\ LocalSocial(r) \in Seq(Item) /\ GlobalWeb(r) \in Seq(Item) /\ GlobalSocial(r) \in Seq(Item)
      /\ Len(Official(r)) <= 2
  <2>1. Len(Official(r)) = r.found.official
    BY FoundLists
  <2>2. r.found.official \in 0..2
    BY RequestParts
  <2> QED
    BY <2>1, <2>2, FoundLists
<1>4. people \in BOOLEAN /\ r.want.scope # "local-only"
  BY RequestParts DEF LocalScope
<1> HIDE DEF people
<1>5. a4 \in Seq(Item) /\ \A x : Has(a4, x) <=> people /\ Has(GlobalSocial(r), x)
  BY <1>3, <1>4, WhenIs
<1>6. GlobalSteps(r) = <<<<Direct(r), 0>>, <<Official(r), 2>>, <<GlobalWeb(r), n3>>, <<a4, n4>>,
                         <<GlobalWeb(r), 0>>, <<GlobalSocial(r), 0>>, <<LocalWeb(r), 0>>,
                         <<LocalSocial(r), 0>>>>
  BY <1>1 DEF GlobalSteps, people
<1> HIDE DEF a4
<1>7. PICK steps : steps = GlobalSteps(r)
  OBVIOUS
<1>8. /\ Len(steps) = 8
      /\ steps[1] = <<Direct(r), 0>> /\ steps[2] = <<Official(r), 2>> /\ steps[3] = <<GlobalWeb(r), n3>>
      /\ steps[4] = <<a4, n4>> /\ steps[5] = <<GlobalWeb(r), 0>> /\ steps[6] = <<GlobalSocial(r), 0>>
      /\ steps[7] = <<LocalWeb(r), 0>> /\ steps[8] = <<LocalSocial(r), 0>>
  BY <1>6, <1>7
<1>9. ASSUME NEW k \in 1..Len(steps)
      PROVE  /\ \/ steps[k][1] = Direct(r) \/ steps[k][1] = Official(r) \/ steps[k][1] = LocalWeb(r)
                \/ steps[k][1] = LocalSocial(r) \/ steps[k][1] = GlobalWeb(r)
                \/ steps[k][1] = GlobalSocial(r) \/ steps[k][1] = a4
             /\ steps[k][2] \in Nat
  <2>1. k \in {1, 2, 3, 4, 5, 6, 7, 8}
    BY <1>8
  <2> QED
    BY <1>2, <1>8, <2>1
<1>10. IsSteps(Item, steps)
  <2>1. \A k \in 1..Len(steps) : steps[k][1] \in Seq(Item)
    BY <1>3, <1>5, <1>9
  <2> QED
    BY <1>8, <1>9, <2>1 DEF IsSteps
<1>11. ASSUME NEW k \in 1..Len(steps), NEW x, Has(steps[k][1], x) PROVE Offers(r, x)
  BY <1>4, <1>5, <1>9, <1>11 DEF Offers
<1>12. ASSUME NEW x, Offers(r, x)
       PROVE  \E k \in 1..Len(steps) :
                Has(steps[k][1], x) /\ (steps[k][2] = 0 \/ Len(steps[k][1]) <= steps[k][2])
  <2>1. \/ Has(Direct(r), x) \/ Has(Official(r), x) \/ Has(LocalWeb(r), x) \/ Has(LocalSocial(r), x)
        \/ Has(GlobalWeb(r), x) \/ Has(GlobalSocial(r), x)
    BY <1>12 DEF Offers
  <2>2. {1, 2, 5, 6, 7, 8} \subseteq 1..Len(steps)
    BY <1>8
  <2>3. /\ steps[1][1] = Direct(r) /\ steps[1][2] = 0
        /\ steps[2][1] = Official(r) /\ steps[2][2] = 2
        /\ steps[5][1] = GlobalWeb(r) /\ steps[5][2] = 0
        /\ steps[6][1] = GlobalSocial(r) /\ steps[6][2] = 0
        /\ steps[7][1] = LocalWeb(r) /\ steps[7][2] = 0
        /\ steps[8][1] = LocalSocial(r) /\ steps[8][2] = 0
    BY <1>8
  <2> QED
    BY <1>3, <2>1, <2>2, <2>3
<1>13. AddsAll(r, steps)
  BY <1>10, <1>11, <1>12 DEF AddsAll
<1> QED
  BY <1>7, <1>13

\* The limit of a request, of which a price question uses at most six.
LEMMA SourceLimitIs ==
  ASSUME NEW r \in PickRequest
  PROVE  SourceLimit(r) \in 1..8
<1>1. r.limit \in 1..8
  BY RequestParts
<1>2. \/ SourceLimit(r) = r.limit
      \/ SourceLimit(r) = CHOOSE x \in {r.limit, 6} : \A y \in {r.limit, 6} : x <= y
  BY DEF SourceLimit, Min
<1>3. \E x \in {r.limit, 6} : \A y \in {r.limit, 6} : x <= y
  BY <1>1
<1>4. SourceLimit(r) \in {r.limit, 6}
  BY <1>2, <1>3
<1> QED
  BY <1>1, <1>4

\* What is selected is admitted, none twice, within the limit, and short of
\* the limit it is all that is admitted.
LEMMA SelectionFills ==
  ASSUME NEW r \in PickRequest, NEW now, now = Selection(r)
  PROVE  /\ now \in Seq(Item) /\ NoneTwice(now) /\ Len(now) <= SourceLimit(r)
         /\ \A x : Has(now, x) => Offers(r, x)
         /\ Len(now) >= SourceLimit(r) \/ \A x : Offers(r, x) => Has(now, x)
<1>1. PICK steps : steps = IF LocalScope(r) THEN LocalSteps(r) ELSE GlobalSteps(r)
  OBVIOUS
<1>2. now = Fill(SourceLimit(r), steps)
  BY <1>1 DEF Selection
<1>3. AddsAll(r, steps)
  <2>1. CASE LocalScope(r)
    BY <1>1, <2>1, LocalStepsAdd
  <2>2. CASE ~LocalScope(r)
    BY <1>1, <2>2, GlobalStepsAdd
  <2> QED
    BY <2>1, <2>2
<1>4. PICK limit \in Nat : limit = SourceLimit(r)
  BY SourceLimitIs
<1>5. now \in Seq(Item) /\ Len(now) <= limit /\ FilledTo(limit, steps, Len(steps), now)
  <2>1. IsSteps(Item, steps) /\ now = Fill(limit, steps)
    BY <1>2, <1>3, <1>4 DEF AddsAll
  <2> QED
    BY <2>1, FillFills
<1> QED
  BY <1>3, <1>4, <1>5 DEF FilledTo, AddsAll

\* A list that has no source twice counts them; every list has finitely many.
LEMMA CountOfList ==
  ASSUME NEW E, NEW list \in Seq(E)
  PROVE  /\ IsFiniteSet(Range(list))
         /\ NoneTwice(list) => Cardinality(Range(list)) = Len(list)
         /\ \A x : x \in Range(list) <=> Has(list, x)
<1>1. Len(list) \in Nat /\ DOMAIN list = 1..Len(list)
  OBVIOUS
<1>2. Range(list) = {list[i] : i \in 1..Len(list)}
  BY <1>1 DEF Range
<1>3. IsFiniteSet(1..Len(list)) /\ Cardinality(1..Len(list)) = Len(list)
  <2>1. 0 \in Int /\ 1 \in Int /\ Len(list) \in Int
    BY <1>1
  <2>2. IsFiniteSet(1..Len(list))
    BY <2>1, FS_Interval
  <2>3. Cardinality(1..Len(list)) = IF 1 > Len(list) THEN 0 ELSE Len(list) - 1 + 1
    BY <2>1, FS_Interval
  <2> QED
    BY <1>1, <2>2, <2>3
<1>4. PICK g : g = [i \in 1..Len(list) |-> list[i]]
  OBVIOUS
<1>5. g \in Surjection(1..Len(list), Range(list))
  BY <1>2, <1>4 DEF Surjection
<1>6. IsFiniteSet(Range(list)) /\ (Cardinality(Range(list)) = Len(list) <=> g \in Injection(1..Len(list), Range(list)))
  BY <1>3, <1>5, FS_Surjection
<1>7. NoneTwice(list) => g \in Injection(1..Len(list), Range(list))
  BY <1>2, <1>4 DEF NoneTwice, Injection, IsInjective
<1> QED
  BY <1>2, <1>6, <1>7 DEF Has

\* The lists of the first six steps; what the sixth has stays.
SixSteps(E, steps, limit, now) ==
  \E s1, s2, s3, s4, s5, s6 \in Seq(E) :
    /\ Appended(<<>>, steps[1][1], steps[1][2], limit, s1)
    /\ Appended(s1, steps[2][1], steps[2][2], limit, s2)
    /\ Appended(s2, steps[3][1], steps[3][2], limit, s3)
    /\ Appended(s3, steps[4][1], steps[4][2], limit, s4)
    /\ Appended(s4, steps[5][1], steps[5][2], limit, s5)
    /\ Appended(s5, steps[6][1], steps[6][2], limit, s6)
    /\ \A x : Has(s6, x) => Has(now, x)

\* Of eleven.
LEMMA FirstSix ==
  ASSUME NEW E, NEW steps, IsSteps(E, steps), Len(steps) = 11, NEW limit \in Nat, NEW now,
         now = Fill(limit, steps)
  PROVE  SixSteps(E, steps, limit, now)
<1>0. \A j \in 0..10 : j + 1 \in 1..11 /\ (j + 1) - 1 = j /\ j \in 0..11 /\ j + 1 \in 0..11
  OBVIOUS
<1>1. PICK f \in [0..11 -> Seq(E)] :
        /\ f[0] = <<>>
        /\ \A k \in 1..11 : Appended(f[k - 1], steps[k][1], steps[k][2], limit, f[k])
        /\ now = f[11]
  <2>1. FillRuns(E, limit, steps)
    BY FillAppends
  <2> QED
    BY <2>1 DEF FillRuns
<1>2. ASSUME NEW j \in 0..10
      PROVE  /\ Appended(f[j], steps[j + 1][1], steps[j + 1][2], limit, f[j + 1])
             /\ \A x : Has(f[j], x) => Has(f[j + 1], x)
  <2>1. j + 1 \in 1..11 /\ (j + 1) - 1 = j /\ j \in 0..11 /\ j + 1 \in 0..11
    BY <1>0
  <2>2. Appended(f[j], steps[j + 1][1], steps[j + 1][2], limit, f[j + 1])
    BY <1>1, <2>1
  <2>3. f[j] \in Seq(E) /\ f[j + 1] \in Seq(E)
    BY <2>1
  <2> QED
    BY <2>2, <2>3, StartHas DEF Appended
<1>3. /\ Appended(<<>>, steps[1][1], steps[1][2], limit, f[1])
      /\ Appended(f[1], steps[2][1], steps[2][2], limit, f[2])
      /\ Appended(f[2], steps[3][1], steps[3][2], limit, f[3])
      /\ Appended(f[3], steps[4][1], steps[4][2], limit, f[4])
      /\ Appended(f[4], steps[5][1], steps[5][2], limit, f[5])
      /\ Appended(f[5], steps[6][1], steps[6][2], limit, f[6])
  BY <1>1, <1>2
<1>4. \A x : Has(f[6], x) => Has(now, x)
  <2>1. /\ \A x : Has(f[6], x) => Has(f[7], x)
        /\ \A x : Has(f[7], x) => Has(f[8], x)
        /\ \A x : Has(f[8], x) => Has(f[9], x)
        /\ \A x : Has(f[9], x) => Has(f[10], x)
        /\ \A x : Has(f[10], x) => Has(f[11], x)
    BY <1>2
  <2> QED
    BY <1>1, <2>1
<1>5. /\ f[1] \in Seq(E) /\ f[2] \in Seq(E) /\ f[3] \in Seq(E)
      /\ f[4] \in Seq(E) /\ f[5] \in Seq(E) /\ f[6] \in Seq(E)
  OBVIOUS
<1> QED
  BY <1>3, <1>4, <1>5 DEF SixSteps

\* The empty list has length zero.
LEMMA EmptyHasLengthZero == Len(<<>>) = 0
OBVIOUS

\* A list has a length.
LEMMA LenIs == ASSUME NEW E, NEW s \in Seq(E) PROVE Len(s) \in Nat
OBVIOUS

\* The places the first five steps take, n1 to n5 together: none, none, and
\* what the last three may.
PlacesTaken(n1, n2, n3, n4, n5, m, fresh, four, five, limit) ==
  /\ n1 \in Nat /\ n2 \in Nat /\ n3 \in Nat /\ n4 \in Nat /\ n5 \in Nat /\ m \in Nat
  /\ fresh \in 0..1 /\ four \in 2..3 /\ five \in 0..2 /\ fresh + four + five < limit
  /\ n1 <= 0 + 0 /\ n2 <= n1 + 0 /\ n3 <= n2 + m /\ n4 <= n3 + four /\ n5 <= n4 + five
  /\ m <= fresh

\* They leave one.
LEMMA PlacesLeft ==
  ASSUME NEW n1, NEW n2, NEW n3, NEW n4, NEW n5, NEW m,
         NEW fresh, NEW four, NEW five, NEW limit \in Nat,
         PlacesTaken(n1, n2, n3, n4, n5, m, fresh, four, five, limit)
  PROVE  n5 < limit
BY DEF PlacesTaken

\* In depth a selection of a region and the world, of at least five sources,
\* has the best global page.
LEMMA WorldIsHeard ==
  ASSUME NEW r \in PickRequest, r.want.deep, r.want.scope = "local-first",
         r.found.direct = 0, r.found.official = 0, r.found.global > 0, LeavesRoom(r),
         NEW now, now = Selection(r)
  PROVE  Has(now, Source("global", 1))
<1>1. LocalScope(r)
  BY RequestParts DEF LocalScope
<1>2. PICK limit \in 1..8 : limit = SourceLimit(r)
  BY SourceLimitIs
<1>3. PICK steps : steps = LocalSteps(r)
  OBVIOUS
<1>4. IsSteps(Item, steps) /\ Len(steps) = 11 /\ limit \in Nat
  BY <1>3, LocalStepsAdd DEF AddsAll
<1>5. PICK fresh, four, five, first :
        /\ fresh = (IF r.asks.fresh THEN 1 ELSE 0) /\ four = (IF limit <= 5 THEN 2 ELSE 3)
        /\ five = (IF r.asks.priceOnly THEN 0 ELSE IF limit <= 5 THEN 1 ELSE 2)
        /\ first = Source("global", 1)
  OBVIOUS
<1>6. /\ fresh \in 0..1 /\ four \in 2..3 /\ five \in 0..2 /\ fresh + four + five < limit
      /\ four > 0 /\ (five = 0 \/ five > 0)
  <2>1. r.asks.fresh \in BOOLEAN /\ r.asks.priceOnly \in BOOLEAN
    BY RequestParts
  <2>2. limit >= 5 /\ (limit = 6 => ~r.asks.fresh \/ r.asks.priceOnly)
    BY <1>2 DEF LeavesRoom
  <2> QED
    BY <1>5, <2>1, <2>2
<1>7. PICK direct, official, markets, social, world \in Seq(Item) :
        /\ direct = Direct(r) /\ official = Official(r) /\ markets = LocalCurrent(r)
        /\ social = LocalSocial(r) /\ world = GlobalWeb(r)
  BY FoundLists
<1>8. /\ Len(direct) = 0 /\ Len(official) = 0 /\ Len(markets) <= fresh
      /\ five = 0 => Len(social) = 0
      /\ Len(world) > 0 /\ world[1] = first
  <2>1. Len(direct) = 0 /\ Len(official) = 0 /\ Len(world) > 0 /\ world[1] = first
    BY <1>5, <1>7, FoundLists
  <2>2. Len(markets) <= fresh
    BY <1>5, <1>7, FoundLists
  <2>3. five = 0 => r.asks.priceOnly
    BY <1>5
  <2>4. r.asks.priceOnly => Len(social) = 0
    BY <1>7, FoundLists
  <2> QED
    BY <2>1, <2>2, <2>3, <2>4
<1>9. /\ steps[1] = <<direct, 0>> /\ steps[2] = <<official, 2>> /\ steps[3] = <<markets, 1>>
      /\ steps[4] = <<LocalWeb(r), four>> /\ steps[5] = <<social, five>> /\ steps[6][1] = world
  BY <1>2, <1>3, <1>5, <1>7, LocalStepsAdd
<1>10. now = Fill(limit, steps)
  BY <1>1, <1>2, <1>3 DEF Selection
<1>11. PICK s1, s2, s3, s4, s5, s6 \in Seq(Item) :
         /\ Appended(<<>>, steps[1][1], steps[1][2], limit, s1)
         /\ Appended(s1, steps[2][1], steps[2][2], limit, s2)
         /\ Appended(s2, steps[3][1], steps[3][2], limit, s3)
         /\ Appended(s3, steps[4][1], steps[4][2], limit, s4)
         /\ Appended(s4, steps[5][1], steps[5][2], limit, s5)
         /\ Appended(s5, steps[6][1], steps[6][2], limit, s6)
         /\ \A x : Has(s6, x) => Has(now, x)
  <2>1. SixSteps(Item, steps, limit, now)
    BY <1>4, <1>10, FirstSix
  <2> QED
    BY <2>1 DEF SixSteps
<1>12. /\ Appended(<<>>, direct, 0, limit, s1) /\ Appended(s1, official, 2, limit, s2)
       /\ Appended(s2, markets, 1, limit, s3) /\ Appended(s3, LocalWeb(r), four, limit, s4)
       /\ Appended(s4, social, five, limit, s5) /\ Appended(s5, world, steps[6][2], limit, s6)
  BY <1>9, <1>11
<1>13. /\ Len(s1) <= 0 + Len(direct) /\ Len(s2) <= Len(s1) + Len(official)
       /\ Len(s3) <= Len(s2) + Len(markets) /\ Len(s4) <= Len(s3) + four
       /\ Len(s5) <= Len(s4) + five
  <2>1. Len(s1) <= 0 + Len(direct) /\ Len(s2) <= Len(s1) + Len(official) /\ Len(s3) <= Len(s2) + Len(markets)
    <3>1. Len(s1) <= Len(<<>>) + Len(direct)
      BY <1>12, AppendsAtMost, Zenon
    <3>2. Len(s2) <= Len(s1) + Len(official)
      BY <1>12, AppendsAtMost, Zenon
    <3>3. Len(s3) <= Len(s2) + Len(markets)
      BY <1>12, AppendsAtMost, Zenon
    <3> QED
      BY <3>1, <3>2, <3>3, EmptyHasLengthZero, Zenon
  <2>2. four > 0 /\ (five = 0 \/ five > 0)
    BY <1>6, Zenon
  <2>3. Len(s4) <= Len(s3) + four
    BY <1>12, <2>2, AppendsAtMost, Zenon
  <2>4. Len(s5) <= Len(s4) + five
    <3>1. CASE five > 0
      BY <1>12, <3>1, AppendsAtMost, Zenon
    <3>2. CASE five = 0
      <4>1. Len(s5) <= Len(s4) + Len(social)
        BY <1>12, AppendsAtMost, Zenon
      <4>2. Len(social) = five
        BY <1>8, <3>2, Zenon
      <4> QED
        BY <4>1, <4>2, Zenon
    <3> QED
      BY <2>2, <3>1, <3>2, Zenon
  <2> QED
    BY <2>1, <2>3, <2>4, Zenon
<1>14. Len(s5) < limit
  <2>1. Len(s1) \in Nat /\ Len(s2) \in Nat /\ Len(s3) \in Nat
    BY LenIs, Zenon
  <2>2. Len(s4) \in Nat /\ Len(s5) \in Nat /\ Len(markets) \in Nat
    BY LenIs, Zenon
  <2>3. /\ Len(s1) <= 0 + 0 /\ Len(s2) <= Len(s1) + 0 /\ Len(s3) <= Len(s2) + Len(markets)
        /\ Len(s4) <= Len(s3) + four /\ Len(s5) <= Len(s4) + five
    BY <1>8, <1>13, Zenon
  <2>4. PlacesTaken(Len(s1), Len(s2), Len(s3), Len(s4), Len(s5), Len(markets),
                    fresh, four, five, limit)
    BY <1>6, <1>8, <2>1, <2>2, <2>3, Zenon DEF PlacesTaken
  <2> QED
    BY <1>4, <2>4, PlacesLeft, Zenon
<1>15. Has(s6, first)
  BY <1>8, <1>12, <1>14 DEF Appended
<1> QED
  BY <1>5, <1>11, <1>15

-----------------------------------------------------------------------------
(* The plan.                                                                *)

\* The loop of add, turn by turn.
LEMMA PlanRuns ==
  ASSUME NEW E, NEW more \in Seq(E), NEW budget \in Nat, NEW now, now = WithinBudget(budget, more)
  PROVE  \E seqs \in [0..Len(more) -> Seq(E)] :
           /\ seqs[0] = <<>> /\ now = seqs[Len(more)]
           /\ \A n \in 1..Len(more) : seqs[n] = AppendRow(seqs[n - 1], more[n], budget)
<1>1. AtMost(<<>>, 0, budget) = budget
  BY DEF AtMost
<1>2. Runs(E, <<>>, more, 0, budget)
  <2>1. PICK list, none : list = <<>> /\ none = 0
    OBVIOUS
  <2>2. list \in Seq(E) /\ none \in Nat
    BY <2>1
  <2>3. Runs(E, list, more, none, budget)
    BY <2>2, KeptRuns
  <2> QED
    BY <2>1, <2>3
<1>3. PICK seqs \in [0..Len(more) -> Seq(E)] :
        Kept(<<>>, more, budget, seqs) /\ now = seqs[Len(more)]
  BY <1>1, <1>2 DEF Runs, WithinBudget
<1>4. Len(more) \in Nat
  OBVIOUS
<1>5. seqs[0] = <<>> /\ \A n \in 1..Len(more) : seqs[n] = AppendRow(seqs[n - 1], more[n], budget)
  BY <1>3, <1>4 DEF Kept
<1> QED
  BY <1>3, <1>5

\* The first query is the first of the plan.
LEMMA FirstQuery ==
  ASSUME NEW E, NEW more \in Seq(E), Len(more) > 0, NEW budget \in Nat, budget > 0,
         NEW now, now = WithinBudget(budget, more)
  PROVE  Len(now) > 0 /\ now[1] = more[1]
<1>1. PICK seqs \in [0..Len(more) -> Seq(E)] :
        /\ seqs[0] = <<>> /\ now = seqs[Len(more)]
        /\ \A n \in 1..Len(more) : seqs[n] = AppendRow(seqs[n - 1], more[n], budget)
  BY PlanRuns
<1>2. Len(more) \in Nat
  OBVIOUS
<1> DEFINE Good == {n \in 0..Len(more) : n > 0 => Len(seqs[n]) > 0 /\ seqs[n][1] = more[1]}
<1>3. 0 \in Good
  BY <1>2
<1>4. ASSUME NEW n \in 0..Len(more), n < Len(more), n \in Good PROVE n + 1 \in Good
  <2>1. n + 1 \in 1..Len(more) /\ (n + 1) - 1 = n /\ n + 1 \in 0..Len(more)
    BY <1>2, <1>4
  <2>2. seqs[n + 1] = AppendRow(seqs[n], more[n + 1], budget)
    BY <1>1, <2>1
  <2>3. PICK before, after \in Seq(E) : before = seqs[n] /\ after = seqs[n + 1]
    BY <2>1
  <2>4. more[n + 1] \in E /\ after = AppendRow(before, more[n + 1], budget)
    BY <2>1, <2>2, <2>3
  <2>5. Len(after) > 0 /\ after[1] = more[1]
    <3>1. \/ after = before /\ (Len(before) >= budget \/ Has(before, more[n + 1]))
          \/ /\ Len(before) < budget /\ ~Has(before, more[n + 1])
             /\ Len(after) = Len(before) + 1 /\ after[Len(after)] = more[n + 1]
             /\ \A i \in 1..Len(before) : after[i] = before[i]
      BY <2>4, OneRow
    <3>2. CASE n = 0
      <4>1. Len(before) = 0
        BY <1>1, <2>3, <3>2
      <4> QED
        BY <3>1, <3>2, <4>1 DEF Has
    <3>3. CASE n > 0
      <4>1. Len(before) > 0 /\ before[1] = more[1]
        BY <1>4, <2>3, <3>3
      <4> QED
        BY <3>1, <4>1
    <3> QED
      BY <3>2, <3>3
  <2> QED
    BY <2>1, <2>3, <2>5
<1>5. \A n \in 0..Len(more) : n \in Good
  <2> HIDE DEF Good
  <2> QED
    BY <1>2, <1>3, <1>4, EveryTurn
<1> QED
  BY <1>1, <1>2, <1>5

\* Of different queries the plan has the first, as many as the budget allows.
LEMMA FirstQueries ==
  ASSUME NEW E, NEW more \in Seq(E), NoneTwice(more), NEW budget \in Nat,
         NEW now, now = WithinBudget(budget, more)
  PROVE  /\ Len(now) = (IF Len(more) <= budget THEN Len(more) ELSE budget)
         /\ \A i \in 1..Len(now) : now[i] = more[i]
<1>1. PICK seqs \in [0..Len(more) -> Seq(E)] :
        /\ seqs[0] = <<>> /\ now = seqs[Len(more)]
        /\ \A n \in 1..Len(more) : seqs[n] = AppendRow(seqs[n - 1], more[n], budget)
  BY PlanRuns
<1>2. Len(more) \in Nat
  OBVIOUS
<1> DEFINE Good == {n \in 0..Len(more) : /\ Len(seqs[n]) = (IF n <= budget THEN n ELSE budget)
                                         /\ \A i \in 1..Len(seqs[n]) : seqs[n][i] = more[i]}
<1>3. 0 \in Good
  BY <1>1, <1>2
<1>4. ASSUME NEW n \in 0..Len(more), n < Len(more), n \in Good PROVE n + 1 \in Good
  <2>1. n + 1 \in 1..Len(more) /\ (n + 1) - 1 = n /\ n + 1 \in 0..Len(more) /\ n \in Nat
    BY <1>2, <1>4
  <2>2. seqs[n + 1] = AppendRow(seqs[n], more[n + 1], budget)
    BY <1>1, <2>1
  <2>3. PICK before, after \in Seq(E) : before = seqs[n] /\ after = seqs[n + 1]
    BY <2>1
  <2>4. more[n + 1] \in E /\ after = AppendRow(before, more[n + 1], budget)
    BY <2>1, <2>2, <2>3
  <2>5. /\ Len(before) = (IF n <= budget THEN n ELSE budget)
        /\ \A i \in 1..Len(before) : before[i] = more[i]
    BY <1>4, <2>3
  <2>6. Len(before) \in Nat /\ Len(before) <= n
    BY <2>1, <2>5
  <2>7. ~Has(before, more[n + 1])
    <3> SUFFICES ASSUME NEW i \in 1..Len(before), before[i] = more[n + 1] PROVE FALSE
      BY DEF Has
    <3>1. i \in 1..Len(more) /\ i # n + 1 /\ more[i] = more[n + 1]
      BY <1>2, <2>1, <2>5, <2>6
    <3> QED
      BY <2>1, <3>1 DEF NoneTwice
  <2>8. \/ after = before /\ Len(before) >= budget
        \/ /\ Len(before) < budget
           /\ Len(after) = Len(before) + 1 /\ after[Len(after)] = more[n + 1]
           /\ \A i \in 1..Len(before) : after[i] = before[i]
    BY <2>4, <2>7, OneRow
  <2>9. /\ Len(after) = (IF n + 1 <= budget THEN n + 1 ELSE budget)
        /\ \A i \in 1..Len(after) : after[i] = more[i]
    <3>1. CASE after = before /\ Len(before) >= budget
      BY <2>1, <2>5, <2>6, <3>1
    <3>2. CASE /\ Len(before) < budget
               /\ Len(after) = Len(before) + 1 /\ after[Len(after)] = more[n + 1]
               /\ \A i \in 1..Len(before) : after[i] = before[i]
      <4>1. Len(before) = n
        BY <2>5, <3>2
      <4> QED
        BY <2>1, <2>5, <3>2, <4>1
    <3> QED
      BY <2>8, <3>1, <3>2
  <2> QED
    BY <2>1, <2>3, <2>9
<1>5. \A n \in 0..Len(more) : n \in Good
  <2> HIDE DEF Good
  <2> QED
    BY <1>2, <1>3, <1>4, EveryTurn
<1> QED
  BY <1>1, <1>2, <1>5

QueryName == {"left thai", "right thai", "left", "right", "left vs right", "site of the field",
              "entity thai", "distributor", "question thai", "community thai", "specifications",
              "question", "site", "host"}

Queries == [name : QueryName, region : {"TH", "GLOBAL"}]

Asks(plan, n) == \E i \in 1..Len(plan) : plan[i].name = n

\* A plan is of its queries, and within the budget.
LEMMA PlanWithin ==
  ASSUME NEW E, NEW more \in Seq(E), NEW budget \in Nat, NEW plan, plan = WithinBudget(budget, more)
  PROVE  plan \in Seq(E) /\ Len(plan) <= budget
<1>0. PICK list, none : list = <<>> /\ none = 0
  OBVIOUS
<1>1. list \in Seq(E) /\ none \in Nat /\ Len(list) = 0
  BY <1>0
<1>2. plan = AppendRowsN(list, more, none, budget) /\ Len(list) <= budget
  BY <1>0, <1>1 DEF WithinBudget
<1>3. plan \in Seq(E) /\ Appended(list, more, none, budget, plan)
  BY <1>1, <1>2, AppendRowsNAppends
<1> QED
  BY <1>3 DEF Appended

\* What PlanFitsTheQuestion says of a plan.
PlanFits(r, plan) ==
  /\ Len(plan) \in 1..4
  /\ r.asks.priceOnly /\ ~r.topic.comparison => Len(plan) <= 2 /\ ~Asks(plan, "community thai")
  /\ LocalScope(r) => plan[1].region = "TH"
  /\ Asks(plan, "left thai") <=> Asks(plan, "right thai")
  /\ Asks(plan, "left") <=> Asks(plan, "right")

\* What a request for a plan is made of.
LEMMA PlanRequestParts ==
  ASSUME NEW r \in PlanRequest
  PROVE  /\ r.kind = "plan"
         /\ r.want.thai \in BOOLEAN /\ r.want.deep \in BOOLEAN
         /\ r.want.scope \in {"local-first", "local-only", "global"}
         /\ ~r.want.thai => r.want.scope = "global"
         /\ r.asks.social \in BOOLEAN /\ r.asks.priceOnly \in BOOLEAN
         /\ r.topic.comparison \in BOOLEAN /\ r.topic.entity \in BOOLEAN
         /\ r.topic.variants \in 1..3
<1>1. r.kind = "plan" /\ r.want \in Preference /\ r.asks \in Intent /\ r.topic \in Topic
  BY DEF PlanRequest
<1>2. /\ r.want.thai \in BOOLEAN /\ r.want.deep \in BOOLEAN
      /\ r.want.scope \in {"local-first", "local-only", "global"}
      /\ ~r.want.thai => r.want.scope = "global"
  BY <1>1 DEF Preference
<1>3. r.asks.social \in BOOLEAN /\ r.asks.priceOnly \in BOOLEAN
  BY <1>1 DEF Intent
<1>4. r.topic.comparison \in BOOLEAN /\ r.topic.entity \in BOOLEAN /\ r.topic.variants \in 1..3
  BY <1>1 DEF Topic
<1> QED
  BY <1>1, <1>2, <1>3, <1>4

\* The first rows of a list, as many as the budget allows.
FirstOf(more, budget, plan) ==
  /\ Len(plan) = (IF Len(more) <= budget THEN Len(more) ELSE budget)
  /\ \A i \in 1..Len(plan) : plan[i] = more[i]

\* Of different queries the plan has those.
LEMMA PlanHas ==
  ASSUME NEW E, NEW more \in Seq(E), NoneTwice(more), NEW budget \in Nat,
         NEW plan, plan = WithinBudget(budget, more)
  PROVE  FirstOf(more, budget, plan)
BY FirstQueries DEF FirstOf

\* Three or five queries, of which no two are the same.
Different(more, n) ==
  more \in Seq(Queries) /\ Len(more) = n /\ \A i, j \in 1..n : i # j => more[i] # more[j]

\* Of five the plan has four.
LEMMA FourOfFive ==
  ASSUME NEW more, Different(more, 5), NEW plan, plan = WithinBudget(4, more)
  PROVE  Len(plan) = 4 /\ plan[1] = more[1] /\ plan[2] = more[2] /\ plan[3] = more[3] /\ plan[4] = more[4]
<1>1. more \in Seq(Queries) /\ Len(more) = 5 /\ NoneTwice(more)
  BY DEF Different, NoneTwice
<1>2. PICK budget \in Nat : budget = 4
  OBVIOUS
<1>3. plan = WithinBudget(budget, more)
  BY <1>2
<1>4. FirstOf(more, budget, plan)
  BY <1>1, <1>3, PlanHas
<1>5. Len(plan) = 4
  BY <1>1, <1>2, <1>4 DEF FirstOf
<1>6. 1 \in 1..4 /\ 2 \in 1..4 /\ 3 \in 1..4 /\ 4 \in 1..4
  OBVIOUS
<1> QED
  BY <1>4, <1>5, <1>6 DEF FirstOf

\* Of three it has all.
LEMMA ThreeOfThree ==
  ASSUME NEW more, Different(more, 3), NEW plan, plan = WithinBudget(4, more)
  PROVE  Len(plan) = 3 /\ plan[1] = more[1] /\ plan[2] = more[2] /\ plan[3] = more[3]
<1>1. more \in Seq(Queries) /\ Len(more) = 3 /\ NoneTwice(more)
  BY DEF Different, NoneTwice
<1>2. PICK budget \in Nat : budget = 4
  OBVIOUS
<1>3. plan = WithinBudget(budget, more)
  BY <1>2
<1>4. FirstOf(more, budget, plan)
  BY <1>1, <1>3, PlanHas
<1>5. Len(plan) = 3
  BY <1>1, <1>2, <1>4 DEF FirstOf
<1>6. 1 \in 1..3 /\ 2 \in 1..3 /\ 3 \in 1..3
  OBVIOUS
<1> QED
  BY <1>4, <1>5, <1>6 DEF FirstOf

\* A comparison asks for both sides wherever it asks for one.
LEMMA ComparisonFits ==
  ASSUME NEW r \in PlanRequest, r.topic.comparison, NEW plan, plan = ComparisonPlan(r)
  PROVE  PlanFits(r, plan)
<1>1. PICK a, b, c, d, e \in Queries :
        /\ a = Query("left thai", "TH") /\ b = Query("right thai", "TH")
        /\ c = Query("left", "GLOBAL") /\ d = Query("right", "GLOBAL")
        /\ e = Query("left vs right", "GLOBAL")
  BY DEF Query, Queries, QueryName
<1>2. /\ a.name = "left thai" /\ b.name = "right thai" /\ c.name = "left" /\ d.name = "right"
      /\ e.name = "left vs right" /\ a.region = "TH"
  BY <1>1 DEF Query
<1>3. /\ a # b /\ a # c /\ a # d /\ a # e /\ b # c /\ b # d /\ b # e
      /\ c # d /\ c # e /\ d # e
  BY <1>2
<1>4. PICK local, global : local = LocalScope(r) /\ global = (r.want.scope # "local-only")
  OBVIOUS
<1>5. local \in BOOLEAN /\ global \in BOOLEAN /\ (local \/ global)
  BY <1>4, PlanRequestParts DEF LocalScope
<1>6. PICK more : more = When(local, <<a, b>>) \o When(global, <<c, d>>) \o <<e>>
  OBVIOUS
<1>7. plan = WithinBudget(4, more)
  BY <1>1, <1>4, <1>6 DEF ComparisonPlan
<1>8. 1..3 = {1, 2, 3} /\ 1..4 = {1, 2, 3, 4}
  OBVIOUS
<1>9. CASE local /\ global
  <2>1. more = <<a, b>> \o <<c, d>> \o <<e>>
    BY <1>6, <1>9 DEF When
  <2>2. /\ more \in Seq(Queries) /\ Len(more) = 5
        /\ more[1] = a /\ more[2] = b /\ more[3] = c /\ more[4] = d /\ more[5] = e
    BY <2>1
  <2>3. Different(more, 5)
    <3>1. SUFFICES ASSUME NEW i \in 1..5, NEW j \in 1..5, i # j
                   PROVE  more[i] # more[j]
      BY <2>2 DEF Different
    <3>2. i \in {1, 2, 3, 4, 5} /\ j \in {1, 2, 3, 4, 5}
      OBVIOUS
    <3> QED
      BY <1>3, <2>2, <3>1, <3>2
  <2>4. Len(plan) = 4 /\ plan[1] = a /\ plan[2] = b /\ plan[3] = c /\ plan[4] = d
    BY <1>7, <2>2, <2>3, FourOfFive
  <2> QED
    BY <1>2, <1>8, <2>4 DEF PlanFits, Asks
<1>10. CASE ~(local /\ global)
  <2>1. PICK f, g : (f = a /\ g = b /\ local /\ ~global) \/ (f = c /\ g = d /\ ~local /\ global)
    BY <1>5, <1>10
  <2>2. f \in Queries /\ g \in Queries /\ f # g /\ f # e /\ g # e
    BY <1>3, <2>1
  <2>3. more = <<f, g>> \o <<>> \o <<e>> \/ more = <<>> \o <<f, g>> \o <<e>>
    BY <1>6, <2>1 DEF When
  <2>4. more \in Seq(Queries) /\ Len(more) = 3 /\ more[1] = f /\ more[2] = g /\ more[3] = e
    <3>1. CASE more = <<f, g>> \o <<>> \o <<e>>
      BY <2>2, <3>1
    <3>2. CASE more = <<>> \o <<f, g>> \o <<e>>
      BY <2>2, <3>2
    <3> QED
      BY <2>3, <3>1, <3>2
  <2>5. Different(more, 3)
    <3>1. SUFFICES ASSUME NEW i \in 1..3, NEW j \in 1..3, i # j
                   PROVE  more[i] # more[j]
      BY <2>4 DEF Different
    <3>2. i \in {1, 2, 3} /\ j \in {1, 2, 3}
      OBVIOUS
    <3> QED
      BY <2>2, <2>4, <3>1, <3>2
  <2>6. Len(plan) = 3 /\ plan[1] = f /\ plan[2] = g /\ plan[3] = e
    BY <1>7, <2>4, <2>5, ThreeOfThree
  <2>7. Len(plan) \in 1..4 /\ (LocalScope(r) => plan[1].region = "TH")
    <3>1. local => plan[1].region = "TH"
      BY <1>2, <2>1, <2>6
    <3> QED
      BY <1>4, <2>6, <3>1
  <2>8. \/ f.name = "left thai" /\ g.name = "right thai" /\ e.name = "left vs right"
        \/ f.name = "left" /\ g.name = "right" /\ e.name = "left vs right"
    BY <1>2, <2>1
  <2>9. /\ Asks(plan, "left thai") <=> Asks(plan, "right thai")
        /\ Asks(plan, "left") <=> Asks(plan, "right")
    <3>1. CASE f.name = "left thai" /\ g.name = "right thai" /\ e.name = "left vs right"
      BY <1>8, <2>6, <3>1 DEF Asks
    <3>2. CASE f.name = "left" /\ g.name = "right" /\ e.name = "left vs right"
      BY <1>8, <2>6, <3>2 DEF Asks
    <3> QED
      BY <2>8, <3>1, <3>2
  <2> QED
    BY <2>7, <2>9 DEF PlanFits
<1> QED
  BY <1>9, <1>10

\* Queries that are not of a comparison, none to communities for a price.
Usual(r) == {q \in Queries : /\ q.name \notin {"left thai", "right thai", "left", "right"}
                             /\ r.asks.priceOnly => q.name # "community thai"}

\* The local ones.
Thai(r) == {q \in Usual(r) : q.region = "TH"}

\* Short lists.
LEMMA NoQuery == ASSUME NEW E, NEW more, more = <<>> PROVE more \in Seq(E) /\ Len(more) = 0
OBVIOUS

\* One query.
LEMMA OneQuery == ASSUME NEW E, NEW x \in E, NEW more, more = <<x>> PROVE more \in Seq(E) /\ Len(more) = 1
OBVIOUS

\* Two queries.
LEMMA TwoQueries ==
  ASSUME NEW E, NEW x \in E, NEW y \in E, NEW more, more = <<x, y>>
  PROVE  more \in Seq(E) /\ Len(more) = 2
OBVIOUS

\* One list after the other.
LEMMA Joined ==
  ASSUME NEW E, NEW a \in Seq(E), NEW b \in Seq(E), NEW more, more = a \o b
  PROVE  more \in Seq(E) /\ Len(more) = Len(a) + Len(b) /\ (Len(a) > 0 => more[1] = a[1])
OBVIOUS

\* The lists are not empty if one of them is not.
LEMMA JoinedSome ==
  ASSUME NEW E, NEW a \in Seq(E), NEW b \in Seq(E), Len(a) > 0 \/ Len(b) > 0
  PROVE  a \o b \in Seq(E) /\ Len(a \o b) > 0
OBVIOUS

\* The variants of a question.
LEMMA VariantsAre ==
  ASSUME NEW r \in PlanRequest, NEW more, more = Variants(r)
  PROVE  more \in Seq(Usual(r)) /\ Len(more) > 0
<1>1. PICK E : E = Usual(r)
  OBVIOUS
<1>2. PICK a, b, c \in E : /\ a = Query("question", "GLOBAL") /\ b = Query("site", "GLOBAL")
                          /\ c = Query("host", "GLOBAL")
  BY <1>1 DEF Query, Usual, Queries, QueryName
<1>3. PICK n \in 1..3 : n = r.topic.variants
  BY PlanRequestParts
<1>4. more = SubSeq(<<a, b, c>>, 1, n)
  BY <1>2, <1>3 DEF Variants
<1>5. more \in Seq(E) /\ Len(more) = n
  BY <1>4
<1> QED
  BY <1>1, <1>5

\* The local queries of a plan.
LocalPart(r) ==
  When(r.topic.field # "any", <<Query("site of the field", "TH")>>)
  \o (IF r.topic.entity THEN <<Query("entity thai", "TH"), Query("distributor", "TH")>>
                        ELSE <<Query("question thai", "TH")>>)
  \o When(~r.asks.priceOnly /\ (r.want.deep \/ r.asks.social), <<Query("community thai", "TH")>>)

\* There are some.
LEMMA LocalQueries ==
  ASSUME NEW r \in PlanRequest,
         NEW more, more = LocalPart(r)
  PROVE  more \in Seq(Thai(r)) /\ Len(more) > 0
<1>1. PICK E : E = Thai(r)
  OBVIOUS
<1>2. /\ Query("site of the field", "TH") \in E /\ Query("entity thai", "TH") \in E
      /\ Query("distributor", "TH") \in E /\ Query("question thai", "TH") \in E
      /\ ~r.asks.priceOnly => Query("community thai", "TH") \in E
  BY <1>1 DEF Query, Thai, Usual, Queries, QueryName
<1>3. PICK a : a = When(r.topic.field # "any", <<Query("site of the field", "TH")>>)
  OBVIOUS
<1>4. PICK b : b = IF r.topic.entity THEN <<Query("entity thai", "TH"), Query("distributor", "TH")>>
                                     ELSE <<Query("question thai", "TH")>>
  OBVIOUS
<1>5. PICK c : c = When(~r.asks.priceOnly /\ (r.want.deep \/ r.asks.social), <<Query("community thai", "TH")>>)
  OBVIOUS
<1>6. a \in Seq(E)
  <2>1. CASE r.topic.field # "any"
    BY <1>2, <1>3, <2>1, OneQuery DEF When
  <2>2. CASE ~(r.topic.field # "any")
    BY <1>3, <2>2, NoQuery DEF When
  <2> QED
    BY <2>1, <2>2
<1>7. b \in Seq(E) /\ Len(b) > 0
  <2>1. CASE r.topic.entity
    <3>1. PICK x, y : x = Query("entity thai", "TH") /\ y = Query("distributor", "TH")
      OBVIOUS
    <3>2. x \in E /\ y \in E /\ b = <<x, y>>
      BY <1>2, <1>4, <2>1, <3>1
    <3>3. b \in Seq(E) /\ Len(b) = 2
      BY <3>2, TwoQueries
    <3> QED
      BY <3>3
  <2>2. CASE ~r.topic.entity
    <3>1. PICK x : x = Query("question thai", "TH")
      OBVIOUS
    <3>2. x \in E /\ b = <<x>>
      BY <1>2, <1>4, <2>2, <3>1
    <3>3. b \in Seq(E) /\ Len(b) = 1
      BY <3>2, OneQuery
    <3> QED
      BY <3>3
  <2> QED
    BY <2>1, <2>2
<1>8. c \in Seq(E)
  <2>1. CASE ~r.asks.priceOnly /\ (r.want.deep \/ r.asks.social)
    BY <1>2, <1>5, <2>1, OneQuery DEF When
  <2>2. CASE ~(~r.asks.priceOnly /\ (r.want.deep \/ r.asks.social))
    BY <1>5, <2>2, NoQuery DEF When
  <2> QED
    BY <2>1, <2>2
<1>9. a \o b \in Seq(E) /\ Len(a \o b) > 0
  BY <1>6, <1>7, JoinedSome
<1>10. (a \o b) \o c \in Seq(E) /\ Len((a \o b) \o c) > 0
  BY <1>8, <1>9, JoinedSome
<1>11. more = (a \o b) \o c
  BY <1>3, <1>4, <1>5 DEF LocalPart
<1> QED
  BY <1>1, <1>10, <1>11

\* A plan of such queries, within the budget, that begins at home.
UsualPlan(r, plan, budget) ==
  /\ plan \in Seq(Usual(r)) /\ Len(plan) > 0 /\ Len(plan) <= budget
  /\ budget <= 4 /\ (r.asks.priceOnly => budget = 2)
  /\ LocalScope(r) => plan[1].region = "TH"

\* Such a plan fits.
LEMMA UsualFits ==
  ASSUME NEW r \in PlanRequest, ~r.topic.comparison, NEW plan, NEW budget \in Nat, UsualPlan(r, plan, budget)
  PROVE  PlanFits(r, plan)
<1>1. PICK n \in Nat : n = Len(plan)
  BY DEF UsualPlan
<1>2. n > 0 /\ n <= budget /\ budget <= 4 /\ (r.asks.priceOnly => budget = 2)
  BY <1>1 DEF UsualPlan
<1>3. n \in 1..4 /\ (r.asks.priceOnly => n <= 2)
  BY <1>2
<1>4. \A i \in 1..n : plan[i] \in Usual(r)
  BY <1>1 DEF UsualPlan
<1>5. ASSUME NEW i \in 1..n
      PROVE  /\ plan[i].name # "left thai" /\ plan[i].name # "right thai"
             /\ plan[i].name # "left" /\ plan[i].name # "right"
             /\ r.asks.priceOnly => plan[i].name # "community thai"
  <2>1. PICK q : q = plan[i]
    OBVIOUS
  <2>2. q \in Usual(r)
    BY <1>4, <2>1
  <2>3. q.name \notin {"left thai", "right thai", "left", "right"} /\ (r.asks.priceOnly => q.name # "community thai")
    BY <2>2 DEF Usual
  <2> QED
    BY <2>1, <2>3
<1>6. /\ ~Asks(plan, "left thai") /\ ~Asks(plan, "right thai") /\ ~Asks(plan, "left") /\ ~Asks(plan, "right")
      /\ r.asks.priceOnly => ~Asks(plan, "community thai")
  BY <1>1, <1>5 DEF Asks
<1>7. LocalScope(r) => plan[1].region = "TH"
  BY DEF UsualPlan
<1> QED
  BY <1>1, <1>3, <1>6, <1>7 DEF PlanFits

\* A plan for one question fits it.
LEMMA EntityFits ==
  ASSUME NEW r \in PlanRequest, ~r.topic.comparison, NEW plan, plan = EntityPlan(r)
  PROVE  PlanFits(r, plan)
<1>1. PICK E : E = Usual(r)
  OBVIOUS
<1>2. PICK local : local = LocalPart(r)
  OBVIOUS
<1>3. local \in Seq(E) /\ Len(local) > 0 /\ local[1].region = "TH"
  <2>1. PICK T : T = Thai(r)
    OBVIOUS
  <2>2. local \in Seq(T) /\ Len(local) > 0
    BY <1>2, <2>1, LocalQueries
  <2>3. \A q \in T : q \in E /\ q.region = "TH"
    BY <1>1, <2>1 DEF Thai
  <2> QED
    BY <2>2, <2>3
<1>4. PICK spec \in E : spec = Query("specifications", "GLOBAL")
  BY <1>1 DEF Query, Usual, Queries, QueryName
<1>5. PICK variants : variants = Variants(r) /\ variants \in Seq(E) /\ Len(variants) > 0
  BY <1>1, VariantsAre
<1>6. PICK thai, world : thai = LocalScope(r) /\ world = (~r.asks.priceOnly /\ r.want.scope # "local-only")
  OBVIOUS
<1>7. PICK a, b : a = When(thai, local) /\ b = When(world, <<spec>>)
  OBVIOUS
<1>8. a \in Seq(E) /\ (thai => a = local)
  BY <1>3, <1>7 DEF When
<1>9. b \in Seq(E)
  BY <1>7 DEF When
<1>10. PICK ab : ab = a \o b
  OBVIOUS
<1>11. ab \in Seq(E) /\ Len(ab) = Len(a) + Len(b) /\ (Len(a) > 0 => ab[1] = a[1])
  BY <1>8, <1>9, <1>10, Joined
<1>12. PICK more : more = ab \o variants
  OBVIOUS
<1>13. more \in Seq(E) /\ Len(more) = Len(ab) + Len(variants) /\ (Len(ab) > 0 => more[1] = ab[1])
  <2>1. ab \in Seq(E) /\ variants \in Seq(E)
    BY <1>5, <1>11
  <2> QED
    BY <1>12, <2>1, Joined
<1>14. Len(more) > 0
  BY <1>5, <1>11, <1>13
<1>15. thai => more[1].region = "TH"
  BY <1>3, <1>8, <1>9, <1>11, <1>13
<1>16. PICK budget \in Nat : budget = IF r.asks.priceOnly THEN 2 ELSE 4
  OBVIOUS
<1>17. plan = WithinBudget(budget, more)
  BY <1>2, <1>4, <1>5, <1>6, <1>7, <1>10, <1>12, <1>16 DEF EntityPlan, LocalPart
<1>18. Len(plan) > 0 /\ plan[1] = more[1]
  BY <1>13, <1>14, <1>16, <1>17, FirstQuery
<1>19. plan \in Seq(E) /\ Len(plan) <= budget
  BY <1>13, <1>17, PlanWithin
<1>20. LocalScope(r) => plan[1].region = "TH"
  BY <1>6, <1>15, <1>18
<1>21. budget <= 4 /\ (r.asks.priceOnly => budget = 2)
  BY <1>16
<1>22. UsualPlan(r, plan, budget)
  BY <1>1, <1>18, <1>19, <1>20, <1>21 DEF UsualPlan
<1> QED
  BY <1>22, UsualFits

\* Every plan fits its request.
LEMMA SearchPlanFits ==
  ASSUME NEW r \in PlanRequest, NEW plan, plan = SearchPlan(r)
  PROVE  PlanFits(r, plan)
<1>1. CASE r.topic.comparison
  BY <1>1, ComparisonFits DEF SearchPlan
<1>2. CASE ~r.topic.comparison
  BY <1>2, EntityFits DEF SearchPlan
<1> QED
  BY <1>1, <1>2

\* The sources of a list.
LEMMA RangeHas ==
  ASSUME NEW E, NEW list \in Seq(E), NEW x
  PROVE  x \in Range(list) <=> Has(list, x)
BY CountOfList

\* The communities a request admits.
CommunityOf(r) ==
  IF r.asks.priceOnly THEN {}
  ELSE {s \in Range(List("local social", r.found.localSocial))
                \cup Range(List("global social", r.found.globalSocial)) :
          s.list = "local social" \/ r.want.scope # "local-only"}

\* The sources it admits, as SelectionIsFull names them.
AdmittedOf(r) ==
  Range(Direct(r)) \cup Range(Official(r)) \cup Range(LocalWeb(r))
  \cup (IF r.want.scope = "local-only" THEN {} ELSE Range(GlobalWeb(r)))
  \cup CommunityOf(r)

\* They are those of its lists, in communities too.
LEMMA CommunityIs ==
  ASSUME NEW r \in PickRequest
  PROVE  /\ IsFiniteSet(CommunityOf(r))
         /\ \A x : x \in CommunityOf(r) <=>
                     Has(LocalSocial(r), x) \/ (r.want.scope # "local-only" /\ Has(GlobalSocial(r), x))
<1>1. CASE r.asks.priceOnly
  <2>1. CommunityOf(r) = {} /\ LocalSocial(r) = <<>> /\ GlobalSocial(r) = <<>>
    BY <1>1 DEF CommunityOf, LocalSocial, GlobalSocial
  <2>2. IsFiniteSet({})
    BY FS_EmptySet
  <2> QED
    BY <2>1, <2>2 DEF Has
<1>2. CASE ~r.asks.priceOnly
  <2>1. PICK n, m \in Nat : n = r.found.localSocial /\ m = r.found.globalSocial
    BY RequestParts
  <2>2. PICK a, b : a = List("local social", n) /\ b = List("global social", m)
    OBVIOUS
  <2>3. a = LocalSocial(r) /\ b = GlobalSocial(r)
    BY <1>2, <2>1, <2>2 DEF LocalSocial, GlobalSocial
  <2>4. a \in Seq(Item) /\ \A x : Has(a, x) <=> \E i \in 1..n : x = Source("local social", i)
    <3>1. /\ List("local social", n) \in Seq(Item)
          /\ \A x : Has(List("local social", n), x) <=> \E i \in 1..n : x = Source("local social", i)
      BY ListIs DEF ListName
    <3> QED
      BY <2>2, <3>1
  <2>5. b \in Seq(Item) /\ \A x : Has(b, x) <=> \E i \in 1..m : x = Source("global social", i)
    <3>1. /\ List("global social", m) \in Seq(Item)
          /\ \A x : Has(List("global social", m), x) <=> \E i \in 1..m : x = Source("global social", i)
      BY ListIs DEF ListName
    <3> QED
      BY <2>2, <3>1
  <2>6. CommunityOf(r) = {s \in Range(a) \cup Range(b) : s.list = "local social" \/ r.want.scope # "local-only"}
    BY <1>2, <2>1, <2>2 DEF CommunityOf
  <2>7. /\ \A x : Has(a, x) => x.list = "local social"
        /\ \A x : Has(b, x) => x.list # "local social"
    <3>1. \A i : Source("local social", i).list = "local social" /\ Source("global social", i).list # "local social"
      BY DEF Source
    <3> QED
      BY ZenonT(30), <2>4, <2>5, <3>1
  <2>8. \A x : (x \in Range(a) <=> Has(a, x)) /\ (x \in Range(b) <=> Has(b, x))
    BY <2>4, <2>5, RangeHas
  <2>9. \A x : x \in CommunityOf(r) <=> Has(a, x) \/ (r.want.scope # "local-only" /\ Has(b, x))
    BY <2>6, <2>7, <2>8
  <2>10. IsFiniteSet(CommunityOf(r))
    <3>1. IsFiniteSet(Range(a)) /\ IsFiniteSet(Range(b))
      BY <2>4, <2>5, CountOfList
    <3>2. IsFiniteSet(Range(a) \cup Range(b))
      BY <3>1, FS_Union
    <3> QED
      BY <2>6, <3>2, FS_Subset
  <2> QED
    BY <2>3, <2>9, <2>10
<1> QED
  BY <1>1, <1>2

\* And they are finitely many.
LEMMA AdmittedIs ==
  ASSUME NEW r \in PickRequest
  PROVE  /\ IsFiniteSet(AdmittedOf(r))
         /\ \A x : x \in AdmittedOf(r) <=> Offers(r, x)
<1>1. PICK a, b, c, d : a = Direct(r) /\ b = Official(r) /\ c = LocalWeb(r) /\ d = GlobalWeb(r)
  OBVIOUS
<1>2. a \in Seq(Item) /\ b \in Seq(Item) /\ c \in Seq(Item) /\ d \in Seq(Item)
  BY <1>1, FoundLists
<1>3. IsFiniteSet(Range(a)) /\ IsFiniteSet(Range(b)) /\ IsFiniteSet(Range(c)) /\ IsFiniteSet(Range(d))
  BY <1>2, CountOfList
<1>4. \A x : /\ x \in Range(a) <=> Has(a, x)
             /\ x \in Range(b) <=> Has(b, x)
             /\ x \in Range(c) <=> Has(c, x)
             /\ x \in Range(d) <=> Has(d, x)
  BY <1>2, RangeHas
<1>5. PICK world : world = IF r.want.scope = "local-only" THEN {} ELSE Range(d)
  OBVIOUS
<1>6. IsFiniteSet(world)
  BY <1>3, <1>5, FS_EmptySet
<1>7. \A x : x \in world <=> r.want.scope # "local-only" /\ Has(d, x)
  BY <1>4, <1>5
<1>8. AdmittedOf(r) = Range(a) \cup Range(b) \cup Range(c) \cup world \cup CommunityOf(r)
  BY <1>1, <1>5 DEF AdmittedOf
<1>9. IsFiniteSet(Range(a) \cup Range(b) \cup Range(c) \cup world \cup CommunityOf(r))
  BY <1>3, <1>6, CommunityIs, FS_Union
<1>10. \A x : x \in AdmittedOf(r) <=> Offers(r, x)
  <2>1. \A x : x \in CommunityOf(r) <=>
                 Has(LocalSocial(r), x) \/ (r.want.scope # "local-only" /\ Has(GlobalSocial(r), x))
    BY CommunityIs
  <2> QED
    BY <1>1, <1>4, <1>7, <1>8, <2>1 DEF Offers
<1> QED
  BY <1>8, <1>9, <1>10

\* A selection is as long as the limit or as what is admitted.
LEMMA SelectionCounts ==
  ASSUME NEW r \in PickRequest, NEW now, now = Selection(r)
  PROVE  /\ \A i, j \in 1..Len(now) : i # j => now[i] # now[j]
         /\ Range(now) \subseteq AdmittedOf(r)
         /\ Len(now) = Min({SourceLimit(r), Cardinality(AdmittedOf(r))})
<1>0. PICK all : all = AdmittedOf(r)
  OBVIOUS
<1>1. PICK limit \in Nat : limit = SourceLimit(r) /\ all = AdmittedOf(r)
  BY <1>0, SourceLimitIs
<1>2. /\ now \in Seq(Item) /\ NoneTwice(now) /\ Len(now) <= limit
      /\ \A x : Has(now, x) => Offers(r, x)
      /\ Len(now) >= limit \/ \A x : Offers(r, x) => Has(now, x)
  BY <1>1, SelectionFills
<1>3. /\ IsFiniteSet(Range(now)) /\ Cardinality(Range(now)) = Len(now)
      /\ \A x : x \in Range(now) <=> Has(now, x)
  BY <1>2, CountOfList
<1>4. IsFiniteSet(all) /\ \A x : x \in all <=> Offers(r, x)
  BY <1>1, AdmittedIs
<1>5. Range(now) \subseteq all
  BY <1>2, <1>3, <1>4
<1>6. Cardinality(Range(now)) <= Cardinality(all) /\ Cardinality(all) \in Nat
  BY <1>4, <1>5, FS_Subset, FS_CardinalityType
<1>7. Len(now) >= limit \/ Cardinality(all) = Len(now)
  <2>1. CASE \A x : Offers(r, x) => Has(now, x)
    <3>1. Range(now) = all
      BY <1>3, <1>4, <1>5, <2>1
    <3> QED
      BY <1>3, <3>1
  <2> QED
    BY <1>2, <2>1
<1>8. PICK total, length \in Nat : total = Cardinality(all) /\ length = Len(now)
  BY <1>2, <1>6
<1>9. length <= limit /\ length <= total /\ (length = limit \/ length = total)
  BY <1>2, <1>3, <1>6, <1>7, <1>8
<1>10. length = Min({limit, total})
  <2>1. Min({limit, total}) = CHOOSE x \in {limit, total} : \A y \in {limit, total} : x <= y
    BY DEF Min
  <2>2. length \in {limit, total} /\ \A y \in {limit, total} : length <= y
    BY <1>9
  <2>3. \A x \in {limit, total} : (\A y \in {limit, total} : x <= y) => x = length
    BY <1>9
  <2> QED
    BY <2>1, <2>2, <2>3
<1> QED
  BY <1>1, <1>2, <1>5, <1>8, <1>10 DEF NoneTwice

-----------------------------------------------------------------------------
(* The specification.                                                       *)

\* Nothing is chosen, or what the two functions give.
ChoiceInv ==
  /\ request \in PlanRequest \cup PickRequest
  /\ \/ chosen = <<>>
     \/ chosen = <<IF request.kind = "plan" THEN SearchPlan(request) ELSE Selection(request)>>

\* What is chosen fits.
LEMMA WhatIsChosenFits == ChoiceInv => ChoicesFit
<1> SUFFICES ASSUME ChoiceInv
             PROVE  ChoicesFit
  OBVIOUS
<1>1. CASE chosen = <<>>
  BY <1>1 DEF ChoicesFit, PlanFitsTheQuestion, SelectionIsFull, GlobalCorroborates, Chosen
<1>2. CASE request \in PlanRequest /\ chosen # <<>>
  <2>1. request.kind = "plan"
    BY <1>2, PlanRequestParts
  <2>2. PICK plan : plan = SearchPlan(request)
    OBVIOUS
  <2>3. chosen = <<plan>>
    BY <1>2, <2>1, <2>2 DEF ChoiceInv
  <2>4. Planned = plan
    BY <1>2, <2>1, <2>3 DEF Planned
  <2>5. PlanFits(request, plan)
    BY <1>2, <2>2, SearchPlanFits
  <2>6. \A n : n \in {plan[i].name : i \in 1..Len(plan)} <=> Asks(plan, n)
    BY DEF Asks
  <2>7. PlanFitsTheQuestion
    BY <2>4, <2>5, <2>6 DEF PlanFitsTheQuestion, PlanFits
  <2> QED
    BY <2>1, <2>7 DEF ChoicesFit, SelectionIsFull, GlobalCorroborates
<1>3. CASE request \in PickRequest /\ chosen # <<>>
  <2>1. request.kind = "pick"
    BY <1>3, RequestParts
  <2>2. PICK choice : choice = Selection(request)
    OBVIOUS
  <2>3. chosen = <<choice>>
    BY <1>3, <2>1, <2>2 DEF ChoiceInv
  <2>4. Picked = choice
    BY <1>3, <2>1, <2>3 DEF Picked
  <2>5. SelectionIsFull
    <3>1. /\ \A i, j \in 1..Len(choice) : i # j => choice[i] # choice[j]
          /\ Range(choice) \subseteq AdmittedOf(request)
          /\ Len(choice) = Min({SourceLimit(request), Cardinality(AdmittedOf(request))})
      <4>1. PICK r \in PickRequest : r = request
        BY <1>3
      <4>2. /\ \A i, j \in 1..Len(choice) : i # j => choice[i] # choice[j]
            /\ Range(choice) \subseteq AdmittedOf(r)
            /\ Len(choice) = Min({SourceLimit(r), Cardinality(AdmittedOf(r))})
        BY <2>2, <4>1, SelectionCounts
      <4> QED
        BY <4>1, <4>2
    <3> QED
      BY <2>4, <3>1 DEF SelectionIsFull, AdmittedOf, CommunityOf
  <2>6. GlobalCorroborates
    <3> SUFFICES ASSUME request.want.deep, request.want.scope = "local-first",
                        request.found.direct = 0, request.found.official = 0,
                        request.found.global > 0, LeavesRoom(request)
                 PROVE  "global" \in Lists(choice)
      BY <2>4 DEF GlobalCorroborates
    <3>1. Has(choice, Source("global", 1))
      BY <1>3, <2>2, WorldIsHeard
    <3>2. PICK i \in 1..Len(choice) : choice[i] = Source("global", 1)
      BY <3>1 DEF Has
    <3>3. choice[i].list = "global"
      BY <3>2 DEF Source
    <3> QED
      BY <3>3 DEF Lists
  <2> QED
    BY <2>1, <2>5, <2>6 DEF ChoicesFit, PlanFitsTheQuestion
<1> QED
  BY <1>1, <1>2, <1>3 DEF ChoiceInv

\* It is chosen once.
LEMMA ChoiceIsMade ==
  /\ ChoiceInit => ChoiceInv
  /\ ChoiceInv /\ [ChoiceNext]_choiceVars => ChoiceInv'
<1>1. ChoiceInit => ChoiceInv
  BY DEF ChoiceInit, ChoiceInv
<1>2. ASSUME ChoiceInv, Choose PROVE ChoiceInv'
  <2>1. PICK what : what = IF request.kind = "plan" THEN SearchPlan(request) ELSE Selection(request)
    OBVIOUS
  <2>2. chosen' = <<what>> /\ request' = request
    BY <1>2, <2>1 DEF Choose
  <2> QED
    BY <1>2, <2>1, <2>2 DEF ChoiceInv
<1>3. ASSUME ChoiceInv, UNCHANGED choiceVars PROVE ChoiceInv'
  BY <1>3 DEF ChoiceInv, choiceVars
<1> QED
  BY <1>1, <1>2, <1>3 DEF ChoiceNext

\* Every plan and every selection fits, for every limit and any number of pages.
THEOREM ChoicesAreRight == ChoiceSpec => []ChoicesFit
  BY ChoiceIsMade, WhatIsChosenFits, PTL DEF ChoiceSpec

-----------------------------------------------------------------------------
(* The services beside each other.                                          *)

\* A step of the composition is a step of each service, or leaves it alone.
LEMMA StepOfEach ==
  ASSUME [ServicesNext]_ServicesVars
  PROVE  /\ [RateNext]_rateVars /\ [CapabilityNext]_capabilityVars /\ [StorageNext]_storageVars
         /\ [GmailNext]_gmailVars /\ [AccessNext]_accessVars /\ [CatalogNext]_catalogVars
         /\ [LookupNext]_lookupVars /\ [PipelineNext]_pipelineVars
         /\ [RequestNext]_requestVars /\ [BucketNext]_bucketVars
  BY DEF ServicesNext, ServicesVars

\* The choice of the service that moves is made once.
LEMMA OnlyStays == [ServicesNext]_ServicesVars => UNCHANGED only
  BY DEF ServicesNext, ServicesVars

\* Each of the services that the others leave as it began behaves as its own
\* specification says.
THEOREM ServicesImplementEach ==
  ServicesSpec => /\ RateSpec /\ CapabilitySpec /\ StorageSpec /\ GmailSpec /\ AccessSpec
                  /\ LookupSpec /\ PipelineSpec /\ RequestSpec /\ BucketSpec
<1>1. ServicesInit => /\ RateInit /\ CapabilityInit /\ StorageInit /\ GmailInit /\ AccessInit
                      /\ LookupInit /\ PipelineInit /\ RequestInit /\ BucketInit
  BY DEF ServicesInit
<1> QED
  BY <1>1, StepOfEach, PTL DEF ServicesSpec, RateSpec, CapabilitySpec, StorageSpec, GmailSpec, AccessSpec,
     LookupSpec, PipelineSpec, RequestSpec, BucketSpec

-----------------------------------------------------------------------------
(* The counter and the reset of a password share a window, and the          *)
(* catalogue of a service that is not administrated is empty.               *)

\* No reset is asked for: the window moves alone.
NoResetAsked ==
  /\ passedAt = [c \in Call |-> 0] /\ made = [t \in Token |-> 0] /\ usedToken = [t \in Token |-> FALSE]
  /\ confirming = [h \in Confirm |-> "idle"] /\ holding = [h \in Confirm |-> Nobody]
  /\ current = FALSE /\ old = FALSE /\ sets = [t \in Token |-> 0] /\ signoutLost = FALSE

IdleResetInv == only # "reset" /\ CounterInv /\ NoResetAsked

\* A window that moves alone leaves the resets where they are.
LEMMA IdleResetStays ==
  /\ ServicesInit /\ ~(only = "reset") => IdleResetInv
  /\ IdleResetInv /\ [ServicesNext]_ServicesVars => IdleResetInv'
<1>1. ServicesInit /\ ~(only = "reset") => IdleResetInv
  BY CounterBegins DEF ServicesInit, ResetInit, IdleResetInv, NoResetAsked
<1>2. ASSUME IdleResetInv, [ServicesNext]_ServicesVars
      PROVE  IdleResetInv'
  <2>1. UNCHANGED <<only, passedAt, tokens, confirming, holding, keycloak>> /\ [CounterNext]_counterVars
    BY <1>2 DEF IdleResetInv, ServicesNext, ServicesVars, resetVars, tokens, keycloak
  <2>2. CounterInv'
    BY <1>2, <2>1, CountKeeps, KeyKeeps DEF IdleResetInv, CounterNext
  <2>3. NoResetAsked' /\ only' # "reset"
    BY <1>2, <2>1 DEF IdleResetInv, NoResetAsked, tokens, keycloak
  <2> QED
    BY <2>2, <2>3 DEF IdleResetInv
<1> QED
  BY <1>1, <1>2

\* No token is good, and nobody is signed in.
LEMMA IdleResetHolds == IdleResetInv => ResetTypeOK /\ ResetIsOneTime
<1> SUFFICES ASSUME IdleResetInv
             PROVE  ResetTypeOK /\ ResetIsOneTime
  OBVIOUS
<1>1. CounterTypeOK /\ WindowIsKept
  BY WindowFollows DEF IdleResetInv, CounterInv
<1>2. ResetTypeOK
  BY <1>1 DEF IdleResetInv, NoResetAsked, ResetTypeOK
<1>3. TokenSetsOnce /\ OldSessionsEnd
  BY DEF IdleResetInv, NoResetAsked, TokenSetsOnce, OldSessionsEnd
<1>4. LiveTokensBounded
  BY NoTokenIsGood DEF IdleResetInv, NoResetAsked
<1> QED
  BY <1>1, <1>2, <1>3, <1>4 DEF ResetIsOneTime

\* The reset of a password keeps its promises beside the others.
LEMMA ResetsHold == ServicesSpec => [](ResetTypeOK /\ ResetIsOneTime)
<1>1. ServicesSpec /\ only = "reset" => ResetSpec
  <2>1. ServicesInit => ResetInit
    BY DEF ServicesInit
  <2>2. only = "reset" /\ [ServicesNext]_ServicesVars => [ResetNext]_resetVars
    BY DEF ServicesNext, ServicesVars
  <2>3. only = "reset" /\ [ServicesNext]_ServicesVars => (only = "reset")'
    BY OnlyStays
  <2> QED
    BY <2>1, <2>2, <2>3, PTL DEF ServicesSpec, ResetSpec
<1>2. ServicesSpec /\ ~(only = "reset") => []IdleResetInv
  BY IdleResetStays, PTL DEF ServicesSpec
<1> QED
  BY <1>1, <1>2, ResetHolds, IdleResetHolds, PTL

\* A catalogue nobody administrates has no models, and no call of it is made.
LEMMA CatalogBegins == ServicesInit => CatalogInv
<1> SUFFICES ASSUME ServicesInit
             PROVE  CatalogInv
  OBVIOUS
<1>1. CASE only = "catalog"
  BY <1>1, CatalogStart DEF ServicesInit
<1>2. CASE only # "catalog"
  <2>1. /\ provider = [there |-> TRUE, version |-> 0] /\ target = Absent /\ givenOut = {}
        /\ modelRow = [r \in Row |-> Absent] /\ deployed = [d \in Deployment |-> Absent]
        /\ change = [c \in Change |-> Waiting]
    BY <1>2 DEF ServicesInit
  <2>2. StoresFit
    BY <2>1, CatalogAssumption DEF StoresFit
  <2>3. Waiting.pc = "new" /\ Waiting.kind = "none" /\ Waiting \in CallState
    BY WaitingFits DEF Waiting
  <2>4. CallsFit
    BY <2>1, <2>3 DEF CallsFit, CallFits, StagesOf, HoldingRow, Sync, Removal
  <2>5. NamesInv
    BY <2>1, <2>3 DEF NamesInv, Rows
  <2>6. \A c \in Change : ~InFlight(c)
    BY <2>1, <2>3 DEF InFlight
  <2> QED
    BY <2>2, <2>4, <2>5, <2>6 DEF CatalogInv, LoneInv, CallInv, Lone
<1> QED
  BY <1>1, <1>2

\* The catalogue keeps its promises beside the others.
LEMMA CatalogHolds == ServicesSpec => []CatalogTypeOK /\ StoresAgree
<1>1. CatalogInv /\ [ServicesNext]_ServicesVars =>
         CatalogInv' /\ [SyncSettles /\ LoneCallKeepsCatalog]_catalogVars
  BY StepOfEach, CatalogStep
<1> QED
  BY <1>1, CatalogBegins, CatalogInvTyped, PTL DEF ServicesSpec, StoresAgree

\* Plans and selections fit beside the others.
LEMMA ChoicesHold == ServicesSpec => []ChoicesFit
<1>1. ServicesSpec /\ only = "choice" => ChoiceSpec
  <2>1. ServicesInit /\ only = "choice" => ChoiceInit
    BY DEF ServicesInit
  <2>2. only = "choice" /\ [ServicesNext]_ServicesVars => [ChoiceNext]_choiceVars
    BY DEF ServicesNext, ServicesVars
  <2>3. only = "choice" /\ [ServicesNext]_ServicesVars => (only = "choice")'
    BY OnlyStays
  <2> QED
    BY <2>1, <2>2, <2>3, PTL DEF ServicesSpec, ChoiceSpec
<1>2. ServicesSpec /\ ~(only = "choice") => [](chosen = <<>>)
  <2>1. ServicesInit /\ ~(only = "choice") => chosen = <<>>
    BY DEF ServicesInit
  <2>2. ~(only = "choice") /\ chosen = <<>> /\ [ServicesNext]_ServicesVars
          => (chosen = <<>>)' /\ (~(only = "choice"))'
    BY DEF ServicesNext, ServicesVars, choiceVars
  <2> QED
    BY <2>1, <2>2, PTL DEF ServicesSpec
<1>3. chosen = <<>> => ChoicesFit
  BY DEF ChoicesFit, PlanFitsTheQuestion, SelectionIsFull, GlobalCorroborates, Chosen
<1> QED
  BY <1>1, <1>2, <1>3, ChoicesAreRight, PTL

-----------------------------------------------------------------------------
(* What the composition promises.                                           *)

\* In every behaviour of the composition the state of the service that moves is
\* of its types, if the clocks of two replicas are at most a minute apart.
THEOREM ServicesTypeCorrect ==
  ASSUME MaxSkew <= Minute
  PROVE  ServicesSpec => []ServicesTypeOK
<1> DEFINE AllTypes == /\ RateTypeOK /\ CapabilityTypeOK /\ StorageTypeOK /\ ResetTypeOK /\ GmailTypeOK
                       /\ AccessTypeOK /\ CatalogTypeOK /\ LookupTypeOK /\ PipelineTypeOK /\ RequestTypeOK
                       /\ BucketTypeOK
<1>1. only \in Services /\ AllTypes => ServicesTypeOK
  BY DEF Services, ServicesTypeOK
<1>2. ServicesSpec => [](only \in Services)
  <2>1. ServicesInit => only \in Services
    BY DEF ServicesInit
  <2>2. only \in Services /\ [ServicesNext]_ServicesVars => (only \in Services)'
    BY OnlyStays
  <2> QED
    BY <2>1, <2>2, PTL DEF ServicesSpec
<1>3. BucketSpec => []BucketTypeOK
  BY BucketHoldsAlways
<1> QED
  BY <1>1, <1>2, <1>3, ServicesImplementEach, ResetsHold, CatalogHolds, RateHolds, CapabilityHolds,
     StorageHolds, ConnectionHolds, AccessHolds, OldRowsAreAlwaysHonest, PipelineTypeCorrect,
     RequestHolds, PTL

\* Beside each other the services keep what each of them promises: the rates and
\* numbers of guests, the files, the resets and the mail account, who is let
\* through, the catalogue, research with its plans and selections, and the
\* bucket of a model.
THEOREM ServicesKeepPromises ==
  ASSUME MaxSkew <= Minute
  PROVE  ServicesSpec =>
           /\ [](/\ CapabilityIsMetered /\ AttachmentsHold /\ ResetIsOneTime /\ ConnectionIsGood
                 /\ AccessIsGranted /\ ChoicesFit /\ EvidenceComesFirst /\ RequestIsSettled)
           /\ RateIsKept /\ StoresAgree /\ OldRowsAreHonest /\ BucketHolds
<1>1. BucketSpec => BucketHolds
  BY BucketHoldsAlways
<1> QED
  BY <1>1, ServicesImplementEach, ResetsHold, CatalogHolds, ChoicesHold, RateHolds, CapabilityHolds,
     StorageHolds, ConnectionHolds, AccessHolds, OldRowsAreAlwaysHonest, EvidenceAlwaysComesFirst,
     RequestHolds, PTL

=============================================================================

--------------------------- MODULE ClientCallsProofs ---------------------------
(***************************************************************************)
(* What each call of the clients keeps, for a history, a block, a session  *)
(* and a number of repeats of any size.  Every call has a section with its *)
(* inductive invariant; the theorems at the end are about all of them.     *)
(***************************************************************************)
EXTENDS MCClientCalls, FiniteSetTheorems, WellFoundedInduction, TLAPS

-----------------------------------------------------------------------------
(* Numbers and sequences                                                   *)

\* A set of numbers has a least one, a bounded one a greatest.
LEMMA Least ==
    ASSUME NEW T \in SUBSET Nat, T # {}
    PROVE  \E x \in T : \A y \in T : x <= y
<1>1. PICK x \in T : \A y \in T : ~(<<y, x>> \in OpToRel(<, Nat))
  BY WFMin, NatLessThanWellFounded
<1>2. \A y \in T : ~(y < x)
  BY <1>1 DEF OpToRel
<1> QED
  BY <1>2

LEMMA Greatest ==
    ASSUME NEW n \in Nat, NEW T \in SUBSET (0 .. n), T # {}
    PROVE  \E x \in T : \A y \in T : y <= x
<1> DEFINE U == {m \in 0 .. n : n - m \in T}
<1>1. U \in SUBSET Nat
  OBVIOUS
<1>2. \A y \in T : n - y \in U /\ n - y \in Nat
  <2>1. TAKE y \in T
  <2>2. n - (n - y) = y /\ n - y \in 0 .. n
    OBVIOUS
  <2> QED
    BY <2>2
<1>3. PICK m \in U : \A y \in U : m <= y
  BY <1>1, <1>2, Least
<1>4. \A y \in T : y <= n - m
  BY <1>2, <1>3
<1> QED
  BY <1>4

LEMMA Division ==
    ASSUME NEW d \in Nat \ {0}, NEW m \in Nat, NEW n \in Nat, m <= n
    PROVE  m \div d <= n \div d /\ m \div d \in Nat
OBVIOUS

LEMMA Product == ASSUME NEW m \in Nat, NEW n \in Nat PROVE m * n \in Nat
OBVIOUS

\* A list behind another.
LEMMA Joined ==
    ASSUME NEW T, NEW s \in Seq(T), NEW t \in Seq(T)
    PROVE  /\ s \o t \in Seq(T) /\ Len(s \o t) = Len(s) + Len(t)
           /\ \A i \in 1 .. Len(s) : (s \o t)[i] = s[i]
           /\ \A i \in Len(s) + 1 .. Len(s) + Len(t) : (s \o t)[i] = t[i - Len(s)]
OBVIOUS

\* Lists of one length with the same elements are the same.
LEMMA SameElements ==
    ASSUME NEW T, NEW s \in Seq(T), NEW t \in Seq(T), Len(s) = Len(t),
           \A i \in 1 .. Len(s) : s[i] = t[i]
    PROVE  s = t
OBVIOUS

-----------------------------------------------------------------------------
(* retry_async                                                             *)

Attempts == [succeeds : BOOLEAN, takes_effect : BOOLEAN, archival : BOOLEAN]

RetryTypes ==
    /\ repeats \in Nat /\ raise_error \in BOOLEAN /\ last_archval \in BOOLEAN
    /\ attempts \in Seq(Attempts)
    /\ retry_pc \in {"trying", "returned", "raised"}
    /\ Len(attempts) <= repeats
    /\ result \in 0 .. Len(attempts) /\ exception \in 0 .. Len(attempts)

\* The result is that of the latest success.
ResultIsLatest ==
    /\ \A i \in DOMAIN attempts : attempts[i].succeeds => i <= result
    /\ result # 0 => attempts[result].succeeds

\* An exception is held exactly if the last attempt failed.
ExceptionIsLast ==
    /\ exception = 0 => result = Len(attempts)
    /\ exception # 0 => exception = Len(attempts) /\ ~attempts[exception].succeeds

ArchiveLast == \A i \in DOMAIN attempts : attempts[i].archival => i = repeats

EndsAfterAll ==
    /\ retry_pc # "trying" => Len(attempts) = repeats
    /\ retry_pc = "raised" => exception # 0 /\ raise_error
    /\ retry_pc = "returned" => exception = 0 \/ ~raise_error

RetryIInv == RetryTypes /\ ResultIsLatest /\ ExceptionIsLast /\ ArchiveLast /\ EndsAfterAll

\* One more attempt.
LEMMA AttemptKeeps ==
    ASSUME RetryIInv, NEW succeeds \in BOOLEAN, NEW takes_effect \in BOOLEAN,
           R!Attempt(succeeds, takes_effect)
    PROVE  RetryIInv'
<1> DEFINE n == Len(attempts) + 1
           a == [succeeds |-> succeeds, takes_effect |-> takes_effect,
                 archival |-> last_archval /\ n = repeats]
<1>1. /\ retry_pc = "trying" /\ n <= repeats /\ attempts' = Append(attempts, a)
      /\ result' = IF succeeds THEN n ELSE result
      /\ exception' = IF succeeds THEN 0 ELSE n
      /\ UNCHANGED <<repeats, last_archval, raise_error, retry_pc>>
  BY DEF R!Attempt, R!Held
<1>2. /\ attempts \in Seq(Attempts) /\ a \in Attempts /\ Len(attempts) \in Nat
      /\ repeats \in Nat /\ result \in 0 .. Len(attempts)
  BY DEF RetryIInv, RetryTypes, Attempts
<1>3. /\ attempts' \in Seq(Attempts) /\ Len(attempts') = n
      /\ DOMAIN attempts' = 1 .. n /\ DOMAIN attempts = 1 .. Len(attempts)
      /\ attempts'[n] = a /\ \A i \in DOMAIN attempts : attempts'[i] = attempts[i]
  <2> HIDE DEF a
  <2> QED
    BY <1>1, <1>2
<1>4. a.succeeds = succeeds /\ (a.archival => n = repeats)
  OBVIOUS
<1>5. RetryTypes'
  BY <1>1, <1>2, <1>3 DEF RetryIInv, RetryTypes
<1>6. ResultIsLatest'
  <2>1. CASE succeeds
    BY <1>1, <1>2, <1>3, <1>4, <2>1 DEF ResultIsLatest
  <2>2. CASE ~succeeds
    BY <1>1, <1>2, <1>3, <1>4, <2>2 DEF RetryIInv, ResultIsLatest
  <2> QED
    BY <2>1, <2>2
<1>7. ExceptionIsLast'
  <2>1. CASE succeeds
    BY <1>1, <1>3, <2>1 DEF ExceptionIsLast
  <2>2. CASE ~succeeds
    BY <1>1, <1>2, <1>3, <1>4, <2>2 DEF ExceptionIsLast
  <2> QED
    BY <2>1, <2>2
<1>8. ArchiveLast'
  BY <1>1, <1>2, <1>3, <1>4 DEF RetryIInv, ArchiveLast
<1>9. EndsAfterAll'
  BY <1>1 DEF EndsAfterAll
<1> QED
  BY <1>5, <1>6, <1>7, <1>8, <1>9 DEF RetryIInv

LEMMA RetryInit == R!Init => RetryIInv
<1>1. SUFFICES ASSUME R!Init PROVE RetryIInv
  OBVIOUS
<1>2. attempts = << >> /\ Len(attempts) = 0 /\ DOMAIN attempts = {}
  BY <1>1 DEF R!Init
<1>3. << >> \in Seq(Attempts)
  OBVIOUS
<1>4. RetryTypes
  BY <1>1, <1>2, <1>3, BoundsAssumption DEF R!Init, RetryTypes
<1> QED
  BY <1>1, <1>2, <1>4
     DEF R!Init, RetryIInv, ResultIsLatest, ExceptionIsLast, ArchiveLast, EndsAfterAll

LEMMA RetryStep == ASSUME RetryIInv, R!Next \/ UNCHANGED retryVars PROVE RetryIInv'
<1> USE DEF RetryIInv, RetryTypes, ResultIsLatest, ExceptionIsLast, ArchiveLast, EndsAfterAll
<1>1. CASE UNCHANGED retryVars
  BY <1>1 DEF retryVars
<1>2. CASE \E takes_effect \in BOOLEAN : R!Attempt(FALSE, takes_effect)
  BY <1>2, AttemptKeeps
<1>3. CASE R!Attempt(TRUE, TRUE)
  BY <1>3, AttemptKeeps
<1>4. CASE R!End
  BY <1>4 DEF R!End
<1>5. CASE R!Over
  BY <1>5 DEF R!Over, R!retryVars
<1> QED
  BY <1>1, <1>2, <1>3, <1>4, <1>5 DEF R!Next

\* A success makes up for the failures before it.
LEMMA RetryFollows == RetryIInv => R!RetryKeepsSuccess
<1>1. SUFFICES ASSUME RetryIInv PROVE R!RetryKeepsSuccess
  OBVIOUS
<1>2. /\ DOMAIN attempts = 1 .. Len(attempts) /\ Len(attempts) \in Nat
      /\ result \in 0 .. Len(attempts) /\ exception \in 0 .. Len(attempts)
  BY <1>1 DEF RetryIInv, RetryTypes
<1>3. \A i : i \in R!Succeeded <=> i \in DOMAIN attempts /\ attempts[i].succeeds
  BY DEF R!Succeeded
<1>4. IF R!Succeeded = {} THEN result = 0
      ELSE result \in R!Succeeded /\ \A i \in R!Succeeded : i <= result
  <2>1. \A i \in R!Succeeded : i <= result
    BY <1>1, <1>3 DEF RetryIInv, ResultIsLatest
  <2>2. result # 0 => result \in R!Succeeded
    BY <1>1, <1>2, <1>3 DEF RetryIInv, ResultIsLatest
  <2>3. \A i \in R!Succeeded : i \in Nat /\ i > 0
    BY <1>2, <1>3
  <2>4. result = 0 => R!Succeeded = {}
    BY <2>1, <2>3
  <2> QED
    BY <2>1, <2>2, <2>4
<1>5. retry_pc = "raised" => raise_error /\ repeats \notin R!Succeeded
  BY <1>1, <1>2, <1>3 DEF RetryIInv, EndsAfterAll, ExceptionIsLast
<1>6. retry_pc = "returned" /\ raise_error => repeats = 0 \/ result = repeats
  BY <1>1 DEF RetryIInv, EndsAfterAll, ExceptionIsLast
<1> QED
  BY <1>1, <1>4, <1>5, <1>6 DEF RetryIInv, EndsAfterAll, ArchiveLast, R!RetryKeepsSuccess

-----------------------------------------------------------------------------
(* get_transactions                                                        *)

\* How many transactions there are after to up to from.
AskedNumber == IF from > to THEN from - to ELSE 0

\* Nothing is collected before the first page.
NothingYet ==
    pc \in {"state", "state again"} => all = << >> /\ ~reach_lt /\ ~refused

\* When the loop has met a transaction at or below to, or is left without an error,
\* everything that was asked for is collected.
AllCollected ==
    /\ pc = "page" /\ reach_lt => Len(all) = AskedNumber
    /\ pc = "cut" => refused \/ Len(all) = AskedNumber

HistoryIInv ==
    TypeOK /\ NothingYet /\ ContiguousRun /\ PagesJoin /\ AllCollected /\ ReturnsNewestOrAll

\* How many transactions of a page of k are taken.
TakenNumber(k) ==
    IF current > to THEN (IF k < current - to THEN k ELSE current - to) ELSE 0

\* The loop over a page takes its transactions above to, and sets reach_lt exactly
\* if that is not the whole page.
LEMMA PageTaken ==
    ASSUME TypeOK, NEW k \in Pages
    PROVE  /\ Taken(Page(k)) \in Seq(1 .. MaxTop) /\ Len(Taken(Page(k))) = TakenNumber(k)
           /\ \A i \in 1 .. TakenNumber(k) : Taken(Page(k))[i] = current + 1 - i
           /\ Reaches(Page(k)) <=> TakenNumber(k) < k
           /\ TakenNumber(k) \in 0 .. k
<1> DEFINE page == Page(k)
           n == TakenNumber(k)
           P(m) == /\ \A i \in 1 .. m : ~Below(page[i])
                   /\ m < Len(page) => Below(page[m + 1])
           c == CHOOSE m \in 0 .. Len(page) : P(m)
<1>1. k \in Nat /\ k >= 1 /\ k <= current /\ current \in 0 .. MaxTop /\ to \in Nat /\ MaxTop \in Nat
  <2>1. current \in 0 .. MaxTop /\ to \in 0 .. MaxTop
    BY DEF TypeOK, Lts
  <2>2. k \in 1 .. PageSize /\ k <= current
    BY DEF Pages
  <2> QED
    BY <2>1, <2>2, MaxTopAssumption, PageSizeAssumption
<1>2. /\ page \in Seq(1 .. MaxTop) /\ Len(page) = k
      /\ \A i \in 1 .. k : page[i] = current + 1 - i
  BY <1>1 DEF Page
<1>3. \A i \in 1 .. k : Below(page[i]) <=> i > current - to
  BY <1>1, <1>2 DEF Below
<1>4. n \in 0 .. k
  BY <1>1 DEF TakenNumber
<1>5. P(n)
  BY <1>1, <1>2, <1>3, <1>4 DEF TakenNumber
<1>6. c \in 0 .. k /\ P(c)
  <2> HIDE DEF P, n, page
  <2> QED
    BY <1>2, <1>4, <1>5
<1>7. c = n
  <2>1. \A i \in 1 .. c : i <= current - to
    BY <1>1, <1>3, <1>6
  <2>2. c < k => c + 1 > current - to
    BY <1>1, <1>2, <1>3, <1>6
  <2>3. c > 0 => c <= current - to
    BY <1>6, <2>1
  <2> QED
    BY <1>1, <1>6, <2>2, <2>3 DEF TakenNumber
<1>8. Taken(page) = SubSeq(page, 1, n)
  BY <1>7 DEF Taken
<1>9. Reaches(page) <=> n < k
  <2>1. DOMAIN page = 1 .. k
    BY <1>2
  <2> QED
    BY <1>1, <1>3, <2>1 DEF Reaches, TakenNumber
<1>10. /\ SubSeq(page, 1, n) \in Seq(1 .. MaxTop) /\ Len(SubSeq(page, 1, n)) = n
       /\ \A i \in 1 .. n : SubSeq(page, 1, n)[i] = page[i]
  <2> HIDE DEF n, page
  <2> QED
    BY <1>1, <1>2, <1>4
<1> QED
  BY <1>1, <1>2, <1>4, <1>8, <1>9, <1>10

\* The values of the loop's variables, without those of the list.
LEMMA HistoryNumbers ==
    ASSUME TypeOK
    PROVE  /\ MaxTop \in Nat /\ to \in 0 .. MaxTop /\ from \in 0 .. MaxTop
           /\ current \in 0 .. MaxTop /\ limit \in Nat
           /\ Len(all) \in Nat /\ DOMAIN all = 1 .. Len(all)
<1>1. to \in 0 .. MaxTop /\ from \in 0 .. MaxTop /\ current \in 0 .. MaxTop
  BY DEF TypeOK, Lts
<1>2. limit \in Nat
  BY LimitsAssumption DEF TypeOK
<1>3. all \in Seq(1 .. MaxTop)
  BY DEF TypeOK
<1> QED
  BY <1>1, <1>2, <1>3, MaxTopAssumption

\* A page is appended where the list ends, and when the loop is left after it,
\* everything that was asked for is there.
LEMMA PageKeeps == ASSUME HistoryIInv, PageArrives PROVE HistoryIInv'
<1>1. PICK k \in Pages, hasNext \in BOOLEAN :
         /\ hasNext \/ current - k = 0
         /\ all' = all \o Taken(Page(k))
         /\ reach_lt' = Reaches(Page(k))
         /\ current' = IF hasNext THEN current - k ELSE current
         /\ pc' = IF hasNext /\ current - k # 0 THEN "page" ELSE "cut"
  BY DEF PageArrives
<1>2. pc = "page" /\ ~reach_lt /\ UNCHANGED <<top, args, from, refused>>
  BY DEF PageArrives, Wanted
<1>3. TypeOK /\ ContiguousRun /\ PagesJoin
  BY DEF HistoryIInv
<1> DEFINE l == Len(all)
           n == TakenNumber(k)
           t == Taken(Page(k))
<1>4. /\ MaxTop \in Nat /\ to \in 0 .. MaxTop /\ from \in 0 .. MaxTop
      /\ current \in 0 .. MaxTop /\ l \in Nat /\ DOMAIN all = 1 .. l
  BY <1>3, HistoryNumbers
<1>5. /\ t \in Seq(1 .. MaxTop) /\ Len(t) = n /\ \A i \in 1 .. n : t[i] = current + 1 - i
      /\ reach_lt' <=> n < k
      /\ n \in 0 .. k
  BY <1>1, <1>3, PageTaken
<1>6. k \in Nat /\ k >= 1 /\ k <= current
  BY <1>4, PageSizeAssumption DEF Pages
<1>7. current + l = from /\ to' = to /\ from' = from
  BY <1>2, <1>3 DEF PagesJoin, args
<1>8. /\ all' \in Seq(1 .. MaxTop) /\ Len(all') = l + n
      /\ \A i \in 1 .. l : all'[i] = all[i]
      /\ \A i \in l + 1 .. l + n : all'[i] = t[i - l]
  <2> HIDE DEF t, n
  <2>1. all \in Seq(1 .. MaxTop)
    BY <1>3 DEF TypeOK
  <2> QED
    BY <1>1, <1>4, <1>5, <2>1 DEF t
<1> HIDE DEF t
<1>9. \A i \in 1 .. l : all[i] = from + 1 - i /\ all[i] > to
  BY <1>3, <1>4 DEF ContiguousRun
<1>10. l > 0 => current >= to
  <2>1. CASE l > 0
    BY <1>4, <1>7, <1>9, <2>1
  <2> QED
    BY <1>4, <2>1
<1>11. TypeOK'
  <2>1. current' \in 0 .. MaxTop
    BY <1>1, <1>4, <1>6
  <2>2. reach_lt' \in BOOLEAN
    BY <1>1 DEF Reaches
  <2> QED
    BY <1>1, <1>2, <1>3, <1>8, <2>1, <2>2 DEF TypeOK, Lts, args
<1>12. ContiguousRun'
  <2>1. \A i \in 1 .. l + n : all'[i] = from + 1 - i /\ all'[i] > to
    <3>1. \A i \in l + 1 .. l + n : i - l \in 1 .. n
      BY <1>4, <1>5
    <3>2. ASSUME NEW i \in l + 1 .. l + n PROVE all'[i] = from + 1 - i
      <4>1. all'[i] = t[i - l]
        BY <1>8
      <4>2. t[i - l] = current + 1 - (i - l)
        BY <1>5, <3>1
      <4>3. i \in Nat
        BY <1>4, <1>5
      <4> QED
        BY <1>4, <1>7, <4>1, <4>2, <4>3
    <3>3. \A i \in l + 1 .. l + n : from + 1 - i > to
      BY <1>4, <1>6, <1>7 DEF TakenNumber
    <3> QED
      BY <1>4, <1>8, <1>9, <3>2, <3>3
  <2>2. DOMAIN all' = 1 .. l + n
    BY <1>8
  <2> QED
    BY <1>7, <2>1, <2>2 DEF ContiguousRun
<1>13. PagesJoin'
  <2>1. pc' = "page" => current' = current - k
    BY <1>1
  <2>2. ~reach_lt' => n = k
    BY <1>5, <1>6
  <2>3. n = k => current - k + (l + n) = from
    BY <1>4, <1>6, <1>7
  <2> HIDE DEF n, l
  <2> QED
    BY <1>7, <1>8, <2>1, <2>2, <2>3 DEF PagesJoin
<1>14. AllCollected'
  <2>1. n < k => l + n = AskedNumber
    BY <1>4, <1>6, <1>7, <1>10 DEF TakenNumber, AskedNumber
  <2>2. n = k /\ current = k => l + n = AskedNumber
    BY <1>4, <1>6, <1>7 DEF TakenNumber, AskedNumber
  <2>3. AskedNumber' = AskedNumber
    BY <1>7 DEF AskedNumber
  <2>4. pc' = "cut" => current = k
    BY <1>1, <1>4, <1>6
  <2>5. pc' = "cut" => n < k \/ (n = k /\ current = k)
    BY <1>5, <1>6, <2>4
  <2> QED
    BY <1>5, <1>8, <2>1, <2>2, <2>3, <2>5 DEF AllCollected
<1> QED
  BY <1>1, <1>11, <1>12, <1>13, <1>14 DEF HistoryIInv, NothingYet, ReturnsNewestOrAll

\* The account has no older transaction: the empty page comes after all that was
\* asked for.
LEMMA EmptyPageKeeps == ASSUME HistoryIInv, EmptyPage PROVE HistoryIInv'
<1>1. /\ pc = "page" /\ ~reach_lt /\ current = 0 /\ pc' = "cut"
      /\ UNCHANGED <<top, args, from, current, reach_lt, all, refused>>
  BY DEF EmptyPage, Wanted
<1>2. TypeOK /\ ContiguousRun /\ PagesJoin
  BY DEF HistoryIInv
<1>3. /\ to \in Nat /\ from \in Nat /\ Len(all) \in Nat /\ DOMAIN all = 1 .. Len(all)
      /\ Len(all) = from
  BY <1>1, <1>2, HistoryNumbers DEF PagesJoin
<1>4. from > 0 => to = 0
  <2>1. from > 0 => all[from] = 1 /\ all[from] > to
    BY <1>2, <1>3 DEF ContiguousRun
  <2> QED
    BY <1>3, <2>1
<1>5. Len(all) = AskedNumber
  BY <1>3, <1>4 DEF AskedNumber
<1>6. AllCollected'
  BY <1>1, <1>5 DEF AllCollected, AskedNumber, args
<1>7. TypeOK'
  BY <1>1, <1>2 DEF TypeOK, args
<1>8. ContiguousRun' /\ PagesJoin'
  BY <1>1, <1>2 DEF ContiguousRun, PagesJoin, args
<1> QED
  BY <1>1, <1>6, <1>7, <1>8 DEF HistoryIInv, NothingYet, ReturnsNewestOrAll

\* What is returned is cut to the limit, and complete if no page was refused.
LEMMA ReturnKeeps == ASSUME HistoryIInv, Return PROVE HistoryIInv'
<1> DEFINE l == Len(all)
           m == IF limit < l THEN limit ELSE l
           d == IF AskedNumber < limit THEN AskedNumber ELSE limit
<1>1. /\ pc = "cut" \/ (pc = "page" /\ (reach_lt \/ ~(l < limit)))
      /\ pc' = "returned" /\ all' = SubSeq(all, 1, m)
      /\ UNCHANGED <<top, args, from, current, reach_lt, refused>>
  BY DEF Return, Wanted, Cut
<1>2. TypeOK /\ ContiguousRun /\ AllCollected
  BY DEF HistoryIInv
<1>3. /\ MaxTop \in Nat /\ to \in 0 .. MaxTop /\ from \in 0 .. MaxTop /\ limit \in Nat
      /\ l \in Nat /\ DOMAIN all = 1 .. l
  BY <1>2, HistoryNumbers
<1>4. \A i \in 1 .. l : all[i] = from + 1 - i /\ all[i] > to
  BY <1>2, <1>3 DEF ContiguousRun
<1>5. m \in 0 .. l
  BY <1>3
<1>6. /\ all' \in Seq(1 .. MaxTop) /\ Len(all') = m /\ DOMAIN all' = 1 .. m
      /\ \A i \in 1 .. m : all'[i] = all[i]
  <2> HIDE DEF m
  <2>1. all \in Seq(1 .. MaxTop)
    BY <1>2 DEF TypeOK
  <2> QED
    BY <1>1, <1>3, <1>5, <2>1
<1>7. l <= AskedNumber
  <2>1. l > 0 => from + 1 - l > to
    BY <1>3, <1>4
  <2> QED
    BY <1>3, <2>1 DEF AskedNumber
<1>8. m <= d /\ d \in Nat /\ AskedNumber \in Nat /\ d <= from
  BY <1>3, <1>7 DEF AskedNumber
<1>9. refused \/ m = d
  <2>1. refused \/ l = AskedNumber \/ limit <= l
    BY <1>1, <1>2, <1>3 DEF AllCollected
  <2>2. l \in Nat /\ limit \in Nat /\ AskedNumber \in Nat /\ l <= AskedNumber
    BY <1>3, <1>7, <1>8
  <2>3. ASSUME l = AskedNumber \/ limit <= l PROVE m = d
    BY <2>2, <2>3
  <2> QED
    BY <2>1, <2>3
<1>10. Asked' = [i \in 1 .. d |-> from + 1 - i]
  BY <1>1 DEF Asked, AskedNumber, args
<1>11. Asked' \in Seq(Nat) /\ Len(Asked') = d /\ \A i \in 1 .. d : Asked'[i] = from + 1 - i
  <2> HIDE DEF d
  <2> QED
    BY <1>3, <1>8, <1>10
<1>12. all' = SubSeq(Asked', 1, m)
  <2> HIDE DEF m, d
  <2>1. /\ SubSeq(Asked', 1, m) \in Seq(Nat) /\ Len(SubSeq(Asked', 1, m)) = m
        /\ \A i \in 1 .. m : SubSeq(Asked', 1, m)[i] = Asked'[i]
    BY <1>3, <1>5, <1>8, <1>11
  <2>2. \A i \in 1 .. m : SubSeq(Asked', 1, m)[i] = all'[i]
    BY <1>3, <1>4, <1>5, <1>6, <1>8, <1>11, <2>1
  <2>3. all' \in Seq(Nat)
    BY <1>3, <1>6
  <2> QED
    BY <1>6, <2>1, <2>2, <2>3
<1>13. m = d => all' = Asked'
  <2> HIDE DEF m, d
  <2>1. all' \in Seq(Nat)
    BY <1>3, <1>6
  <2> QED
    BY <1>3, <1>4, <1>5, <1>6, <1>8, <1>11, <2>1
<1>14. ReturnsNewestOrAll'
  BY <1>1, <1>6, <1>8, <1>9, <1>11, <1>12, <1>13 DEF ReturnsNewestOrAll
<1>15. TypeOK'
  BY <1>1, <1>2, <1>6 DEF TypeOK, args
<1>16. ContiguousRun'
  BY <1>1, <1>4, <1>5, <1>6 DEF ContiguousRun, args
<1> QED
  BY <1>1, <1>14, <1>15, <1>16 DEF HistoryIInv, NothingYet, PagesJoin, AllCollected

LEMMA HistoryInit == Init => HistoryIInv
<1>1. SUFFICES ASSUME Init PROVE HistoryIInv
  OBVIOUS
<1>2. all = << >> /\ DOMAIN all = {} /\ Len(all) = 0 /\ all \in Seq(1 .. MaxTop)
  BY <1>1 DEF Init
<1>3. given \in Lts /\ from = given /\ current = given
  BY <1>1, MaxTopAssumption DEF Init, Lts
<1>4. TypeOK
  BY <1>1, <1>2, <1>3 DEF Init, TypeOK
<1>5. from + 0 = from
  BY <1>3, MaxTopAssumption DEF Lts
<1> QED
  BY <1>1, <1>2, <1>3, <1>4, <1>5
     DEF Init, HistoryIInv, NothingYet, ContiguousRun, PagesJoin, AllCollected, ReturnsNewestOrAll

LEMMA HistoryStep == ASSUME HistoryIInv, Next \/ UNCHANGED vars PROVE HistoryIInv'
<1>1. TypeOK /\ NothingYet /\ ContiguousRun /\ PagesJoin /\ AllCollected /\ ReturnsNewestOrAll
  BY DEF HistoryIInv
<1>top. top \in 0 .. MaxTop /\ MaxTop \in Nat
  BY <1>1, MaxTopAssumption DEF TypeOK, Lts
<1>2. CASE UNCHANGED vars
  BY <1>1, <1>2 DEF HistoryIInv, TypeOK, NothingYet, ContiguousRun, PagesJoin, AllCollected,
                    AskedNumber, ReturnsNewestOrAll, Asked, vars, args
<1>3. CASE NewTransaction
  <2>1. top' \in Lts
    BY <1>top, <1>3 DEF NewTransaction, Lts
  <2>2. TypeOK'
    BY <1>1, <1>3, <2>1 DEF NewTransaction, TypeOK, args
  <2> QED
    BY <1>1, <1>3, <2>2 DEF HistoryIInv, NewTransaction, NothingYet, ContiguousRun, PagesJoin,
                            AllCollected, AskedNumber, ReturnsNewestOrAll, Asked, args
<1>4. CASE AccountState
  <2>1. /\ pc \in {"state", "state again"} /\ pc' = "page" /\ current' = from'
        /\ from' \in 0 .. top
        /\ UNCHANGED <<top, args, reach_lt, all, refused>>
    BY <1>4 DEF AccountState
  <2>2. all = << >> /\ ~reach_lt
    BY <1>1, <2>1 DEF NothingYet
  <2>3. DOMAIN all = {} /\ Len(all) = 0
    BY <2>2
  <2>4. from' \in 0 .. MaxTop
    <3>1. from' \in 0 .. top
      BY <2>1
    <3> QED
      BY <1>top, <3>1
  <2>5. from' + 0 = from'
    <3>1. \A lt \in 0 .. MaxTop : lt + 0 = lt
      BY <1>top
    <3> QED
      BY <2>4, <3>1
  <2>6. TypeOK'
    BY <1>1, <2>1, <2>4 DEF TypeOK, args, Lts
  <2> QED
    BY <2>1, <2>2, <2>3, <2>5, <2>6 DEF HistoryIInv, NothingYet, ContiguousRun, PagesJoin,
                                  AllCollected, ReturnsNewestOrAll
<1>5. CASE AccountStateError
  BY <1>1, <1>5 DEF HistoryIInv, AccountStateError, TypeOK, NothingYet, ContiguousRun, PagesJoin,
                    AllCollected, ReturnsNewestOrAll, args
<1>6. CASE RequestRaises
  BY <1>1, <1>6 DEF HistoryIInv, RequestRaises, TypeOK, NothingYet, ContiguousRun, PagesJoin,
                    AllCollected, ReturnsNewestOrAll, args
<1>7. CASE PageArrives
  BY <1>7, PageKeeps
<1>8. CASE EmptyPage
  BY <1>8, EmptyPageKeeps
<1>9. CASE PageError
  BY <1>1, <1>9 DEF HistoryIInv, PageError, TypeOK, NothingYet, ContiguousRun, PagesJoin,
                    AllCollected, ReturnsNewestOrAll, args
<1>10. CASE Return
  BY <1>10, ReturnKeeps
<1>11. CASE Ended
  BY <1>2, <1>11 DEF Ended
<1> QED
  BY <1>2, <1>3, <1>4, <1>5, <1>6, <1>7, <1>8, <1>9, <1>10, <1>11 DEF Next

-----------------------------------------------------------------------------
(* get_block_transactions                                                  *)

\* The next request goes on where the list ends.
ListingJoins ==
    listing_pc \in {"lookup", "page", "page again"} =>
        after = start + Len(total.transactions)

ListingIInv == B!TypeOK /\ ListingJoins /\ B!ListsRestOnce

Totals == [transactions : Seq(1 .. size), incomplete : BOOLEAN]

\* The numbers and lists of a block listing.
LEMMA ListingTypes ==
    ASSUME B!TypeOK
    PROVE  /\ size \in Nat /\ start \in 0 .. size /\ after \in 0 .. size
           /\ total \in Totals /\ total.transactions \in Seq(1 .. size)
           /\ Len(total.transactions) \in 0 .. size - start
<1>1. size \in 0 .. MaxSize /\ start \in 0 .. size /\ after \in 0 .. size
  BY DEF B!TypeOK
<1>2. total \in Totals
  BY DEF B!TypeOK, Totals
<1>3. Len(total.transactions) <= size - start
  BY DEF B!TypeOK
<1>4. total.transactions \in Seq(1 .. size)
  BY <1>2 DEF Totals
<1>5. Len(total.transactions) \in Nat
  BY <1>4
<1> QED
  BY <1>1, <1>2, <1>3, <1>4, <1>5, ListingAssumption

\* A page goes on where the list ends, whether it was asked for once or twice.
LEMMA ListingPageKeeps == ASSUME ListingIInv, B!PageArrives PROVE ListingIInv'
<1> DEFINE before == total.transactions
           l == Len(before)
<1>1. PICK k \in 0 .. size - after :
         LET answer == [transactions |-> B!Listed(k), incomplete |-> after + k < size]
         IN  /\ total' = [transactions |-> before \o B!Listed(k),
                          incomplete |-> after + k < size]
             /\ IF ~(after + k < size)
                THEN listing_pc' = "returned" /\ after' = after
                ELSE IF k = 0
                THEN listing_pc' = "raised" /\ after' = after
                ELSE listing_pc' = "page" /\ after' = B!NextAfter(answer)
  BY DEF B!PageArrives, B!Merged
<1>2. /\ listing_pc \in {"page", "page again"}
      /\ size' = size /\ hashed' = hashed /\ count' = count /\ start' = start
  BY DEF B!PageArrives, B!args
<1>3. B!TypeOK /\ ListingJoins /\ B!EachOnceInOrder
  BY DEF ListingIInv, B!ListsRestOnce
<1>4. /\ size \in Nat /\ start \in 0 .. size /\ after \in 0 .. size
      /\ before \in Seq(1 .. size) /\ l \in 0 .. size - start
      /\ k \in Nat /\ after + k <= size
  BY <1>1, <1>3, ListingTypes
<1>5. after = start + l
  BY <1>2, <1>3 DEF ListingJoins
<1> DEFINE t == B!Listed(k)
<1>6. t \in Seq(1 .. size) /\ Len(t) = k /\ \A i \in 1 .. k : t[i] = after + i
  BY <1>4 DEF B!Listed
<1>7. total'.transactions = before \o t /\ total'.incomplete = (after + k < size)
  BY <1>1
<1> HIDE DEF t
<1>8. /\ before \o t \in Seq(1 .. size) /\ Len(before \o t) = l + k
      /\ \A i \in 1 .. l : (before \o t)[i] = before[i]
      /\ \A i \in l + 1 .. l + k : (before \o t)[i] = t[i - l]
  BY <1>4, <1>6, Joined
<1>9. before = [i \in 1 .. l |-> start + i]
  BY <1>3 DEF B!EachOnceInOrder
<1>10. \A i \in 1 .. l + k : (before \o t)[i] = start + i
  <2>1. \A i \in l + 1 .. l + k : i - l \in 1 .. k
    BY <1>4
  <2>2. \A i \in l + 1 .. l + k : t[i - l] = start + i
    BY <1>4, <1>5, <1>6, <2>1
  <2>3. \A i \in 1 .. l : before[i] = start + i
    BY <1>4, <1>9
  <2> QED
    <3>1. ASSUME NEW i \in 1 .. l + k PROVE (before \o t)[i] = start + i
      <4>1. CASE i \in 1 .. l
        BY <1>8, <2>3, <4>1
      <4>2. CASE i \in l + 1 .. l + k
        BY <1>8, <2>2, <4>2
      <4>3. i \in 1 .. l \/ i \in l + 1 .. l + k
        BY <1>4
      <4> QED
        BY <4>1, <4>2, <4>3
    <3> QED
      BY <3>1
<1>11. listing_pc' = "page" => after' = after + k
  <2>1. listing_pc' = "page" => k # 0
    BY <1>1
  <2>2. listing_pc' = "page" => after' = t[Len(t)]
    BY <1>1 DEF B!NextAfter, t
  <2> QED
    BY <1>4, <1>6, <2>1, <2>2
<1>12. listing_pc' \in {"returned", "raised", "page"} /\ (listing_pc' # "page" => after' = after)
  BY <1>1
<1>13. B!TypeOK'
  <2>1. total' \in Totals
    BY <1>1, <1>8 DEF Totals, t
  <2>2. after' \in 0 .. size
    BY <1>4, <1>11, <1>12
  <2>3. Len(before \o t) <= size - start
    BY <1>4, <1>5, <1>8
  <2> QED
    BY <1>2, <1>3, <1>7, <1>12, <2>1, <2>2, <2>3 DEF B!TypeOK, Totals
<1>14. ListingJoins'
  <2>1. Len(total'.transactions) = l + k
    BY <1>7, <1>8
  <2>2. listing_pc' = "page" => after' = start + (l + k)
    BY <1>4, <1>5, <1>11
  <2> HIDE DEF l
  <2> QED
    BY <1>2, <1>12, <2>1, <2>2 DEF ListingJoins
<1>15. B!EachOnceInOrder'
  <2> DEFINE s == [i \in 1 .. l + k |-> start + i]
  <2>1. s \in Seq(Nat) /\ Len(s) = l + k /\ \A i \in 1 .. l + k : s[i] = start + i
    BY <1>4
  <2>2. before \o t \in Seq(Nat)
    BY <1>4, <1>8
  <2>3. before \o t = s
    BY <1>8, <1>10, <2>1, <2>2, SameElements
  <2> QED
    BY <1>2, <1>7, <1>8, <2>3 DEF B!EachOnceInOrder
<1>16. B!ReturnsRestOfBlock'
  <2>1. listing_pc' = "returned" => ~(after + k < size)
    BY <1>1
  <2>2. Len(total'.transactions) = l + k
    BY <1>7, <1>8
  <2>3. ~(after + k < size) => l + k = size - start
    BY <1>4, <1>5
  <2> HIDE DEF l
  <2> QED
    BY <1>2, <1>7, <2>1, <2>2, <2>3 DEF B!ReturnsRestOfBlock
<1> QED
  BY <1>13, <1>14, <1>15, <1>16 DEF ListingIInv, B!ListsRestOnce

LEMMA ListingInit == B!Init => ListingIInv
<1>1. SUFFICES ASSUME B!Init PROVE ListingIInv
  OBVIOUS
<1>2. /\ size \in 0 .. MaxSize /\ hashed \in BOOLEAN /\ count \in Counts /\ start \in 0 .. size
      /\ after = start /\ listing_pc \in {"page", "lookup"}
      /\ total = [transactions |-> << >>, incomplete |-> TRUE]
  BY <1>1 DEF B!Init, B!Empty
<1>3. size \in Nat /\ start \in Nat /\ 0 <= size - start /\ start + 0 = start
  BY <1>2, ListingAssumption
<1>4. << >> \in Seq(1 .. size) /\ Len(<< >>) = 0
  OBVIOUS
<1>5. total \in Totals /\ total.transactions = << >>
  BY <1>2, <1>4 DEF Totals
<1>6. B!TypeOK
  BY <1>2, <1>3, <1>4, <1>5 DEF B!TypeOK, Totals
<1>7. B!EachOnceInOrder
  <2>1. << >> = [i \in 1 .. 0 |-> start + i]
    OBVIOUS
  <2> QED
    BY <1>4, <1>5, <2>1 DEF B!EachOnceInOrder
<1> QED
  BY <1>2, <1>3, <1>4, <1>5, <1>6, <1>7
     DEF ListingIInv, ListingJoins, B!ListsRestOnce, B!ReturnsRestOfBlock

LEMMA ListingStep == ASSUME ListingIInv, B!Next \/ UNCHANGED listingVars PROVE ListingIInv'
<1>1. B!TypeOK /\ ListingJoins /\ B!EachOnceInOrder /\ B!ReturnsRestOfBlock
  BY DEF ListingIInv, B!ListsRestOnce
<1>2. ASSUME UNCHANGED <<size, hashed, count, start, after, total>>,
             \/ listing_pc' = listing_pc
             \/ /\ listing_pc \in {"lookup", "page", "page again"}
                /\ listing_pc' \in {"page", "page again", "error", "raised"}
      PROVE  ListingIInv'
  BY <1>1, <1>2 DEF ListingIInv, ListingJoins, B!TypeOK, B!ListsRestOnce, B!EachOnceInOrder,
                    B!ReturnsRestOfBlock
<1>3. CASE UNCHANGED listingVars
  BY <1>2, <1>3 DEF listingVars
<1>4. CASE B!Lookup
  BY <1>2, <1>4 DEF B!Lookup, B!args
<1>5. CASE B!RequestRaises
  BY <1>2, <1>5 DEF B!RequestRaises, B!args
<1>6. CASE B!PageError
  BY <1>2, <1>6 DEF B!PageError, B!args
<1>7. CASE B!PageArrives
  BY <1>7, ListingPageKeeps
<1>8. CASE B!Ended
  BY <1>2, <1>8 DEF B!Ended, B!vars, B!args
<1> QED
  BY <1>3, <1>4, <1>5, <1>6, <1>7, <1>8 DEF B!Next

-----------------------------------------------------------------------------
(* A session with SyncTonlibClient                                         *)

SessionTypes == S!TypeOK /\ method \subseteq Queries

\* Only a call reads answers, those of queries only read_result and read_results,
\* and only raw_run_method waits for a load.
OnlyCallsRead ==
    /\ order # {} => session_pc \in {"init", "read", "load"}
    /\ batch # {} => session_pc = "read"
    /\ method # {} => session_pc = "load"

\* tonlib has no request twice, and none of a query that was not made or waits for
\* its load.
AskedOnce ==
    /\ inside \cap ready = {}
    /\ \A q \in fresh : S!Load(q) \notin inside \cup ready
    /\ \A q \in fresh \cup method : S!Main(q) \notin inside \cup ready
    /\ fresh \cap method = {}

\* An orderly application has no query open during a call, and what tonlib still
\* answers is read by the loop that runs or by a later one, unless it is late.
WillBeRead ==
    orderly =>
        /\ session_pc # "idle" => open = {}
        /\ inside \cup ready \subseteq order \cup {S!Main(q) : q \in open} \cup late
        /\ dropped \subseteq late

SessionIInv == SessionTypes /\ OnlyCallsRead /\ AskedOnce /\ WillBeRead

\* Requests of different queries, or of different kinds, are different.
LEMMA Distinct ==
    /\ \A p, q : S!Main(p) = S!Main(q) => p = q
    /\ \A p, q : S!Load(p) = S!Load(q) => p = q
    /\ \A p, q : S!Main(p) # S!Load(q)
    /\ \A q : S!Main(q) \notin S!Setup /\ S!Load(q) \notin S!Setup
BY DEF S!Main, S!Load, S!Setup

LEMMA RequestsOfQueries ==
    /\ S!Setup \subseteq S!Requests
    /\ \A q \in Queries : S!Main(q) \in S!Requests
    /\ \A q \in RunMethods : S!Load(q) \in S!Requests
BY DEF S!Requests

LEMMA SessionInit == S!Init => SessionIInv
BY DEF S!Init, SessionIInv, SessionTypes, S!TypeOK, OnlyCallsRead, AskedOnce, WillBeRead

LEMMA ClientInitKeeps == ASSUME SessionIInv, S!ClientInit PROVE SessionIInv'
<1> USE DEF SessionIInv, S!ClientInit, S!surroundings
<1>1. SessionTypes'
  BY RequestsOfQueries DEF SessionTypes, S!TypeOK
<1>2. OnlyCallsRead'
  BY DEF OnlyCallsRead
<1>3. AskedOnce'
  BY Distinct DEF AskedOnce
<1>4. WillBeRead'
  BY DEF WillBeRead
<1> QED
  BY <1>1, <1>2, <1>3, <1>4

LEMMA ExecuteKeeps == ASSUME SessionIInv, NEW q \in Queries, S!Execute(q) PROVE SessionIInv'
<1> USE DEF SessionIInv, S!Execute, S!surroundings
<1>1. SessionTypes'
  BY RequestsOfQueries DEF SessionTypes, S!TypeOK
<1>2. OnlyCallsRead'
  BY DEF OnlyCallsRead
<1>3. AskedOnce'
  BY Distinct DEF AskedOnce
<1>4. WillBeRead'
  BY DEF WillBeRead
<1> QED
  BY <1>1, <1>2, <1>3, <1>4

LEMMA RunMethodKeeps == ASSUME SessionIInv, NEW q \in Queries, S!RunMethod(q) PROVE SessionIInv'
<1> USE DEF SessionIInv, S!RunMethod, S!surroundings
<1>1. SessionTypes'
  BY RequestsOfQueries DEF SessionTypes, S!TypeOK
<1>2. OnlyCallsRead'
  BY DEF OnlyCallsRead
<1>3. AskedOnce'
  BY Distinct DEF AskedOnce
<1>4. WillBeRead'
  <2>1. session_pc = "idle" /\ order = {}
    BY DEF OnlyCallsRead
  <2> QED
    BY <2>1 DEF WillBeRead
<1> QED
  BY <1>1, <1>2, <1>3, <1>4

LEMMA ReadKeeps == ASSUME SessionIInv, NEW qs \in SUBSET open, S!Read(qs) PROVE SessionIInv'
<1> USE DEF SessionIInv, S!Read, S!surroundings
<1>1. SessionTypes'
  BY RequestsOfQueries DEF SessionTypes, S!TypeOK
<1>2. OnlyCallsRead'
  BY DEF OnlyCallsRead
<1>3. AskedOnce'
  BY DEF AskedOnce
<1>4. WillBeRead'
  <2>1. order = {}
    BY DEF OnlyCallsRead
  <2> QED
    BY <2>1 DEF WillBeRead
<1> QED
  BY <1>1, <1>2, <1>3, <1>4

\* An answer nobody waits for is that of a late request.
LEMMA ReceiveKeeps == ASSUME SessionIInv, NEW r \in S!Requests, S!Receive(r) PROVE SessionIInv'
<1> USE DEF SessionIInv, S!Receive, S!surroundings
<1>1. SessionTypes'
  BY DEF SessionTypes, S!TypeOK
<1>2. OnlyCallsRead'
  BY DEF OnlyCallsRead
<1>3. AskedOnce'
  BY DEF AskedOnce
<1>4. WillBeRead'
  <2>1. session_pc # "idle" /\ r \in ready /\ r \notin inside
    BY DEF OnlyCallsRead, AskedOnce
  <2>2. orderly /\ r \notin order => r \in late
    BY <2>1 DEF WillBeRead
  <2> QED
    BY <2>1, <2>2 DEF WillBeRead
<1> QED
  BY <1>1, <1>2, <1>3, <1>4

LEMMA LoopEndsKeeps == ASSUME SessionIInv, S!LoopEnds PROVE SessionIInv'
<1> USE DEF SessionIInv, S!LoopEnds, S!surroundings
<1>1. SessionTypes'
  BY DEF SessionTypes, S!TypeOK
<1>2. OnlyCallsRead'
  BY DEF OnlyCallsRead
<1>3. AskedOnce'
  BY DEF AskedOnce
<1>4. WillBeRead'
  <2>1. PICK kept \in SUBSET {q \in batch : S!Main(q) \in order} :
            /\ open' = open \cup kept
            /\ late' = late \cup (order \ {S!Main(q) : q \in kept})
    OBVIOUS
  <2>2. order \subseteq {S!Main(q) : q \in open'} \cup late'
    BY <2>1
  <2>3. session_pc' # "idle" => session_pc = "init" /\ kept = {}
    BY <2>1 DEF OnlyCallsRead
  <2>4. order' = {} /\ orderly' = orderly /\ dropped' = dropped /\ inside' = inside /\ ready' = ready
    OBVIOUS
  <2>5. orderly => inside' \cup ready' \subseteq {S!Main(q) : q \in open'} \cup late'
    BY <2>1, <2>2, <2>4 DEF WillBeRead
  <2>6. orderly => (session_pc' # "idle" => open' = {})
    BY <2>1, <2>3 DEF WillBeRead
  <2>7. orderly => dropped' \subseteq late'
    BY <2>1, <2>4 DEF WillBeRead
  <2> QED
    BY <2>4, <2>5, <2>6, <2>7 DEF WillBeRead
<1> QED
  BY <1>1, <1>2, <1>3, <1>4

LEMMA LoadReturnsKeeps == ASSUME SessionIInv, S!LoadReturns PROVE SessionIInv'
<1> USE DEF SessionIInv, S!LoadReturns, S!surroundings
<1>1. SessionTypes'
  BY RequestsOfQueries DEF SessionTypes, S!TypeOK
<1>2. OnlyCallsRead'
  BY DEF OnlyCallsRead
<1>3. AskedOnce'
  BY Distinct DEF AskedOnce
<1>4. WillBeRead'
  BY DEF WillBeRead
<1> QED
  BY <1>1, <1>2, <1>3, <1>4

LEMMA TonlibAnswersKeeps ==
    ASSUME SessionIInv, NEW r \in S!Requests, S!TonlibAnswers(r)
    PROVE  SessionIInv'
<1> USE DEF SessionIInv, S!TonlibAnswers, S!surroundings
<1>1. SessionTypes'
  BY DEF SessionTypes, S!TypeOK
<1>2. OnlyCallsRead'
  BY DEF OnlyCallsRead
<1>3. AskedOnce'
  BY DEF AskedOnce
<1>4. WillBeRead'
  BY DEF WillBeRead
<1> QED
  BY <1>1, <1>2, <1>3, <1>4

LEMMA SessionStep == ASSUME SessionIInv, S!Next \/ UNCHANGED sessionVars PROVE SessionIInv'
<1>1. CASE UNCHANGED sessionVars
  BY <1>1 DEF sessionVars, SessionIInv, SessionTypes, S!TypeOK, OnlyCallsRead, AskedOnce, WillBeRead
<1>2. CASE S!Waiting
  BY <1>1, <1>2 DEF S!Waiting, S!vars, S!surroundings, sessionVars
<1>3. CASE S!Returns
  BY <1>3 DEF S!Returns, S!surroundings, SessionIInv, SessionTypes, S!TypeOK, OnlyCallsRead,
              AskedOnce, WillBeRead
<1> QED
  BY <1>1, <1>2, <1>3, ClientInitKeeps, ExecuteKeeps, RunMethodKeeps, ReadKeeps, ReceiveKeeps,
     LoopEndsKeeps, LoadReturnsKeeps, TonlibAnswersKeeps
     DEF S!Next, S!Deadline, S!ReceiveRaises

-----------------------------------------------------------------------------
(* try_locate_tx_by_incoming_message, try_locate_tx_by_outcoming_message   *)

\* The search begins with the first probe; the block that is listed is the one of the
\* probe, and get_transactions is asked for what the listing said of it.
AtProbe ==
    /\ search_pc = "shards" => shard = 1 /\ probe = 0
    /\ search_pc \in {"list", "history"} => block = L!BlockAt(L!ProbeLt(probe))
    /\ search_pc = "history" =>
         /\ L!InBlock(shard, block) # {}
         /\ candidate = L!Latest(L!InBlock(shard, block))
         /\ found = Cardinality(L!InBlock(shard, block))

SearchIInv == L!TypeOK /\ AtProbe /\ L!NothingMissed

\* The instance's Cardinality is the one the theorems on finite sets are about.
LEMMA SameCardinality == \A s : L!Cardinality(s) = Cardinality(s)
BY DEF L!Cardinality, Cardinality

\* The numbers of a search.
LEMMA SearchNumbers ==
    ASSUME L!TypeOK
    PROVE  /\ Shards \in Nat /\ Blocks * Span \in Nat
           /\ shard \in 1 .. Shards /\ probe \in L!Probes
           /\ creation \in Nat /\ creation >= 1 /\ tip \in Nat
           /\ txs \subseteq 1 .. Blocks * Span /\ txs \subseteq Nat /\ IsFiniteSet(txs)
<1>1. Shards \in Nat /\ Blocks * Span \in Nat
  BY SearchAssumption, Product
<1>2. /\ shard \in 1 .. Shards /\ probe \in L!Probes /\ tip \in 1 .. Blocks
      /\ creation \in 1 .. Blocks * Span /\ txs \subseteq 1 .. Blocks * Span
  BY DEF L!TypeOK, L!Lts
<1>3. IsFiniteSet(txs)
  <2>1. IsFiniteSet(1 .. Blocks * Span)
    BY <1>1, FS_Interval
  <2> QED
    BY <1>2, <2>1, FS_Subset
<1> QED
  BY <1>1, <1>2, <1>3, SearchAssumption

LEMMA ProbesAre == L!Probes \subseteq 0 .. 2 /\ 0 \in L!Probes
BY DEF L!Probes

\* lt is in a block with a number, and later ones are not in an earlier block.
LEMMA BlocksOrdered ==
    /\ \A lt \in Nat \ {0} : L!BlockAt(lt) \in Nat
    /\ \A k, m \in Nat \ {0} : k <= m => L!BlockAt(k) <= L!BlockAt(m)
<1>1. \A k, m \in Nat \ {0} : k <= m => /\ (k - 1) \div Span <= (m - 1) \div Span
                                       /\ (k - 1) \div Span \in Nat
                                       /\ (m - 1) \div Span \in Nat
  <2>1. SUFFICES ASSUME NEW k \in Nat \ {0}, NEW m \in Nat \ {0}, k <= m
                 PROVE  /\ (k - 1) \div Span <= (m - 1) \div Span
                        /\ (k - 1) \div Span \in Nat
                        /\ (m - 1) \div Span \in Nat
    OBVIOUS
  <2>2. k - 1 \in Nat /\ m - 1 \in Nat /\ k - 1 <= m - 1 /\ m - 1 <= m - 1
    BY <2>1
  <2> QED
    BY <2>2, SearchAssumption, Division
<1> QED
  BY <1>1 DEF L!BlockAt

\* max of the logical times of a block, 0 if it has none.
LEMMA LatestIsMax ==
    ASSUME L!TypeOK, NEW s \in SUBSET txs
    PROVE  /\ s = {} => L!Latest(s) = 0
           /\ s # {} => L!Latest(s) \in s /\ \A l \in s : l <= L!Latest(s)
<1>1. Blocks * Span \in Nat /\ s \subseteq 0 .. Blocks * Span
  BY SearchNumbers
<1>2. s # {} => \E lt \in s : \A l \in s : l <= lt
  BY <1>1, Greatest
<1> QED
  BY <1>2 DEF L!Latest

\* The limit reaches back to the first transaction of the block: those after it, up
\* to the candidate, are of the block, too.
LEMMA LimitReaches ==
    ASSUME L!TypeOK, AtProbe, search_pc = "history", match \in L!InBlock(shard, block)
    PROVE  match \in L!Newest(L!Limit)
<1> DEFINE in == L!InBlock(shard, block)
           between == {l \in txs : match < l /\ l <= candidate}
<1>1. txs \subseteq Nat \ {0} /\ IsFiniteSet(txs)
  BY SearchNumbers
<1>2. in \subseteq txs /\ \A l \in in : L!BlockAt(l) = block
  BY DEF L!InBlock
<1>3. \A l \in txs : L!BlockAt(l) = block => l \in in
  BY DEF L!InBlock
<1>4. candidate \in in /\ \A l \in in : l <= candidate
  BY <1>2, LatestIsMax DEF AtProbe
<1>5. IsFiniteSet(in) /\ Cardinality(in) \in Nat /\ found = Cardinality(in)
  BY <1>1, <1>2, FS_Subset, FS_CardinalityType DEF AtProbe
<1>6. between \subseteq in \ {match}
  <2>1. SUFFICES ASSUME NEW l \in between PROVE l \in in \ {match}
    OBVIOUS
  <2>2. l \in txs /\ match < l /\ l <= candidate
    BY <2>1
  <2>3. match \in Nat \ {0} /\ l \in Nat \ {0} /\ candidate \in Nat \ {0}
    BY <1>1, <1>2, <1>4, <2>2
  <2>4. match <= l
    BY <2>2, <2>3
  <2>5. L!BlockAt(match) <= L!BlockAt(l) /\ L!BlockAt(l) <= L!BlockAt(candidate)
    BY <2>2, <2>3, <2>4, BlocksOrdered
  <2>6. /\ L!BlockAt(match) = block /\ L!BlockAt(candidate) = block
        /\ L!BlockAt(l) \in Nat /\ L!BlockAt(match) \in Nat
    BY <1>2, <1>4, <2>3, BlocksOrdered
  <2>7. L!BlockAt(l) = block
    BY <2>5, <2>6
  <2> QED
    BY <1>3, <2>2, <2>3, <2>7
<1>7. IsFiniteSet(in \ {match}) /\ Cardinality(in \ {match}) = Cardinality(in) - 1
  BY <1>5, FS_RemoveElement
<1>8. Cardinality(between) <= Cardinality(in \ {match}) /\ Cardinality(between) \in Nat
  BY <1>6, <1>7, FS_Subset, FS_CardinalityType
<1>9. Cardinality(between) < L!Limit
  BY <1>5, <1>7, <1>8, SearchAssumption DEF L!Limit
<1>10. match \in txs /\ match <= candidate
  BY <1>2, <1>4
<1> QED
  BY <1>9, <1>10, SameCardinality DEF L!Newest

\* Going on to the next probe leaves one more behind, which does not have the match.
LEMMA ContinueKeeps ==
    ASSUME SearchIInv, L!Continue, UNCHANGED <<direction, home, txs, match, creation>>,
           search_pc \in {"list", "history"},
           cut_short => cut_short',
           ~cut_short' => match \notin L!InBlock(shard, L!BlockAt(L!ProbeLt(probe)))
    PROVE  /\ L!NothingMissed'
           /\ search_pc' \in {"lookup", "not found"}
           /\ probe' \in L!Probes /\ shard' \in 1 .. Shards
<1>1. L!TypeOK /\ L!NothingMissed
  BY DEF SearchIInv
<1>2. Shards \in Nat /\ shard \in 1 .. Shards /\ probe \in L!Probes /\ L!Probes \subseteq 0 .. 2
  BY <1>1, SearchNumbers, ProbesAre
<1>3. \/ probe + 1 \in L!Probes /\ probe' = probe + 1 /\ shard' = shard /\ search_pc' = "lookup"
      \/ /\ probe + 1 \notin L!Probes /\ shard < Shards
         /\ probe' = 0 /\ shard' = shard + 1 /\ search_pc' = "lookup"
      \/ /\ probe + 1 \notin L!Probes /\ shard = Shards
         /\ probe' = probe /\ shard' = shard /\ search_pc' = "not found"
  BY DEF L!Continue
<1>4. /\ search_pc' \in {"lookup", "not found"}
      /\ probe' \in L!Probes /\ shard' \in 1 .. Shards
  <2>1. 0 \in L!Probes /\ shard \in Nat /\ (shard < Shards => shard + 1 \in 1 .. Shards)
    BY <1>2, ProbesAre
  <2> QED
    BY <1>2, <1>3, <2>1
<1>5. ASSUME ~cut_short', NEW s \in 1 .. Shards, NEW n \in L!Probes, L!Behind(s, n)'
      PROVE  match \notin L!InBlock(s, L!BlockAt(L!ProbeLt(n)))
  <2>1. n \in 0 .. 2 /\ probe \in 0 .. 2
    BY <1>2, <1>5
  <2>2. probe + 1 \notin L!Probes => n <= probe
    BY <1>2, <1>5, <2>1 DEF L!Probes
  <2>3. s < shard' \/ (s = shard' /\ n < probe') \/ search_pc' = "not found"
    BY <1>5 DEF L!Behind
  <2>4. s < shard \/ (s = shard /\ n < probe) \/ (s = shard /\ n = probe)
    <3>1. s \in Nat /\ shard \in Nat /\ s <= Shards /\ n \in Nat /\ probe \in Nat
      BY <1>2, <1>5, <2>1
    <3>2. CASE probe' = probe + 1 /\ shard' = shard /\ search_pc' = "lookup"
      BY <2>3, <3>1, <3>2
    <3>3. CASE probe + 1 \notin L!Probes /\ probe' = 0 /\ shard' = shard + 1 /\ search_pc' = "lookup"
      BY <2>2, <2>3, <3>1, <3>3
    <3>4. CASE probe + 1 \notin L!Probes /\ shard = Shards
      BY <2>2, <3>1, <3>4
    <3> QED
      BY <1>3, <3>2, <3>3, <3>4
  <2>5. CASE s = shard /\ n = probe
    BY <1>5, <2>5
  <2>6. CASE s < shard \/ (s = shard /\ n < probe)
    <3>1. L!Behind(s, n)
      BY <2>6 DEF L!Behind
    <3> QED
      BY <1>1, <1>5, <3>1 DEF L!NothingMissed
  <2> QED
    BY <2>4, <2>5, <2>6
<1>6. L!NothingMissed'
  <2>1. L!Probes' = L!Probes
    BY DEF L!Probes
  <2>2. \A s, n : L!InBlock(s, L!BlockAt(L!ProbeLt(n)))' = L!InBlock(s, L!BlockAt(L!ProbeLt(n)))
    BY DEF L!InBlock, L!ProbeLt, L!BlockAt
  <2> QED
    BY <1>5, <2>1, <2>2 DEF L!NothingMissed
<1> QED
  BY <1>4, <1>6

LEMMA SearchInit == L!Init => SearchIInv
<1>1. SUFFICES ASSUME L!Init PROVE SearchIInv
  OBVIOUS
<1>2. L!TypeOK
  <2>1. IsFiniteSet(txs)
    <3>1. Blocks * Span \in Nat
      BY SearchAssumption, Product
    <3>2. IsFiniteSet(1 .. Blocks * Span) /\ txs \in SUBSET (1 .. Blocks * Span)
      BY <1>1, <3>1, FS_Interval DEF L!Init, L!Lts
    <3> QED
      BY <3>2, FS_Subset
  <2>2. Cardinality(txs) \in Nat
    BY <2>1, FS_CardinalityType
  <2>3. /\ shard \in 1 .. Shards /\ found \in 0 .. L!Cardinality(txs)
        /\ tip \in 1 .. Blocks /\ block \in 0 .. tip
    BY <1>1, <2>2, SearchAssumption, SameCardinality DEF L!Init
  <2> QED
    BY <1>1, <2>3, ProbesAre DEF L!Init, L!TypeOK
<1>3. AtProbe
  BY <1>1 DEF L!Init, AtProbe
<1>4. L!NothingMissed
  BY <1>1 DEF L!Init, L!NothingMissed
<1> QED
  BY <1>2, <1>3, <1>4 DEF SearchIInv

LEMMA LookupKeeps == ASSUME SearchIInv, L!LookupBlock PROVE SearchIInv'
<1>1. L!TypeOK /\ L!NothingMissed
  BY DEF SearchIInv
<1>2. /\ search_pc = "lookup"
      /\ \/ /\ L!BlockAt(L!ProbeLt(probe)) <= tip
            /\ search_pc' = "list" /\ block' = L!BlockAt(L!ProbeLt(probe))
         \/ search_pc' = "raised" /\ block' = block
      /\ UNCHANGED <<direction, home, txs, match, foreign, creation, tip, shard, probe,
                     candidate, found, cut_short>>
  BY DEF L!LookupBlock, L!facts
<1>3. block' \in 0 .. tip
  <2>1. creation \in Nat /\ creation >= 1 /\ probe \in 0 .. 2 /\ tip \in Nat
    BY <1>1, SearchNumbers, ProbesAre
  <2>2. probe * Step \in Nat
    BY <2>1, SearchAssumption, Product
  <2>3. L!ProbeLt(probe) \in Nat \ {0}
    BY <2>1, <2>2 DEF L!ProbeLt
  <2>4. L!BlockAt(L!ProbeLt(probe)) \in Nat
    BY <2>3, BlocksOrdered
  <2>5. block \in 0 .. tip
    BY <1>1 DEF L!TypeOK
  <2> QED
    BY <1>2, <2>1, <2>4, <2>5
<1>4. L!TypeOK'
  BY <1>1, <1>2, <1>3 DEF L!TypeOK, L!Probes, L!Lts
<1>5. AtProbe'
  BY <1>2 DEF AtProbe, L!BlockAt, L!ProbeLt
<1>6. L!NothingMissed'
  BY <1>1, <1>2 DEF L!NothingMissed, L!Behind, L!InBlock, L!Probes, L!BlockAt, L!ProbeLt
<1> QED
  BY <1>4, <1>5, <1>6 DEF SearchIInv

LEMMA ListKeeps == ASSUME SearchIInv, L!ListBlock PROVE SearchIInv'
<1> DEFINE in == L!InBlock(shard, block)
<1>1. L!TypeOK /\ AtProbe /\ L!NothingMissed
  BY DEF SearchIInv
<1>2. /\ search_pc = "list" /\ found' = Cardinality(in) /\ candidate' = L!Latest(in)
      /\ \/ candidate' = 0 /\ L!Continue
         \/ candidate' # 0 /\ search_pc' = "history" /\ probe' = probe /\ shard' = shard
      /\ UNCHANGED <<direction, home, txs, match, foreign, creation, tip, block, cut_short>>
  BY SameCardinality DEF L!ListBlock, L!facts
<1>3. in \subseteq txs /\ IsFiniteSet(txs) /\ 0 \notin txs
  BY <1>1, SearchNumbers DEF L!InBlock
<1>4. /\ found' \in 0 .. L!Cardinality(txs)
      /\ candidate' \in txs \cup {0}
      /\ candidate' = 0 <=> in = {}
  <2>1. Cardinality(in) \in 0 .. Cardinality(txs)
    BY <1>3, FS_Subset, FS_CardinalityType
  <2> QED
    BY <1>1, <1>2, <1>3, <2>1, LatestIsMax, SameCardinality
<1>5. block = L!BlockAt(L!ProbeLt(probe))
  BY <1>1, <1>2 DEF AtProbe
<1>6. CASE candidate' = 0
  <2>1. L!Continue
    BY <1>2, <1>6
  <2>2. match \notin L!InBlock(shard, L!BlockAt(L!ProbeLt(probe)))
    BY <1>4, <1>5, <1>6
  <2>3. /\ L!NothingMissed'
        /\ search_pc' \in {"lookup", "not found"}
        /\ probe' \in L!Probes /\ shard' \in 1 .. Shards
    BY <1>2, <2>1, <2>2, ContinueKeeps
  <2>4. L!TypeOK'
    BY <1>1, <1>2, <1>4, <2>3 DEF L!TypeOK, L!Probes, L!Lts
  <2> QED
    BY <2>3, <2>4 DEF SearchIInv, AtProbe
<1>7. CASE candidate' # 0
  <2>1. L!TypeOK'
    BY <1>1, <1>2, <1>4, <1>7 DEF L!TypeOK, L!Probes, L!Lts
  <2>2. L!InBlock(shard, block)' = in
    BY <1>2, <1>7 DEF L!InBlock, L!BlockAt
  <2>3. AtProbe'
    <3>1. block' = L!BlockAt(L!ProbeLt(probe))'
      BY <1>2, <1>5, <1>7 DEF L!BlockAt, L!ProbeLt
    <3>2. L!Latest(L!InBlock(shard, block))' = L!Latest(in)
      BY <2>2 DEF L!Latest
    <3> QED
      BY <1>2, <1>4, <1>7, <2>2, <3>1, <3>2 DEF AtProbe
  <2>4. L!NothingMissed'
    BY <1>1, <1>2, <1>7
       DEF L!NothingMissed, L!Behind, L!InBlock, L!Probes, L!BlockAt, L!ProbeLt
  <2> QED
    BY <2>1, <2>3, <2>4 DEF SearchIInv
<1> QED
  BY <1>6, <1>7

LEMMA ScanKeeps == ASSUME SearchIInv, L!ScanHistory PROVE SearchIInv'
<1>1. L!TypeOK /\ AtProbe /\ L!NothingMissed
  BY DEF SearchIInv
<1>2. PICK n \in 0 .. L!Limit :
         /\ L!Scan(L!Newest(n))
         /\ cut_short' = (cut_short \/ L!Newest(n) # L!Newest(L!Limit))
  BY DEF L!ScanHistory
<1>3. /\ search_pc = "history"
      /\ UNCHANGED <<direction, home, txs, match, foreign, creation, tip, block, candidate, found>>
  BY DEF L!ScanHistory, L!facts
<1>4. \/ match \notin L!Newest(n) /\ L!Continue
      \/ search_pc' \in {"found", "raised"} /\ probe' = probe /\ shard' = shard
  BY <1>2 DEF L!Scan
<1>5. cut_short' \in BOOLEAN /\ (cut_short => cut_short')
  BY <1>2
<1>6. CASE match \notin L!Newest(n) /\ L!Continue
  <2>1. ~cut_short' => match \notin L!Newest(L!Limit)
    BY <1>2, <1>6
  <2>2. ~cut_short' => match \notin L!InBlock(shard, L!BlockAt(L!ProbeLt(probe)))
    BY <1>1, <1>3, <2>1, LimitReaches DEF AtProbe
  <2>3. /\ L!NothingMissed'
        /\ search_pc' \in {"lookup", "not found"}
        /\ probe' \in L!Probes /\ shard' \in 1 .. Shards
    BY <1>3, <1>5, <1>6, <2>2, ContinueKeeps
  <2>4. L!TypeOK'
    BY <1>1, <1>3, <1>5, <2>3 DEF L!TypeOK, L!Probes, L!Lts
  <2> QED
    BY <2>3, <2>4 DEF SearchIInv, AtProbe
<1>7. CASE search_pc' \in {"found", "raised"} /\ probe' = probe /\ shard' = shard
  <2>1. L!TypeOK'
    BY <1>1, <1>3, <1>5, <1>7 DEF L!TypeOK, L!Probes, L!Lts
  <2> QED
    BY <1>7, <2>1 DEF SearchIInv, AtProbe, L!NothingMissed
<1> QED
  BY <1>4, <1>6, <1>7

LEMMA SearchStep == ASSUME SearchIInv, L!Next \/ UNCHANGED searchVars PROVE SearchIInv'
<1>1. L!TypeOK /\ AtProbe /\ L!NothingMissed
  BY DEF SearchIInv
<1>2. ASSUME UNCHANGED <<direction, home, txs, match, foreign, creation, shard, probe, block,
                         candidate, found, cut_short>>,
             tip' \in 1 .. Blocks, tip <= tip',
             \/ search_pc' = search_pc
             \/ search_pc' = "raised"
             \/ (search_pc = "shards" /\ search_pc' = "lookup")
      PROVE  SearchIInv'
  <2>1. block' \in 0 .. tip'
    <3>1. block \in 0 .. tip /\ tip \in Nat
      BY <1>1, SearchNumbers DEF L!TypeOK
    <3>2. tip' \in Nat
      BY <1>2, SearchAssumption
    <3> QED
      BY <1>2, <3>1, <3>2
  <2>2. L!TypeOK'
    BY <1>1, <1>2, <2>1 DEF L!TypeOK, L!Probes, L!Lts
  <2>3. AtProbe'
    BY <1>1, <1>2 DEF AtProbe, L!InBlock, L!Latest, L!BlockAt, L!ProbeLt
  <2>4. L!NothingMissed'
    <3>1. CASE search_pc = "shards" /\ search_pc' = "lookup"
      <4>1. shard' = 1 /\ probe' = 0
        BY <1>1, <1>2, <3>1 DEF AtProbe
      <4>2. L!Probes' \subseteq 0 .. 2
        BY <1>2, ProbesAre DEF L!Probes
      <4>3. \A s \in 1 .. Shards, n \in L!Probes' : ~(s < 1) /\ ~(n < 0)
        BY <4>2, SearchAssumption
      <4> QED
        BY <3>1, <4>1, <4>3 DEF L!NothingMissed, L!Behind
    <3>2. CASE ~(search_pc = "shards" /\ search_pc' = "lookup")
      BY <1>1, <1>2, <3>2
         DEF L!NothingMissed, L!Behind, L!InBlock, L!Probes, L!BlockAt, L!ProbeLt
    <3> QED
      BY <3>1, <3>2
  <2> QED
    BY <2>2, <2>3, <2>4 DEF SearchIInv
<1>3. tip \in 1 .. Blocks /\ tip \in Nat
  BY <1>1, SearchNumbers DEF L!TypeOK
<1>4. CASE UNCHANGED searchVars
  BY <1>2, <1>3, <1>4 DEF searchVars
<1>5. CASE L!NewBlock
  <2>1. tip' = tip + 1 /\ tip < Blocks
    BY <1>5 DEF L!NewBlock
  <2>2. tip' \in 1 .. Blocks /\ tip <= tip'
    BY <1>3, <2>1, SearchAssumption
  <2> QED
    BY <1>2, <1>5, <2>2 DEF L!NewBlock, L!facts
<1>6. CASE L!Raises
  <2>1. tip' \in 1 .. Blocks /\ tip <= tip'
    BY <1>3, <1>6 DEF L!Raises
  <2>2. /\ search_pc' = "raised"
        /\ UNCHANGED <<direction, home, txs, match, foreign, creation, shard, probe, block,
                       candidate, found, cut_short>>
    BY <1>6 DEF L!Raises, L!facts
  <2> QED
    BY <1>2, <2>1, <2>2
<1>7. CASE L!GetShards
  <2>1. tip' \in 1 .. Blocks /\ tip <= tip'
    BY <1>3, <1>7 DEF L!GetShards
  <2>2. /\ search_pc = "shards" /\ search_pc' = "lookup"
        /\ UNCHANGED <<direction, home, txs, match, foreign, creation, shard, probe, block,
                       candidate, found, cut_short>>
    BY <1>7 DEF L!GetShards, L!facts
  <2> QED
    BY <1>2, <2>1, <2>2
<1>8. CASE L!Ended
  BY <1>4, <1>8 DEF L!Ended, L!vars, L!facts, searchVars
<1> QED
  BY <1>4, <1>5, <1>6, <1>7, <1>8, LookupKeeps, ListKeeps, ScanKeeps DEF L!Next

-----------------------------------------------------------------------------
(* Addresses                                                               *)

AnyHash == Hashes \cup {"zero"}
Workchains == {-1, 0, 1}
Accounts == [wc : Workchains, hash_part : AnyHash]

RawTexts ==
    [kind : {"raw"}, wc : Workchains, hash_part : AnyHash,
     letters : {"lower", "upper", "short", "bare", "BARE"}]

Bare == {"bare", "BARE"}

FriendlyTexts ==
    [kind : {"friendly"}, tag : A!Tags \cup {0}, wc : Workchains, hash_part : AnyHash,
     letters : {"same", "plain", "url", "mixed"}, crc_ok : BOOLEAN]

Objects ==
    [kind : {"address"}, wc : {0, -1}, hash_part : AnyHash, is_user_friendly : BOOLEAN,
     is_url_safe : BOOLEAN, is_bounceable : BOOLEAN, is_test_only : BOOLEAN]

AddressCells == [kind : {"cell"}, address : Accounts \cup {A!None}]

FormSets ==
    [kind : {"forms"}, raw_form : RawTexts,
     given_type : {"raw_form", "friendly_bounceable", "friendly_non_bounceable"},
     test_only : BOOLEAN]

\* A form of each kind, and what is known of its flag f.
GoodRaw(form, f) ==
    form \in RawTexts /\ f = "unknown" /\ (form.letters \in Bare => form.wc = -1)
GoodFriendly(form, f) ==
    /\ form \in FriendlyTexts /\ f \in {"yes", "no"}
    /\ form.tag \in A!Tags => A!Flag(A!IsBounceable(form.tag)) = f
GoodObject(form, f) ==
    /\ form \in Objects /\ f \in {"yes", "no", "unknown"}
    /\ IF f = "unknown" THEN ~form.is_bounceable ELSE A!Flag(form.is_bounceable) = f
GoodCell(form, f) == form \in AddressCells /\ f = "unknown"
GoodForms(form, f) ==
    /\ form \in FormSets /\ f \in {"yes", "no", "unknown"}
    /\ form.raw_form.letters \in Bare => form.raw_form.wc = -1
    /\ f # "unknown" => form.given_type = (IF f = "yes" THEN "friendly_bounceable"
                                           ELSE "friendly_non_bounceable")
LastForm(form, f) ==
    form.kind \in {"raised", "buffer", "no address"} /\ f \in {"yes", "no", "unknown"}

GoodForm(form, f) ==
    \/ GoodRaw(form, f) \/ GoodFriendly(form, f) \/ GoodObject(form, f)
    \/ GoodCell(form, f) \/ GoodForms(form, f) \/ LastForm(form, f)

\* The library prints no friendly text that cannot be read.
Printed(form) ==
    form.kind = "friendly" => form.crc_ok /\ form.tag \in A!Tags /\ form.letters # "mixed"

About(form) ==
    form.kind \in {"raw", "friendly", "address", "cell", "forms"} =>
        \/ A!Account(form) = meant
        \/ (meant = A!None /\ A!Account(form) = [wc |-> 0, hash_part |-> "zero"])

\* What a form says of the test network is t.
Says(form, t) ==
    /\ t \in BOOLEAN
    /\ form.kind = "friendly" /\ form.tag \in A!Tags => (form.tag >= 128 <=> t)
    /\ form.kind = "address" => (form.is_test_only <=> t)
    /\ form.kind = "forms" => (form.test_only <=> t)
    /\ form.kind = "raw" => ~t

\* A raw text that w wrote is in the letters of w.
RawBy(raw, w) ==
    /\ w = "library" => raw.letters = "lower"
    /\ w = "helper" => raw.letters = A!Capital(raw.hash_part)
WrittenBy(form, w) ==
    /\ w \in {"user", "library", "helper"}
    /\ form.kind = "raw" => RawBy(form, w)
    /\ form.kind = "forms" => RawBy(form.raw_form, w)

AddressIInv ==
    /\ steps \in 0 .. MaxSteps
    /\ GoodForm(value, flag) /\ About(value)
    /\ steps > 0 => Printed(value)
    /\ Says(value, test) /\ WrittenBy(value, writer)
    /\ writer # "user" => steps > 0
    /\ value.kind = "friendly" => writer # "helper"

\* Where a form has its account.
LEMMA AccountOf ==
    \A form :
        /\ form.kind \in {"raw", "friendly", "address"} =>
               A!Account(form) = [wc |-> form.wc, hash_part |-> form.hash_part]
        /\ form.kind = "cell" => A!Account(form) = form.address
        /\ form.kind = "forms" =>
               A!Account(form) = [wc |-> form.raw_form.wc, hash_part |-> form.raw_form.hash_part]
BY DEF A!Account

\* A tag byte says whether the address is bounceable.
LEMMA TagsSay ==
    /\ A!Tags = {17, 81, 145, 209}
    /\ \A b, t \in BOOLEAN : A!Tag(b, t) \in A!Tags /\ (A!IsBounceable(A!Tag(b, t)) <=> b)
    /\ \A tag \in A!Tags : A!IsBounceable(tag) \in BOOLEAN
<1>1. \A b, t \in BOOLEAN : /\ A!Tag(b, t) \in {17, 81, 145, 209}
                           /\ (b <=> A!Tag(b, t) \in {17, 145})
  BY DEF A!Tag
<1>2. A!Tags = {17, 81, 145, 209}
  <2>1. \A tag \in A!Tags : tag \in {17, 81, 145, 209}
    BY <1>1 DEF A!Tags
  <2>2. 17 \in A!Tags /\ 81 \in A!Tags /\ 145 \in A!Tags /\ 209 \in A!Tags
    <3>1. \A b, t \in BOOLEAN : A!Tag(b, t) \in A!Tags
      BY SMT DEF A!Tags
    <3>2. 17 \in A!Tags
      <4>1. A!Tag(TRUE, FALSE) = 17
        BY DEF A!Tag
      <4>2. A!Tag(TRUE, FALSE) \in A!Tags
        BY Zenon, <3>1
      <4> QED
        BY Zenon, <4>1, <4>2
    <3>3. 81 \in A!Tags
      <4>1. A!Tag(FALSE, FALSE) = 81
        BY DEF A!Tag
      <4>2. A!Tag(FALSE, FALSE) \in A!Tags
        BY Zenon, <3>1
      <4> QED
        BY Zenon, <4>1, <4>2
    <3>4. 145 \in A!Tags
      <4>1. A!Tag(TRUE, TRUE) = 145
        BY DEF A!Tag
      <4>2. A!Tag(TRUE, TRUE) \in A!Tags
        BY Zenon, <3>1
      <4> QED
        BY Zenon, <4>1, <4>2
    <3>5. 209 \in A!Tags
      <4>1. A!Tag(FALSE, TRUE) = 209
        BY DEF A!Tag
      <4>2. A!Tag(FALSE, TRUE) \in A!Tags
        BY Zenon, <3>1
      <4> QED
        BY Zenon, <4>1, <4>2
    <3> QED
      BY <3>2, <3>3, <3>4, <3>5
  <2> QED
    BY <2>1, <2>2
<1>3. A!IsBounceable(17) /\ ~A!IsBounceable(81) /\ A!IsBounceable(145) /\ ~A!IsBounceable(209)
  BY DEF A!IsBounceable
<1>4. ASSUME NEW b \in BOOLEAN, NEW t \in BOOLEAN
      PROVE  A!Tag(b, t) \in A!Tags /\ (A!IsBounceable(A!Tag(b, t)) <=> b)
  <2>1. A!Tag(b, t) \in {17, 81, 145, 209} /\ (b <=> A!Tag(b, t) \in {17, 145})
    BY <1>1
  <2> DEFINE tag == A!Tag(b, t)
  <2> HIDE DEF tag
  <2>2. tag \in {17, 81, 145, 209} => (A!IsBounceable(tag) <=> tag \in {17, 145})
    BY <1>3
  <2> QED
    BY <1>2, <2>1, <2>2 DEF tag
<1> QED
  BY <1>2, <1>4 DEF A!IsBounceable

\* The invariant says all that FormsKept says.
LEMMA AddressFollows == AddressIInv => A!FormsKept
<1>1. SUFFICES ASSUME AddressIInv PROVE A!FormsKept
  OBVIOUS
<1>2. GoodForm(value, flag) /\ About(value)
  BY <1>1 DEF AddressIInv
<1>3. flag \in {"yes", "no", "unknown"}
  BY <1>2 DEF GoodForm, GoodRaw, GoodFriendly, GoodObject, GoodCell, GoodForms, LastForm
<1>4. /\ value.kind = "raw" => GoodRaw(value, flag)
      /\ value.kind = "friendly" => GoodFriendly(value, flag)
      /\ value.kind = "address" => GoodObject(value, flag)
      /\ value.kind = "cell" => GoodCell(value, flag)
      /\ value.kind = "forms" => GoodForms(value, flag)
  BY <1>2 DEF GoodForm, GoodRaw, GoodFriendly, GoodObject, GoodCell, GoodForms, LastForm,
              RawTexts, FriendlyTexts, Objects, AddressCells, FormSets
<1>5. A!AccountKept
  BY <1>2 DEF About, A!AccountKept
<1>6. A!FlagKept
  BY <1>4 DEF A!FlagKept, GoodFriendly, GoodObject, GoodForms
<1>7. A!PrintedIsRead
  <2>1. SUFFICES ASSUME writer # "user", A!IsText(value), value.wc \in {0, -1}
                 PROVE  /\ A!FromString(value) # A!Raised
                        /\ A!DetectAddress(value) # A!Raised
                        /\ A!DetectAddress(value).raw_form
                             = A!RawText(value.wc, value.hash_part, "lower")
                           <=> writer = "library" \/ value.hash_part = "zero"
    BY DEF A!PrintedIsRead
  <2>2. CASE value.kind = "raw"
    <3>1. /\ value \in RawTexts
          /\ writer = "library" => value.letters = "lower"
          /\ writer # "library" => value.letters = A!Capital(value.hash_part)
      BY <1>1, <1>4, <2>1, <2>2 DEF AddressIInv, GoodRaw, WrittenBy, RawBy
    <3>2. /\ value.letters \in {"lower", "upper"}
          /\ value.letters = "lower" <=> writer = "library" \/ value.hash_part = "zero"
      BY <3>1 DEF A!Capital
    <3>3. A!FromString(value) = A!AddressObject(value.wc, value.hash_part, FALSE, FALSE, FALSE, FALSE)
      BY <2>1, <2>2, <3>2 DEF A!FromString
    <3>4. A!DetectAddress(value) = A!Forms(value, "raw_form", FALSE)
      BY <2>2, <3>2 DEF A!DetectAddress
    <3>5. value = A!RawText(value.wc, value.hash_part, "lower") <=> value.letters = "lower"
      BY <3>1 DEF RawTexts, A!RawText
    <3> QED
      BY <3>2, <3>3, <3>4, <3>5 DEF A!AddressObject, A!Forms, A!Raised
  <2>3. CASE value.kind = "friendly"
    <3>1. value.crc_ok /\ value.tag \in A!Tags /\ value.letters # "mixed" /\ writer = "library"
      BY <1>1, <2>1, <2>3 DEF AddressIInv, Printed, WrittenBy
    <3>2. PICK u, v, w : A!FromString(value) = A!AddressObject(value.wc, value.hash_part, TRUE, u, v, w)
      BY <2>1, <2>3, <3>1 DEF A!FromString, A!FromFriendly
    <3>3. PICK t, s : A!DetectAddress(value)
                        = A!Forms(A!RawText(value.wc, value.hash_part, "lower"), t, s)
      BY <2>3, <3>1 DEF A!DetectAddress, A!ReadFriendly
    <3> QED
      BY <3>1, <3>2, <3>3 DEF A!AddressObject, A!Forms, A!Raised
  <2> QED
    BY <2>1, <2>2, <2>3 DEF A!IsText
<1>8. A!TestFlagKept
  BY <1>1 DEF AddressIInv, Says, A!TestFlagKept
<1> QED
  BY <1>1, <1>3, <1>5, <1>6, <1>7, <1>8 DEF A!FormsKept, AddressIInv

\* A form is one of those of its kind.
LEMMA GoodByKind ==
    ASSUME NEW form, NEW f, GoodForm(form, f)
    PROVE  /\ form.kind = "raw" => GoodRaw(form, f)
           /\ form.kind = "friendly" => GoodFriendly(form, f)
           /\ form.kind = "address" => GoodObject(form, f)
           /\ form.kind = "cell" => GoodCell(form, f)
           /\ form.kind = "forms" => GoodForms(form, f)
           /\ f \in {"yes", "no", "unknown"}
BY DEF GoodForm, GoodRaw, GoodFriendly, GoodObject, GoodCell, GoodForms, LastForm,
       RawTexts, FriendlyTexts, Objects, AddressCells, FormSets

\* What is to be shown of a conversion.
Fits(form, f) == GoodForm(form, f) /\ About(form) /\ Printed(form)

\* A conversion that raises leaves nothing to print.
LEMMA RaisedFits ==
    ASSUME NEW f \in {"yes", "no", "unknown"}
    PROVE  Fits(A!Raised, f)
BY DEF Fits, GoodForm, LastForm, About, Printed, A!Raised

\* A new address object or raw text says of the account what the text before said.
LEMMA ObjectFits ==
    ASSUME NEW form, form.kind \in {"raw", "friendly", "address"}, About(form),
           NEW o \in Objects, o.wc = form.wc, o.hash_part = form.hash_part,
           NEW f \in {"yes", "no", "unknown"},
           f = "unknown" => ~o.is_bounceable,
           f # "unknown" => A!Flag(o.is_bounceable) = f
    PROVE  Fits(o, f)
<1>1. o.kind = "address"
  BY DEF Objects
<1>2. GoodObject(o, f)
  BY DEF GoodObject
<1>3. About(o)
  BY <1>1, AccountOf DEF About
<1> QED
  BY <1>1, <1>2, <1>3 DEF Fits, GoodForm, Printed

\* A raw text of the same account says nothing about bouncing.
LEMMA RawFits ==
    ASSUME NEW form, form.kind \in {"raw", "friendly", "address"}, About(form),
           form.wc \in Workchains, form.hash_part \in AnyHash,
           NEW letters \in {"lower", "upper"}
    PROVE  Fits(A!RawText(form.wc, form.hash_part, letters), "unknown")
<1> DEFINE r == A!RawText(form.wc, form.hash_part, letters)
<1>1. /\ r \in RawTexts /\ r.kind = "raw" /\ r.letters \notin Bare
      /\ r.wc = form.wc /\ r.hash_part = form.hash_part
  BY DEF RawTexts, A!RawText, Bare
<1> HIDE DEF r
<1>2. GoodRaw(r, "unknown")
  BY <1>1 DEF GoodRaw
<1>3. About(r)
  BY <1>1, AccountOf DEF About
<1> QED
  BY <1>1, <1>2, <1>3 DEF r, Fits, GoodForm, Printed

\* A friendly text that is printed.
LEMMA FriendlyFits ==
    ASSUME NEW form, form.kind \in {"raw", "friendly", "address", "forms"}, About(form),
           NEW x \in FriendlyTexts, A!Account(form) = [wc |-> x.wc, hash_part |-> x.hash_part],
           x.crc_ok, x.tag \in A!Tags, x.letters # "mixed",
           NEW f \in {"yes", "no"}, A!Flag(A!IsBounceable(x.tag)) = f
    PROVE  Fits(x, f)
<1>1. x.kind = "friendly"
  BY DEF FriendlyTexts
<1>2. GoodFriendly(x, f)
  BY DEF GoodFriendly
<1>3. About(x)
  BY <1>1, AccountOf DEF About
<1> QED
  BY <1>1, <1>2, <1>3 DEF Fits, GoodForm, Printed

LEMMA FormsFits ==
    ASSUME NEW form, form.kind \in {"raw", "friendly"}, About(form),
           NEW raw \in RawTexts, [wc |-> raw.wc, hash_part |-> raw.hash_part] = A!Account(form),
           raw.letters \in Bare => raw.wc = -1, NEW said \in BOOLEAN,
           NEW type \in {"raw_form", "friendly_bounceable", "friendly_non_bounceable"},
           NEW f \in {"yes", "no", "unknown"},
           f # "unknown" => type = (IF f = "yes" THEN "friendly_bounceable"
                                    ELSE "friendly_non_bounceable")
    PROVE  Fits(A!Forms(raw, type, said), f)
<1> DEFINE x == A!Forms(raw, type, said)
<1>1. x \in FormSets /\ x.kind = "forms" /\ x.raw_form = raw /\ x.given_type = type
  BY DEF FormSets, A!Forms
<1> HIDE DEF x
<1>2. GoodForms(x, f)
  BY <1>1 DEF GoodForms
<1>3. About(x)
  BY <1>1, AccountOf DEF About
<1> QED
  BY <1>1, <1>2, <1>3 DEF x, Fits, GoodForm, Printed

\* Address.from_string
LEMMA FromStringFits ==
    ASSUME NEW form, NEW f, GoodForm(form, f), About(form), A!IsText(form)
    PROVE  Fits(A!FromString(form), f)
<1>1. f \in {"yes", "no", "unknown"} /\ form.kind \in {"raw", "friendly"}
  BY GoodByKind DEF A!IsText
<1>2. CASE A!FromString(form) = A!Raised
  BY <1>1, <1>2, RaisedFits
<1>3. CASE form.kind = "raw" /\ A!FromString(form) # A!Raised
  <2>1. GoodRaw(form, f)
    BY <1>3, GoodByKind
  <2>2. form.wc \in {0, -1} /\ form.hash_part \in AnyHash /\ f = "unknown"
    BY <1>3, <2>1 DEF GoodRaw, RawTexts, A!FromString
  <2>3. A!FromString(form) = A!AddressObject(form.wc, form.hash_part, FALSE, FALSE, FALSE, FALSE)
    BY <1>3 DEF A!FromString
  <2>4. /\ A!FromString(form) \in Objects
        /\ A!FromString(form).wc = form.wc /\ A!FromString(form).hash_part = form.hash_part
        /\ ~A!FromString(form).is_bounceable
    BY <2>2, <2>3 DEF Objects, A!AddressObject
  <2> QED
    BY <1>3, <2>2, <2>4, ObjectFits
<1>4. CASE form.kind = "friendly" /\ A!FromString(form) # A!Raised
  <2>1. GoodFriendly(form, f)
    BY <1>4, GoodByKind
  <2> DEFINE u == form.letters \in {"url", "mixed"}
             x == A!IsBounceable(form.tag)
             y == form.tag >= 128
  <2>2. /\ form.tag \in A!Tags /\ form.wc \in {0, -1}
        /\ A!FromString(form) = A!AddressObject(form.wc, form.hash_part, TRUE, u, x, y)
    BY <1>4 DEF A!FromString, A!FromFriendly
  <2>3. x \in BOOLEAN
    BY <2>2, TagsSay
  <2>4. form.hash_part \in AnyHash /\ f # "unknown" /\ A!Flag(x) = f
    BY <2>1, <2>2 DEF GoodFriendly, FriendlyTexts
  <2>5. u \in BOOLEAN /\ y \in BOOLEAN
    OBVIOUS
  <2> HIDE DEF u, x, y
  <2>6. /\ A!FromString(form) \in Objects
        /\ A!FromString(form).wc = form.wc /\ A!FromString(form).hash_part = form.hash_part
        /\ A!FromString(form).is_bounceable = x
    BY <2>2, <2>3, <2>4, <2>5 DEF Objects, A!AddressObject
  <2> QED
    BY <1>1, <1>4, <2>4, <2>6, ObjectFits
<1> QED
  BY <1>1, <1>2, <1>3, <1>4

\* detect_address
LEMMA DetectFits ==
    ASSUME NEW form, NEW f, GoodForm(form, f), About(form), A!IsText(form)
    PROVE  Fits(A!DetectAddress(form), f)
<1>1. f \in {"yes", "no", "unknown"} /\ form.kind \in {"raw", "friendly"}
  BY GoodByKind DEF A!IsText
<1>2. A!Account(form) = [wc |-> form.wc, hash_part |-> form.hash_part]
  BY <1>1, AccountOf
<1>3. CASE A!DetectAddress(form) = A!Raised
  BY <1>1, <1>3, RaisedFits
<1>4. CASE form.kind = "raw"
  <2>1. form \in RawTexts /\ f = "unknown" /\ (form.letters \in Bare => form.wc = -1)
    BY <1>4, GoodByKind DEF GoodRaw
  <2>2. CASE form.letters \in Bare
    <3> DEFINE letters == IF form.letters = "bare" THEN "lower" ELSE "upper"
               r == A!RawText(-1, form.hash_part, letters)
    <3>1. A!DetectAddress(form) = A!Forms(r, "raw_form", FALSE)
      BY <1>4, <2>2 DEF A!DetectAddress, Bare
    <3>2. r \in RawTexts /\ r.wc = form.wc /\ r.hash_part = form.hash_part /\ r.letters \notin Bare
      BY <2>1, <2>2 DEF RawTexts, A!RawText, Workchains, Bare
    <3> DEFINE no == FALSE
    <3>3. no \in BOOLEAN
      OBVIOUS
    <3> HIDE DEF r, no
    <3>4. Fits(A!Forms(r, "raw_form", no), f)
      BY <1>1, <1>2, <2>1, <3>2, <3>3, FormsFits
    <3> QED
      BY <3>1, <3>4 DEF r, no
  <2>3. CASE form.letters \notin Bare
    <3> DEFINE no == FALSE
    <3>1. A!DetectAddress(form) = A!Forms(form, "raw_form", no) /\ no \in BOOLEAN
      BY <1>4, <2>3 DEF A!DetectAddress, Bare
    <3> HIDE DEF no
    <3> QED
      BY <1>1, <1>2, <2>1, <2>3, <3>1, FormsFits
  <2> QED
    BY <2>2, <2>3
<1>5. CASE form.kind = "friendly" /\ A!DetectAddress(form) # A!Raised
  <2> DEFINE r == A!RawText(form.wc, form.hash_part, "lower")
             type == IF A!IsBounceable(form.tag) THEN "friendly_bounceable"
                     ELSE "friendly_non_bounceable"
             said == form.tag >= 128
  <2>1. form.tag \in A!Tags /\ A!DetectAddress(form) = A!Forms(r, type, said)
    BY <1>5 DEF A!DetectAddress, A!ReadFriendly
  <2>2. GoodFriendly(form, f)
    BY <1>5, GoodByKind
  <2>3. r \in RawTexts /\ r.wc = form.wc /\ r.hash_part = form.hash_part /\ r.letters \notin Bare
    BY <2>2 DEF GoodFriendly, FriendlyTexts, RawTexts, A!RawText, Bare
  <2>4. type = IF f = "yes" THEN "friendly_bounceable" ELSE "friendly_non_bounceable"
    BY <2>1, <2>2, TagsSay DEF GoodFriendly, A!Flag
  <2>5. said \in BOOLEAN /\ type \in {"raw_form", "friendly_bounceable", "friendly_non_bounceable"}
    OBVIOUS
  <2> HIDE DEF r, type, said
  <2> QED
    BY <1>1, <1>2, <2>1, <2>3, <2>4, <2>5, FormsFits
<1> QED
  BY <1>1, <1>3, <1>4, <1>5

\* prepare_address
LEMMA PrepareFits ==
    ASSUME NEW form, NEW f, GoodForm(form, f), About(form), A!IsText(form)
    PROVE  Fits(A!PrepareAddress(form), IF f = "unknown" THEN "yes" ELSE f)
<1> DEFINE x == A!DetectAddress(form)
           known == IF f = "unknown" THEN "yes" ELSE f
<1>1. f \in {"yes", "no", "unknown"} /\ form.kind \in {"raw", "friendly"}
  BY GoodByKind DEF A!IsText
<1>2. CASE x = A!Raised
  BY <1>1, <1>2, RaisedFits DEF A!PrepareAddress
<1>3. CASE x # A!Raised
  <2>1. Fits(x, f)
    BY DetectFits
  <2>2. x.kind = "forms"
    BY <1>1, <1>3 DEF A!DetectAddress, A!ReadFriendly, A!Forms
  <2> DEFINE b == x.given_type # "friendly_non_bounceable"
  <2>3. A!PrepareAddress(form) =
          A!FriendlyText(A!Tag(b, FALSE), x.raw_form.wc, x.raw_form.hash_part,
                         A!Letters(x.raw_form.hash_part, FALSE), TRUE)
    BY <1>3 DEF A!PrepareAddress, A!Form
  <2>4. GoodForms(x, f) /\ About(x)
    BY <2>1, <2>2, GoodByKind DEF Fits
  <2>5. x.raw_form.wc \in Workchains /\ x.raw_form.hash_part \in AnyHash
    BY <2>4 DEF GoodForms, FormSets, RawTexts
  <2>6. A!Account(x) = [wc |-> x.raw_form.wc, hash_part |-> x.raw_form.hash_part]
    BY <2>2, AccountOf
  <2>7. A!Flag(b) = known
    <3>1. CASE form.kind = "raw"
      <4>1. f = "unknown"
        BY <3>1, GoodByKind DEF GoodRaw
      <4>2. x.given_type = "raw_form"
        BY <3>1 DEF A!DetectAddress, A!Forms
      <4> QED
        BY <4>1, <4>2 DEF A!Flag
    <3>2. CASE form.kind = "friendly"
      <4>1. f \in {"yes", "no"}
        BY <3>2, GoodByKind DEF GoodFriendly
      <4>2. x.given_type = IF f = "yes" THEN "friendly_bounceable" ELSE "friendly_non_bounceable"
        BY <2>4, <4>1 DEF GoodForms
      <4> QED
        BY <4>1, <4>2 DEF A!Flag
    <3> QED
      BY <1>1, <3>1, <3>2
  <2>8. b \in BOOLEAN
    OBVIOUS
  <2> DEFINE mark == A!Tag(b, FALSE)
             print == A!Letters(x.raw_form.hash_part, FALSE)
  <2>9. mark \in A!Tags /\ A!IsBounceable(mark) = b
    BY <2>8, TagsSay
  <2>10. A!Flag(A!IsBounceable(mark)) = known /\ known \in {"yes", "no"}
    BY <2>7, <2>9 DEF A!Flag
  <2>11. print \in {"same", "plain", "url"}
    BY DEF A!Letters
  <2> DEFINE chain == x.raw_form.wc
             part == x.raw_form.hash_part
  <2>12. A!PrepareAddress(form) = A!FriendlyText(mark, chain, part, print, TRUE)
    BY <2>3
  <2> DEFINE y == A!PrepareAddress(form)
  <2> HIDE DEF x, b, mark, print, known
  <2>13. /\ y \in FriendlyTexts /\ y.wc = chain /\ y.hash_part = part
         /\ y.crc_ok = TRUE /\ y.tag = mark /\ y.letters = print
    BY <2>5, <2>9, <2>11, <2>12 DEF FriendlyTexts, A!FriendlyText
  <2> HIDE DEF y
  <2>14. Fits(y, known)
    BY <2>2, <2>4, <2>6, <2>9, <2>10, <2>11, <2>13, FriendlyFits
  <2> QED
    BY <2>14 DEF y, known
<1> QED
  BY <1>2, <1>3

\* Address.to_string: a form that did not say whether it is bounceable is not.
LEMMA ToStringFits ==
    ASSUME NEW form, NEW f, GoodObject(form, f), About(form),
           NEW friendly \in {"own", "yes", "no"}, NEW url_safe \in {"own", "yes", "no"},
           NEW bounceable \in {"own", "yes", "no"}, NEW test_only \in {"own", "yes", "no"},
           NEW y, y = A!ToString(form, friendly, url_safe, bounceable, test_only)
    PROVE  Fits(y, IF y.kind = "raw" THEN "unknown"
                   ELSE IF bounceable = "own" THEN (IF f = "unknown" THEN "no" ELSE f)
                   ELSE bounceable)
<1> DEFINE said == IF bounceable = "own" THEN (IF f = "unknown" THEN "no" ELSE f) ELSE bounceable
<1>1. /\ form \in Objects /\ form.kind = "address" /\ f \in {"yes", "no", "unknown"}
      /\ form.wc \in Workchains /\ form.hash_part \in AnyHash
  BY DEF GoodObject, Objects, Workchains
<1>2. said \in {"yes", "no"}
  BY <1>1
<1>3. CASE ~A!Given(friendly, form.is_user_friendly)
  <2>1. y = A!RawText(form.wc, form.hash_part, "lower")
    BY <1>3 DEF A!ToString
  <2>2. y.kind = "raw"
    BY <2>1 DEF A!RawText
  <2>3. Fits(A!RawText(form.wc, form.hash_part, "lower"), "unknown")
    BY <1>1, RawFits
  <2> QED
    BY <2>1, <2>2, <2>3
<1>4. CASE A!Given(friendly, form.is_user_friendly) /\ form.wc = -1
  <2>1. y = A!Raised
    BY <1>4 DEF A!ToString
  <2>2. y.kind # "raw"
    BY <2>1 DEF A!Raised
  <2> HIDE DEF said
  <2>3. Fits(y, said)
    BY <1>2, <2>1, RaisedFits
  <2> QED
    BY <2>2, <2>3 DEF said
<1>5. CASE A!Given(friendly, form.is_user_friendly) /\ form.wc # -1
  <2> DEFINE b == A!Given(bounceable, form.is_bounceable)
             t == A!Given(test_only, form.is_test_only)
             mark == A!Tag(b, t)
             print == A!Letters(form.hash_part, A!Given(url_safe, form.is_url_safe))
  <2>1. y = A!FriendlyText(mark, form.wc, form.hash_part, print, TRUE)
    BY <1>5 DEF A!ToString
  <2>2. b \in BOOLEAN /\ t \in BOOLEAN
    BY <1>1 DEF A!Given, Objects
  <2>3. mark \in A!Tags /\ A!IsBounceable(mark) = b
    <3> HIDE DEF b, t
    <3> QED
      BY <2>2, TagsSay
  <2>4. A!Flag(b) = said
    BY <1>1 DEF GoodObject, Objects, A!Flag, A!Given
  <2>5. print \in {"same", "plain", "url"}
    BY DEF A!Letters
  <2> HIDE DEF b, t, mark, print, said
  <2>6. A!Flag(A!IsBounceable(mark)) = said
    BY <2>3, <2>4
  <2>7. /\ y \in FriendlyTexts /\ y.kind = "friendly" /\ y.wc = form.wc
        /\ y.hash_part = form.hash_part /\ y.crc_ok = TRUE /\ y.tag = mark /\ y.letters = print
    BY <1>1, <2>1, <2>3, <2>5 DEF FriendlyTexts, A!FriendlyText
  <2>8. A!Account(form) = [wc |-> form.wc, hash_part |-> form.hash_part]
    BY <1>1, AccountOf
  <2>9. Fits(y, said)
    BY <1>1, <1>2, <2>3, <2>5, <2>6, <2>7, <2>8, FriendlyFits
  <2> QED
    BY <2>7, <2>9 DEF said
<1> QED
  BY <1>3, <1>4, <1>5

\* to_buffer and write_address
LEMMA UseFits ==
    ASSUME NEW form, NEW f, GoodObject(form, f), About(form)
    PROVE  Fits(A!ToBuffer(form), "unknown") /\ Fits(A!ToCell(form), "unknown")
<1>1. /\ form \in Objects /\ form.kind = "address"
      /\ form.wc \in Workchains /\ form.hash_part \in AnyHash
  BY DEF GoodObject, Objects, Workchains
<1>2. Fits(A!ToBuffer(form), "unknown")
  BY DEF A!ToBuffer, A!Raised, Fits, GoodForm, LastForm, About, Printed
<1>3. Fits(A!ToCell(form), "unknown")
  <2> DEFINE x == A!ToCell(form)
             account == [wc |-> form.wc, hash_part |-> form.hash_part]
  <2>1. account \in Accounts
    BY <1>1 DEF Accounts
  <2> HIDE DEF account
  <2>2. x = [kind |-> "cell", address |-> account]
    BY DEF A!ToCell, account
  <2>3. x \in AddressCells /\ x.kind = "cell" /\ x.address = account
    BY <2>1, <2>2 DEF AddressCells
  <2>4. A!Account(form) = account
    BY <1>1, AccountOf DEF account
  <2> HIDE DEF x
  <2>5. About(x)
    BY <1>1, <2>3, <2>4, AccountOf DEF About
  <2> QED
    BY <2>3, <2>5 DEF x, Fits, GoodForm, GoodCell, Printed
<1> QED
  BY <1>2, <1>3

\* Address.from_cell and Slice.read_msg_addr
LEMMA ReadCellFits ==
    ASSUME NEW form, NEW f, GoodCell(form, f), About(form)
    PROVE  Fits(A!FromCell(form), "unknown") /\ Fits(A!ReadMsgAddr(form), "unknown")
<1>1. form \in AddressCells /\ form.kind = "cell" /\ form.address \in Accounts \cup {A!None}
  BY DEF GoodCell, AddressCells
<1>2. form.address = meant \/ (meant = A!None /\ form.address = [wc |-> 0, hash_part |-> "zero"])
  BY <1>1, AccountOf DEF About
<1>3. ASSUME NEW account \in Accounts,
             account = meant \/ (meant = A!None /\ account = [wc |-> 0, hash_part |-> "zero"])
      PROVE  Fits(A!FromString(A!RawText(account.wc, account.hash_part, "lower")), "unknown")
  <2> DEFINE r == A!RawText(account.wc, account.hash_part, "lower")
  <2>1. /\ r \in RawTexts /\ r.kind = "raw" /\ r.letters \notin Bare
        /\ r.wc = account.wc /\ r.hash_part = account.hash_part
    BY DEF RawTexts, A!RawText, Accounts, Bare
  <2>2. account = [wc |-> account.wc, hash_part |-> account.hash_part]
    BY DEF Accounts
  <2> HIDE DEF r
  <2>3. A!Account(r) = account
    BY <2>1, <2>2, AccountOf
  <2>4. About(r) /\ GoodForm(r, "unknown")
    BY <1>3, <2>1, <2>3 DEF About, GoodForm, GoodRaw
  <2> QED
    BY <2>1, <2>4, FromStringFits DEF r, A!IsText
<1>4. CASE form.address = A!None
  <2>1. A!ReadMsgAddr(form).kind = "no address"
    BY <1>4 DEF A!ReadMsgAddr
  <2>2. Fits(A!ReadMsgAddr(form), "unknown")
    BY <2>1 DEF Fits, GoodForm, LastForm, About, Printed
  <2> DEFINE zero == [wc |-> 0, hash_part |-> "zero"]
  <2>3. meant = A!None /\ zero \in Accounts
    BY <1>2, <1>4 DEF Accounts, Workchains, AnyHash
  <2>4. A!FromCell(form) = A!FromString(A!RawText(zero.wc, zero.hash_part, "lower"))
    BY <1>4 DEF A!FromCell
  <2> QED
    BY <1>3, <2>2, <2>3, <2>4
<1>5. CASE form.address # A!None
  <2>1. form.address \in Accounts
    BY <1>1, <1>5
  <2>2. /\ A!FromCell(form) = A!FromString(A!RawText(form.address.wc, form.address.hash_part, "lower"))
        /\ A!ReadMsgAddr(form) = A!FromString(A!RawText(form.address.wc, form.address.hash_part, "lower"))
    BY <1>5 DEF A!FromCell, A!ReadMsgAddr
  <2> QED
    BY <1>2, <1>3, <2>1, <2>2
<1> QED
  BY <1>4, <1>5

LEMMA UserfriendlyToRawFits ==
    ASSUME NEW form, NEW f, GoodForm(form, f), About(form), form.kind = "friendly"
    PROVE  Fits(A!UserfriendlyToRaw(form), "unknown")
<1>1. form.wc \in Workchains /\ form.hash_part \in AnyHash
  BY GoodByKind DEF GoodFriendly, FriendlyTexts
<1> QED
  BY <1>1, RawFits DEF A!UserfriendlyToRaw, A!Capital

\* One of the forms of account_forms, which say what was asked for.
LEMMA PickedFits ==
    ASSUME NEW form, NEW f, GoodForms(form, f), About(form)
    PROVE  /\ Fits(form.raw_form, "unknown")
           /\ \A b, url \in BOOLEAN : Fits(A!Form(form, b, url), A!Flag(b))
<1> DEFINE raw == form.raw_form
<1>1. /\ form.kind = "forms" /\ raw \in RawTexts /\ (raw.letters \in Bare => raw.wc = -1)
      /\ raw.kind = "raw" /\ raw.wc \in Workchains /\ raw.hash_part \in AnyHash
  BY DEF GoodForms, FormSets, RawTexts
<1>2. A!Account(form) = [wc |-> raw.wc, hash_part |-> raw.hash_part]
  BY <1>1, AccountOf
<1>3. Fits(raw, "unknown")
  <2>1. A!Account(raw) = A!Account(form)
    BY <1>1, <1>2, AccountOf
  <2> HIDE DEF raw
  <2> QED
    BY <1>1, <2>1 DEF Fits, GoodForm, GoodRaw, About, Printed
<1>4. ASSUME NEW b \in BOOLEAN, NEW url \in BOOLEAN PROVE Fits(A!Form(form, b, url), A!Flag(b))
  <2> DEFINE y == A!Form(form, b, url)
             mark == A!Tag(b, FALSE)
             print == A!Letters(raw.hash_part, url)
  <2>1. y = A!FriendlyText(mark, raw.wc, raw.hash_part, print, TRUE)
    BY DEF A!Form
  <2>2. mark \in A!Tags /\ A!IsBounceable(mark) = b
    BY TagsSay
  <2>3. print \in {"same", "plain", "url"}
    BY DEF A!Letters
  <2>4. A!Flag(b) \in {"yes", "no"} /\ A!Flag(A!IsBounceable(mark)) = A!Flag(b)
    BY <2>2 DEF A!Flag
  <2> DEFINE f2 == A!Flag(b)
  <2> HIDE DEF raw, mark, print, y, f2
  <2>5. /\ y \in FriendlyTexts /\ y.wc = raw.wc /\ y.hash_part = raw.hash_part
        /\ y.crc_ok = TRUE /\ y.tag = mark /\ y.letters = print
    BY <1>1, <2>1, <2>2, <2>3 DEF FriendlyTexts, A!FriendlyText
  <2>6. f2 \in {"yes", "no"} /\ A!Flag(A!IsBounceable(mark)) = f2
    BY <2>4 DEF f2
  <2>7. Fits(y, f2)
    BY <1>1, <1>2, <2>2, <2>3, <2>5, <2>6, FriendlyFits
  <2> QED
    BY <2>7 DEF y, f2
<1> QED
  BY <1>3, <1>4

LEMMA AddressInit == A!Init => AddressIInv
<1>1. SUFFICES ASSUME A!Init PROVE AddressIInv
  OBVIOUS
<1>2. steps \in 0 .. MaxSteps /\ ~(steps > 0) /\ writer = "user" /\ WrittenBy(value, writer)
  BY <1>1, BoundsAssumption DEF A!Init, WrittenBy, RawBy
<1>3. CASE value = [kind |-> "cell", address |-> A!None] /\ flag = "unknown" /\ test = FALSE
  <2>1. GoodForm(value, flag)
    BY <1>3 DEF GoodForm, GoodCell, AddressCells
  <2>2. About(value)
    BY <1>1 DEF A!Init, About
  <2>3. Says(value, test)
    BY <1>3 DEF Says
  <2> QED
    BY <1>2, <2>1, <2>2, <2>3 DEF AddressIInv
<1>4. CASE /\ value \in A!Typed
           /\ flag = IF value.kind = "friendly" THEN A!Flag(A!IsBounceable(value.tag)) ELSE "unknown"
           /\ test = (value.kind = "friendly" /\ value.tag >= 128)
  <2>1. GoodForm(value, flag)
    <3>1. CASE \E wc \in {-1, 0, 1}, h \in Hashes, letters \in {"lower", "upper", "short"} :
                  value = A!RawText(wc, h, letters)
      BY <1>4, <3>1 DEF A!RawText, GoodForm, GoodRaw, RawTexts, Workchains, AnyHash, Bare
    <3>2. CASE \E h \in Hashes, letters \in {"bare", "BARE"} : value = A!RawText(-1, h, letters)
      BY <1>4, <3>2 DEF A!RawText, GoodForm, GoodRaw, RawTexts, Workchains, AnyHash
    <3>3. CASE \E tag \in A!Tags \cup {0}, wc \in {-1, 0, 1}, h \in Hashes,
                  letters \in {"same", "plain", "url", "mixed"}, crc_ok \in BOOLEAN :
                  value = A!FriendlyText(tag, wc, h, letters, crc_ok)
      <4>1. value \in FriendlyTexts /\ value.kind = "friendly"
        BY <3>3 DEF A!FriendlyText, FriendlyTexts, Workchains, AnyHash
      <4>2. flag = A!Flag(A!IsBounceable(value.tag))
        BY <1>4, <4>1
      <4>3. flag \in {"yes", "no"}
        BY <4>2 DEF A!Flag
      <4> QED
        BY <4>1, <4>2, <4>3 DEF GoodForm, GoodFriendly
    <3> QED
      BY <1>4, <3>1, <3>2, <3>3 DEF A!Typed
  <2>2. About(value)
    BY <1>1 DEF A!Init, About
  <2>3. value.kind \in {"raw", "friendly"}
    BY <1>4 DEF A!Typed, A!RawText, A!FriendlyText
  <2>4. Says(value, test)
    BY <1>4, <2>3 DEF Says
  <2> QED
    BY <1>2, <2>1, <2>2, <2>4 DEF AddressIInv
<1> QED
  BY <1>1, <1>3, <1>4 DEF A!Init

\* What the conversions say of the test network, and in whose letters.
LEMMA FormSays ==
    /\ Says(A!Raised, FALSE) /\ WrittenBy(A!Raised, "library")
    /\ \A forms, is_bounceable, is_url_safe :
          LET x == A!Form(forms, is_bounceable, is_url_safe)
          IN  Says(x, FALSE) /\ WrittenBy(x, "library")
<1>1. Says(A!Raised, FALSE) /\ WrittenBy(A!Raised, "library")
  BY DEF A!Raised, Says, WrittenBy
<1>2. ASSUME NEW forms, NEW is_bounceable, NEW is_url_safe,
             NEW x, x = A!Form(forms, is_bounceable, is_url_safe)
      PROVE  Says(x, FALSE) /\ WrittenBy(x, "library")
  <2>1. x.kind = "friendly" /\ x.tag \in {17, 81}
    BY <1>2 DEF A!Form, A!FriendlyText, A!Tag
  <2>2. ~(x.tag >= 128)
    BY <2>1
  <2> QED
    BY <2>1, <2>2 DEF Says, WrittenBy
<1> QED
  BY <1>1, <1>2

LEMMA FromStringSays ==
    ASSUME NEW form, NEW t, Says(form, t), A!IsText(form)
    PROVE  Says(A!FromString(form), t) /\ WrittenBy(A!FromString(form), "library")
BY DEF A!FromString, A!FromFriendly, A!AddressObject, A!Raised, A!IsText, Says, WrittenBy

LEMMA DetectSays ==
    ASSUME NEW form, NEW t, NEW w, Says(form, t), WrittenBy(form, w), A!IsText(form)
    PROVE  /\ Says(A!DetectAddress(form), t)
           /\ WrittenBy(A!DetectAddress(form), IF form.kind = "friendly" THEN "library" ELSE w)
           /\ A!DetectAddress(form).kind # "friendly"
<1>1. CASE form.kind = "friendly"
  BY <1>1 DEF A!DetectAddress, A!ReadFriendly, A!Forms, A!RawText, A!Raised, Says, WrittenBy, RawBy
<1>2. CASE form.kind = "raw"
  BY <1>2 DEF A!DetectAddress, A!Forms, A!RawText, Says, WrittenBy, RawBy, A!Capital
<1> QED
  BY <1>1, <1>2 DEF A!IsText

LEMMA ToStringSays ==
    ASSUME NEW form, NEW t, NEW f, GoodObject(form, f), Says(form, t),
           NEW friendly, NEW url_safe, NEW bounceable, NEW test_only
    PROVE  LET x == A!ToString(form, friendly, url_safe, bounceable, test_only)
           IN  /\ Says(x, x.kind # "raw" /\ A!Given(test_only, t))
               /\ WrittenBy(x, "library")
<1>1. form.kind = "address" /\ (form.is_test_only <=> t) /\ t \in BOOLEAN
      /\ form.is_test_only \in BOOLEAN
  BY DEF GoodObject, Objects, Says
<1>2. A!Given(test_only, form.is_test_only) = A!Given(test_only, t)
  BY <1>1
<1>3. A!Given(test_only, t) \in BOOLEAN
  BY <1>1 DEF A!Given
<1>4. \A b : A!Tag(b, A!Given(test_only, t)) >= 128 <=> A!Given(test_only, t)
  BY <1>3 DEF A!Tag
<1> QED
  BY <1>2, <1>3, <1>4 DEF A!ToString, A!RawText, A!FriendlyText, A!Raised, Says, WrittenBy, RawBy

LEMMA CellSays ==
    ASSUME NEW form
    PROVE  \A x \in {A!FromCell(form), A!ReadMsgAddr(form)} :
               Says(x, FALSE) /\ WrittenBy(x, "library")
<1>1. ASSUME NEW wc, NEW h
      PROVE  /\ Says(A!FromString(A!RawText(wc, h, "lower")), FALSE)
             /\ WrittenBy(A!FromString(A!RawText(wc, h, "lower")), "library")
  BY DEF A!FromString, A!RawText, A!AddressObject, A!Raised, Says, WrittenBy
<1>2. Says(A!FromCell(form), FALSE) /\ WrittenBy(A!FromCell(form), "library")
  BY <1>1 DEF A!FromCell
<1>3. Says(A!ReadMsgAddr(form), FALSE) /\ WrittenBy(A!ReadMsgAddr(form), "library")
  <2>1. CASE form.address = A!None
    BY <2>1 DEF A!ReadMsgAddr, Says, WrittenBy
  <2>2. CASE form.address # A!None
    BY <1>1, <2>2 DEF A!ReadMsgAddr
  <2> QED
    BY <2>1, <2>2
<1> QED
  BY <1>2, <1>3

LEMMA AddressStep == ASSUME AddressIInv, A!Next \/ UNCHANGED addressVars PROVE AddressIInv'
<1>1. GoodForm(value, flag) /\ About(value) /\ steps \in 0 .. MaxSteps /\ MaxSteps \in Nat
  BY BoundsAssumption DEF AddressIInv
<1>0. Says(value, test) /\ WrittenBy(value, writer)
  BY DEF AddressIInv
<1>2. ASSUME NEW form, NEW f, NEW t, NEW w, A!Convert(form, f, t, w), Fits(form, f),
             Says(form, t), WrittenBy(form, w), form.kind = "friendly" => w # "helper"
      PROVE  AddressIInv'
  <2>1. /\ value' = form /\ flag' = f /\ steps' = steps + 1 /\ meant' = meant /\ steps < MaxSteps
        /\ test' = t /\ writer' = w
    BY <1>2 DEF A!Convert
  <2>2. steps' \in 0 .. MaxSteps
    BY <1>1, <2>1
  <2>3. GoodForm(value', flag')
    BY <1>2, <2>1 DEF Fits
  <2>4. About(value)'
    BY <1>2, <2>1 DEF Fits, About, A!Account
  <2>5. Says(value, test)' /\ WrittenBy(value, writer)' /\ steps' > 0
    BY <1>1, <1>2, <2>1 DEF Says, WrittenBy, RawBy
  <2> QED
    BY <1>2, <2>1, <2>2, <2>3, <2>4, <2>5 DEF AddressIInv, Fits
<1>3. CASE UNCHANGED addressVars
  BY <1>3 DEF addressVars, AddressIInv, About, A!Account, Says, WrittenBy, RawBy
<1>4. CASE A!Ended
  BY <1>3, <1>4 DEF A!Ended, A!addressVars, addressVars
<1>5. CASE A!Read
  <2>1. A!IsText(value)
    BY <1>5 DEF A!Read
  <2>2. CASE A!Convert(A!FromString(value), flag, test, "library")
    <3>1. Says(A!FromString(value), test) /\ WrittenBy(A!FromString(value), "library")
      BY <1>0, <2>1, FromStringSays
    <3> QED
      BY <1>1, <1>2, <2>1, <2>2, <3>1, FromStringFits
  <2>3. CASE A!Convert(A!DetectAddress(value), flag, test,
                       IF value.kind = "friendly" THEN "library" ELSE writer)
    <3>1. /\ Says(A!DetectAddress(value), test)
          /\ WrittenBy(A!DetectAddress(value), IF value.kind = "friendly" THEN "library" ELSE writer)
          /\ A!DetectAddress(value).kind # "friendly"
      BY <1>0, <1>1, <2>1, DetectSays
    <3> QED
      BY <1>1, <1>2, <2>1, <2>3, <3>1, DetectFits
  <2>4. CASE A!Convert(A!PrepareAddress(value), A!Known("yes"), FALSE, "library")
    <3>1. Says(A!PrepareAddress(value), FALSE) /\ WrittenBy(A!PrepareAddress(value), "library")
      BY FormSays DEF A!PrepareAddress
    <3> QED
      BY <1>1, <1>2, <2>1, <2>4, <3>1, PrepareFits DEF A!Known
  <2>5. CASE value.kind = "friendly"
             /\ A!Convert(A!UserfriendlyToRaw(value), "unknown", FALSE, "helper")
    <3>1. /\ Says(A!UserfriendlyToRaw(value), FALSE)
          /\ WrittenBy(A!UserfriendlyToRaw(value), "helper")
          /\ A!UserfriendlyToRaw(value).kind = "raw"
      BY DEF A!UserfriendlyToRaw, A!RawText, Says, WrittenBy, RawBy
    <3> QED
      BY <1>1, <1>2, <2>5, <3>1, UserfriendlyToRawFits
  <2> QED
    BY <1>5, <2>2, <2>3, <2>4, <2>5 DEF A!Read
<1>6. CASE A!Write
  <2>1. PICK friendly \in {"own", "yes", "no"}, url_safe \in {"own", "yes", "no"},
             bounceable \in {"own", "yes", "no"}, test_only \in {"own", "yes", "no"} :
           LET form == A!ToString(value, friendly, url_safe, bounceable, test_only)
           IN  A!Convert(form, IF form.kind = "raw" THEN "unknown"
                               ELSE IF bounceable = "own" THEN A!Known("no") ELSE bounceable,
                         form.kind # "raw" /\ A!Given(test_only, test), "library")
    BY <1>6 DEF A!Write
  <2> DEFINE form == A!ToString(value, friendly, url_safe, bounceable, test_only)
  <2>2. GoodObject(value, flag)
    BY <1>1, <1>6, GoodByKind DEF A!Write
  <2>3. Fits(form, IF form.kind = "raw" THEN "unknown"
                   ELSE IF bounceable = "own" THEN (IF flag = "unknown" THEN "no" ELSE flag)
                   ELSE bounceable)
    <3> HIDE DEF form
    <3>1. form = A!ToString(value, friendly, url_safe, bounceable, test_only)
      BY DEF form
    <3> QED
      BY <1>1, <2>2, <3>1, ToStringFits
  <2>4. /\ Says(form, form.kind # "raw" /\ A!Given(test_only, test))
        /\ WrittenBy(form, "library")
    BY <1>0, <1>6, <2>2, ToStringSays DEF A!Write
  <2> QED
    BY <1>2, <2>1, <2>3, <2>4 DEF A!Known
<1>7. CASE A!Use
  <2>1. \A form \in {A!ToBuffer(value), A!ToCell(value)} :
            Says(form, FALSE) /\ WrittenBy(form, "library")
    BY DEF A!ToBuffer, A!ToCell, A!Raised, Says, WrittenBy
  <2> QED
    BY <1>1, <1>2, <1>7, <2>1, GoodByKind, UseFits DEF A!Use
<1>8. CASE A!ReadCell
  <2>1. \A form \in {A!FromCell(value), A!ReadMsgAddr(value)} :
            Says(form, FALSE) /\ WrittenBy(form, "library")
    BY CellSays
  <2> QED
    BY <1>1, <1>2, <1>8, <2>1, GoodByKind, ReadCellFits DEF A!ReadCell
<1>9. CASE A!PickForm
  <2>1. GoodForms(value, flag)
    BY <1>1, <1>9, GoodByKind DEF A!PickForm
  <2>2. CASE A!Convert(value.raw_form, "unknown", FALSE, writer)
    <3>1. value.kind = "forms" /\ value.raw_form.kind = "raw"
      BY <2>1 DEF GoodForms, FormSets, RawTexts
    <3>2. Says(value.raw_form, FALSE) /\ WrittenBy(value.raw_form, writer)
      BY <1>0, <3>1 DEF Says, WrittenBy
    <3> QED
      BY <1>1, <1>2, <2>1, <2>2, <3>1, <3>2, PickedFits
  <2>3. ASSUME NEW b \in BOOLEAN, NEW url \in BOOLEAN,
               A!Convert(A!Form(value, b, url), A!Flag(b), FALSE, "library")
        PROVE  AddressIInv'
    <3>1. Fits(A!Form(value, b, url), A!Flag(b))
      BY <1>1, <2>1, PickedFits
    <3>2. Says(A!Form(value, b, url), FALSE) /\ WrittenBy(A!Form(value, b, url), "library")
      BY FormSays
    <3> QED
      BY <1>2, <2>3, <3>1, <3>2
  <2> QED
    BY <1>9, <2>2, <2>3 DEF A!PickForm
<1> QED
  BY <1>3, <1>4, <1>5, <1>6, <1>7, <1>8, <1>9 DEF A!Next

-----------------------------------------------------------------------------
(* The calls together                                                      *)

IInv ==
    /\ InHistory => HistoryIInv
    /\ InListing => ListingIInv
    /\ InSearch => SearchIInv
    /\ InSession => SessionIInv
    /\ InAddresses => AddressIInv
    /\ InRetry => RetryIInv

LEMMA IInvInit == CallsInit => IInv
<1> SUFFICES ASSUME CallsPartsInit PROVE IInv
  BY DEF CallsInit
<1>1. InHistory => HistoryIInv
  BY HistoryInit DEF CallsPartsInit
<1>2. InListing => ListingIInv
  BY ListingInit DEF CallsPartsInit
<1>3. InSearch => SearchIInv
  BY SearchInit DEF CallsPartsInit
<1>4. InSession => SessionIInv
  BY SessionInit DEF CallsPartsInit
<1>5. InAddresses => AddressIInv
  BY AddressInit DEF CallsPartsInit
<1>6. InRetry => RetryIInv
  BY RetryInit DEF CallsPartsInit
<1> QED
  BY <1>1, <1>2, <1>3, <1>4, <1>5, <1>6 DEF IInv

\* A behaviour stays with the call it began with.
LEMMA SameCall ==
    ASSUME [CallsNext]_allVars
    PROVE  /\ InHistory' <=> InHistory
           /\ InListing' <=> InListing
           /\ InSearch' <=> InSearch
           /\ InSession' <=> InSession
           /\ InAddresses' <=> InAddresses
           /\ InRetry' <=> InRetry
<1> call' = call
  BY DEF CallsNext, allVars
<1> QED
  BY DEF InHistory, InListing, InSearch, InSession, InAddresses, InRetry

\* Each step of a behaviour is one of the call it is about.
LEMMA OwnSteps ==
    ASSUME [CallsNext]_allVars
    PROVE  /\ InHistory => Next \/ UNCHANGED vars
           /\ InListing => B!Next \/ UNCHANGED listingVars
           /\ InSearch => L!Next \/ UNCHANGED searchVars
           /\ InSession => S!Next \/ UNCHANGED sessionVars
           /\ InAddresses => A!Next \/ UNCHANGED addressVars
           /\ InRetry => R!Next \/ UNCHANGED retryVars
BY DEF CallsNext, allVars

LEMMA IInvStep == IInv /\ [CallsNext]_allVars => IInv'
<1> SUFFICES ASSUME IInv, [CallsNext]_allVars PROVE IInv'
  OBVIOUS
<1>1. (InHistory => HistoryIInv)'
  BY SameCall, OwnSteps, HistoryStep DEF IInv
<1>2. (InListing => ListingIInv)'
  BY SameCall, OwnSteps, ListingStep DEF IInv
<1>3. (InSearch => SearchIInv)'
  BY SameCall, OwnSteps, SearchStep DEF IInv
<1>4. (InSession => SessionIInv)'
  BY SameCall, OwnSteps, SessionStep DEF IInv
<1>5. (InAddresses => AddressIInv)'
  BY SameCall, OwnSteps, AddressStep DEF IInv
<1>6. (InRetry => RetryIInv)'
  BY SameCall, OwnSteps, RetryStep DEF IInv
<1> QED
  BY <1>1, <1>2, <1>3, <1>4, <1>5, <1>6 DEF IInv

\* Each call keeps its own part; the others stand still.
LEMMA Invariance == CallsSpec => []IInv
BY IInvInit, IInvStep, PTL DEF CallsSpec

-----------------------------------------------------------------------------
\* Whatever the limit, the page size and the growth of the account, what
\* get_transactions returns starts with the newest transaction it was asked for and has
\* no gap; it is all that was asked for unless a page was answered with an error.
THEOREM HistoryIsNewestOrAll == CallsSpec => []HistoryReturnsNewestOrAll
<1>1. IInv => HistoryReturnsNewestOrAll
  BY DEF IInv, HistoryIInv, HistoryReturnsNewestOrAll
<1> QED
  BY <1>1, Invariance, PTL

\* However the liteserver cuts a block's list into pages, get_block_transactions joins
\* the transactions after the one it was given, each once and in their order, and a
\* call that returns has the rest of the block.
THEOREM ListingIsComplete == CallsSpec => []ListingListsRestOnce
<1>1. IInv => ListingListsRestOnce
  BY DEF IInv, ListingIInv, ListingListsRestOnce
<1> QED
  BY <1>1, Invariance, PTL

\* Whatever the number of shards and blocks and the step between probes,
\* try_locate_tx_by_* leaves no block behind that has the transaction it looks for
\* (unless get_transactions returned less than it was asked for), so that "Tx not
\* found" means that no block it probed has it.
THEOREM SearchIsThorough == CallsSpec => []SearchNothingMissed
<1>1. IInv => SearchNothingMissed
  BY DEF IInv, SearchIInv, SearchNothingMissed
<1> QED
  BY <1>1, Invariance, PTL

\* A SyncTonlibClient that receives answers only while a call waits for them throws
\* away none but those that nobody reads any more since their call ended with an
\* exception (_sync/_client.py).
THEOREM AnswersAreKept == CallsSpec => []SessionAnswersKept
<1>1. IInv => SessionAnswersKept
  BY DEF IInv, SessionIInv, WillBeRead, SessionAnswersKept, S!OnlyLateAnswersDropped
<1> QED
  BY <1>1, Invariance, PTL

\* No chain of conversions, however long, changes the account an address is about or
\* turns its bounceable or its test flag around; what the library prints it also reads,
\* and the search for a transaction finds the account by it unless it is what
\* userfriendly_to_raw wrote (_address.py, provider/_address.py, _utils.py).
THEOREM AddressesAreKept == CallsSpec => []FormsKept
<1>1. IInv => FormsKept
  BY AddressFollows DEF IInv, FormsKept
<1> QED
  BY <1>1, Invariance, PTL

\* retry_async, however many repeats it is given, makes them all, in the archive only
\* the last; it returns the result of the latest success, and raises only when the last
\* attempt failed.
THEOREM RetriesKeepSuccess == CallsSpec => []RetryKeepsSuccess
<1>1. IInv => RetryKeepsSuccess
  BY RetryFollows DEF IInv, RetryKeepsSuccess
<1> QED
  BY <1>1, Invariance, PTL

\* The variables of a call keep their types, and the pages get_transactions has joined
\* have no gap and no repetition.
THEOREM CallsInvariance == CallsSpec => []CallsInvariant
<1>1. IInv => CallsInvariant
  BY DEF IInv, HistoryIInv, ListingIInv, SearchIInv, SessionIInv, SessionTypes, CallsInvariant
<1> QED
  BY <1>1, Invariance, PTL
===============================================================================

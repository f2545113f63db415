-------------------------- MODULE RemoteCallsProofs --------------------------
(***************************************************************************)
(* Theorems about RemoteCalls for any numbers of retries, any size of a    *)
(* page and of a repository, and any prices: its types, that an absence    *)
(* the search reports is real, that an attempt leaves one issue, and what  *)
(* it can be charged at most.                                              *)
(***************************************************************************)
EXTENDS RemoteCalls, SequenceTheorems, TLAPS

\* While the search has found nothing, an issue that existed when it began is on a
\* page it has not read, unless something was deleted.
SearchIsAhead ==
  pc = "search" /\ known /\ ~shrunk => \E i \in Ours(listing) : i > (page - 1) * PageSize

\* Before the creation there is no issue but one that an earlier attempt asked for.
NoneYet ==
  /\ pc \in {"preflight", "model", "validate", "check"} => Ours(listing) = {} /\ ~pending /\ ~late
  /\ pc \in {"search", "create"} /\ posts = 0 /\ ~known /\ ~late => Ours(listing) = {}
  /\ pc = "create" => posts = 0

\* What one generation can be charged, and how much of it no reply tells of.
Round == (ModelRetries + 1) * MaxCharge
Lost  == ModelRetries * MaxCharge

\* The repairs and retries that an attempt has used up pay for what it was charged so
\* far, and the retries alone for what its metadata do not tell.
SpentSoFar ==
  /\ pc = "preflight" =>
       charged <= repair * Round /\ charged <= cost + repair * Lost
  /\ pc = "model" =>
       /\ charged <= repair * Round + attempt * MaxCharge
       /\ charged <= cost + repair * Lost + attempt * MaxCharge
  /\ pc \in {"validate", "check"} =>
       charged <= (repair + 1) * Round /\ charged <= cost + (repair + 1) * Lost

IInv ==
  /\ TypeOK
  /\ AbsenceIsReal
  /\ IssueIsUnique
  /\ SpendIsBounded
  /\ SearchIsAhead
  /\ NoneYet
  /\ SpentSoFar

-----------------------------------------------------------------------------
(* The listing of the issues.                                              *)

\* A new item comes first and moves every other one place back.
LEMMA Prepended ==
  ASSUME NEW list \in Seq(Items), NEW item \in Items
  PROVE  /\ <<item>> \o list \in Seq(Items)
         /\ \A i \in Ours(list) : i + 1 \in Ours(<<item>> \o list)
         /\ \A i \in Ours(<<item>> \o list) : (i = 1 /\ item = "ours") \/ i - 1 \in Ours(list)
         /\ Ours(list) \subseteq Nat \ {0}
<1> DEFINE new == <<item>> \o list
<1>1. /\ new \in Seq(Items) /\ Len(new) = Len(list) + 1 /\ new[1] = item
      /\ \A i \in 1..Len(list) : new[i + 1] = list[i]
  <2>1. <<item>> \in Seq(Items) /\ Len(<<item>>) = 1 /\ <<item>>[1] = item
    OBVIOUS
  <2>2. Len(list) \in Nat
    BY LenProperties
  <2> QED
    BY <2>1, <2>2, ConcatProperties
<1>2. DOMAIN new = 1..Len(new) /\ DOMAIN list = 1..Len(list) /\ Len(list) \in Nat
  BY <1>1, LenProperties
<1>3. \A i \in Ours(list) : i + 1 \in Ours(new)
  BY <1>1, <1>2 DEF Ours
<1>4. ASSUME NEW i \in Ours(new) PROVE (i = 1 /\ item = "ours") \/ i - 1 \in Ours(list)
  <2>1. i \in 1..(Len(list) + 1) /\ new[i] = "ours"
    BY <1>1, <1>2, <1>4 DEF Ours
  <2>2. CASE i = 1
    BY <2>1, <2>2, <1>1
  <2>3. CASE i # 1
    <3>1. i - 1 \in 1..Len(list) /\ (i - 1) + 1 = i
      BY <2>1, <2>3, <1>2
    <3> QED
      BY <3>1, <2>1, <1>1, <1>2 DEF Ours
  <2> QED
    BY <2>2, <2>3
<1> QED
  BY <1>1, <1>2, <1>3, <1>4 DEF Ours

\* An item that goes takes no issue of ours with it, and moves those behind it one
\* place forward.
LEMMA Removed ==
  ASSUME NEW list \in Seq(Items), NEW i \in DOMAIN list,
         NEW new, new = SubSeq(list, 1, i - 1) \o SubSeq(list, i + 1, Len(list))
  PROVE  /\ new \in Seq(Items)
         /\ \A j \in Ours(new) : j \in Nat /\ (IF j < i THEN j ELSE j + 1) \in Ours(list)
<1> DEFINE front == SubSeq(list, 1, i - 1)
           back  == SubSeq(list, i + 1, Len(list))
<1>1. /\ Len(list) \in Nat /\ DOMAIN list = 1..Len(list) /\ i \in 1..Len(list)
      /\ \A j \in 1..Len(list) : list[j] \in Items
  BY LenProperties
<1>2. /\ front \in Seq(Items) /\ Len(front) = i - 1
      /\ \A j \in 1..(i - 1) : front[j] = list[j]
  <2>1. \A j \in 1..(i - 1) : list[j] \in Items
    BY <1>1
  <2>2. /\ front \in Seq(Items)
        /\ Len(front) = (IF 1 <= i - 1 THEN (i - 1) - 1 + 1 ELSE 0)
        /\ \A j \in 1..((i - 1) - 1 + 1) : front[j] = list[1 + j - 1]
    BY <1>1, <2>1, SubSeqProperties
  <2> QED
    BY <1>1, <2>2
<1>3. /\ back \in Seq(Items) /\ Len(back) = Len(list) - i
      /\ \A j \in 1..(Len(list) - i) : back[j] = list[i + j]
  <2>1. \A j \in (i + 1)..Len(list) : list[j] \in Items
    BY <1>1
  <2>2. /\ back \in Seq(Items)
        /\ Len(back) = (IF i + 1 <= Len(list) THEN Len(list) - (i + 1) + 1 ELSE 0)
        /\ \A j \in 1..(Len(list) - (i + 1) + 1) : back[j] = list[(i + 1) + j - 1]
    BY <1>1, <2>1, SubSeqProperties
  <2> QED
    BY <1>1, <2>2
<1>4. /\ new \in Seq(Items) /\ Len(new) = Len(list) - 1
      /\ \A j \in 1..(Len(list) - 1) :
           new[j] = IF j <= i - 1 THEN front[j] ELSE back[j - (i - 1)]
  <2> HIDE DEF front, back
  <2>1. new = front \o back
    BY DEF front, back
  <2>0. front \in Seq(Items) /\ back \in Seq(Items)
    BY <1>2, <1>3
  <2>2. /\ front \o back \in Seq(Items) /\ Len(front \o back) = Len(front) + Len(back)
        /\ \A j \in 1..(Len(front) + Len(back)) :
             (front \o back)[j] = IF j <= Len(front) THEN front[j] ELSE back[j - Len(front)]
    BY <2>0, ConcatProperties
  <2>3. Len(front) + Len(back) = Len(list) - 1
    BY <1>1, <1>2, <1>3
  <2> QED
    BY <1>2, <2>1, <2>2, <2>3
<1>5. ASSUME NEW j \in Ours(new)
      PROVE  j \in Nat /\ (IF j < i THEN j ELSE j + 1) \in Ours(list)
  <2> HIDE DEF front, back
  <2>1. j \in 1..(Len(list) - 1) /\ new[j] = "ours"
    BY <1>4, <1>5, LenProperties DEF Ours
  <2>2. CASE j < i
    <3>1. j \in 1..(i - 1) /\ j \in 1..Len(list) /\ j <= i - 1
      BY <2>1, <2>2, <1>1
    <3>2. list[j] = "ours"
      BY <3>1, <2>1, <1>2, <1>4
    <3> QED
      BY <2>2, <3>1, <3>2, <1>1 DEF Ours
  <2>3. CASE ~(j < i)
    <3>0. j \in Nat /\ i \in Nat /\ Len(list) \in Nat /\ j >= i /\ j <= Len(list) - 1 /\ i >= 1
      BY <2>1, <2>3, <1>1
    <3>1. /\ j - (i - 1) \in 1..(Len(list) - i) /\ i + (j - (i - 1)) = j + 1
          /\ ~(j <= i - 1) /\ j + 1 \in 1..Len(list)
      BY <3>0
    <3>2. list[j + 1] = "ours"
      BY <3>1, <2>1, <1>3, <1>4
    <3> QED
      BY <2>3, <2>1, <3>1, <3>2, <1>1 DEF Ours
  <2> QED
    BY <2>1, <2>2, <2>3
<1> QED
  BY <1>4, <1>5

\* A page without an issue of ours has none in its places of the list, and a list
\* whose k-th page is not full ends on it.
LEMMA PageFacts ==
  ASSUME listing \in Seq(Items), NEW k \in Nat \ {0}, Ours(Page(k)) = {}
  PROVE  /\ \A i \in Ours(listing) : i <= (k - 1) * PageSize \/ i > k * PageSize
         /\ LastPage(k) => \A i \in Ours(listing) : i <= (k - 1) * PageSize
<1> DEFINE first == (k - 1) * PageSize
           last  == IF k * PageSize < Len(listing) THEN k * PageSize ELSE Len(listing)
<1>1. /\ Len(listing) \in Nat /\ DOMAIN listing = 1..Len(listing)
      /\ \A j \in 1..Len(listing) : listing[j] \in Items
  BY LenProperties
<1>2. first \in Nat /\ k * PageSize = first + PageSize /\ PageSize \in Nat \ {0}
  BY RemoteCallsAssumption
<1> HIDE DEF first
<1>3. last \in Nat /\ last <= Len(listing) /\ last <= first + PageSize
  BY <1>1, <1>2
<1>4. /\ Page(k) \in Seq(Items)
      /\ Len(Page(k)) = (IF first + 1 <= last THEN last - first ELSE 0)
      /\ \A j \in 1..(last - first) : Page(k)[j] = listing[first + j]
  <2>1. \A j \in (first + 1)..last : listing[j] \in Items
    BY <1>1, <1>2, <1>3
  <2>2. Page(k) = SubSeq(listing, first + 1, last)
    BY DEF Page, first
  <2> HIDE DEF last
  <2>3. /\ Page(k) \in Seq(Items)
        /\ Len(Page(k)) = (IF first + 1 <= last THEN last - (first + 1) + 1 ELSE 0)
        /\ \A j \in 1..(last - (first + 1) + 1) : Page(k)[j] = listing[(first + 1) + j - 1]
    BY <1>2, <1>3, <2>1, <2>2, SubSeqProperties
  <2> QED
    BY <1>2, <1>3, <2>3
<1>5. ASSUME NEW i \in Ours(listing), i > first PROVE i > last
  <2>1. i \in 1..Len(listing) /\ listing[i] = "ours"
    BY <1>1 DEF Ours
  <2> SUFFICES ASSUME i <= last PROVE FALSE
    BY <2>1, <1>3
  <2>2. i - first \in 1..(last - first) /\ first + (i - first) = i
    BY <2>1, <1>2, <1>3, <1>5
  <2>3. Page(k)[i - first] = "ours" /\ i - first \in 1..Len(Page(k))
    BY <2>1, <2>2, <1>2, <1>3, <1>4
  <2>4. DOMAIN Page(k) = 1..Len(Page(k))
    BY <1>4, LenProperties
  <2> QED
    BY <2>3, <2>4 DEF Ours
<1>6. ASSUME NEW i \in Ours(listing), i > first PROVE i > k * PageSize /\ ~LastPage(k)
  <2>1. i \in 1..Len(listing) /\ i > last
    BY <1>1, <1>5, <1>6 DEF Ours
  <2>2. last = k * PageSize /\ i > k * PageSize
    BY <2>1, <1>1, <1>2
  <2>3. Len(Page(k)) = PageSize
    BY <2>2, <1>2, <1>4
  <2> QED
    BY <2>2, <2>3, <1>2 DEF LastPage
<1>7. \A i \in Ours(listing) : i \in Nat
  BY <1>1 DEF Ours
<1> QED
  BY <1>2, <1>6, <1>7 DEF first

-----------------------------------------------------------------------------
(* What a generation can be charged.                                       *)

\* One more charge within a generation, and one more generation within an attempt.
LEMMA Rounds ==
  ASSUME NEW n \in 0..MaxRepairAttempts, NEW k \in 0..ModelRetries, NEW charge \in 0..MaxCharge
  PROVE  /\ Round \in Nat /\ Lost \in Nat /\ MaxSpend \in Nat
         /\ n * Round \in Nat /\ n * Lost \in Nat /\ k * MaxCharge \in Nat
         /\ (n + 1) * Round = n * Round + Round /\ (n + 1) * Lost = n * Lost + Lost
         /\ (n + 1) * Round <= MaxSpend
         /\ (n + 1) * Lost = (n + 1) * ModelRetries * MaxCharge
         /\ k * MaxCharge <= Lost /\ k * MaxCharge + charge <= Round
         /\ k < ModelRetries => k * MaxCharge + charge <= (k + 1) * MaxCharge
                                /\ (k + 1) * MaxCharge <= Lost
<1>0. /\ ModelRetries \in Nat /\ MaxRepairAttempts \in Nat /\ MaxCharge \in Nat
      /\ n \in Nat /\ k \in Nat /\ charge \in Nat
  BY RemoteCallsAssumption
<1>1. ASSUME NEW a \in Nat, NEW b \in Nat, NEW c \in Nat
      PROVE  /\ a * c \in Nat /\ (a + 1) * c = a * c + c
             /\ a <= b => a * c <= b * c
             /\ a * (b * c) = (a * b) * c
  BY <1>1
<1>2. Round = Lost + MaxCharge /\ Lost \in Nat /\ Round \in Nat
  BY <1>0, <1>1 DEF Round, Lost
<1>3. MaxSpend = (MaxRepairAttempts + 1) * Round
  BY <1>0, <1>1 DEF MaxSpend, Round
<1>4. n * Round \in Nat /\ n * Lost \in Nat /\ k * MaxCharge \in Nat
  BY <1>0, <1>1, <1>2
<1>5. (n + 1) * Round = n * Round + Round /\ (n + 1) * Lost = n * Lost + Lost
  BY <1>0, <1>1, <1>2
<1>6. (n + 1) * Round <= MaxSpend /\ MaxSpend \in Nat
  <2>1. n + 1 \in Nat /\ MaxRepairAttempts + 1 \in Nat /\ n + 1 <= MaxRepairAttempts + 1
    BY <1>0
  <2> QED
    BY <2>1, <1>1, <1>2, <1>3
<1>7. (n + 1) * Lost = (n + 1) * ModelRetries * MaxCharge
  BY <1>0, <1>1 DEF Lost
<1>8. k * MaxCharge <= Lost
  BY <1>0, <1>1 DEF Lost
<1>9. k * MaxCharge + charge <= Round
  BY <1>0, <1>2, <1>4, <1>8
<1>10. ASSUME k < ModelRetries
       PROVE  k * MaxCharge + charge <= (k + 1) * MaxCharge /\ (k + 1) * MaxCharge <= Lost
  <2>1. (k + 1) * MaxCharge = k * MaxCharge + MaxCharge /\ k + 1 \in Nat /\ k + 1 <= ModelRetries
    BY <1>0, <1>1, <1>10
  <2> QED
    BY <2>1, <1>0, <1>1, <1>4 DEF Lost
<1> QED
  BY <1>2, <1>4, <1>5, <1>6, <1>7, <1>8, <1>9, <1>10

-----------------------------------------------------------------------------
(* The inductive invariant.                                                *)

LEMMA InitIInv == Init => IInv
<1> SUFFICES ASSUME Init PROVE IInv
  OBVIOUS
<1>1. listing \in Listings
  BY DEF Init
<1>2. PICK n \in 0..MaxIssues : listing \in [1..n -> Items]
  BY <1>1 DEF Listings
<1>3. listing \in Seq(Items)
  BY <1>2, SeqDef, RemoteCallsAssumption
<1>4. DOMAIN listing = 1..n /\ Ours(listing) \subseteq 1..n
  BY <1>2 DEF Ours
<1>5. /\ pc \in {"preflight", "search"} /\ alive = TRUE /\ attempt = 0 /\ repair = 0
      /\ cost = 0 /\ charged = 0 /\ posts = 0 /\ page = 1 /\ shrunk = FALSE /\ late = FALSE
      /\ known <=> Ours(listing) # {}
  BY DEF Init
<1>6. pending \in BOOLEAN /\ known \in BOOLEAN
  BY Zenon DEF Init
<1>7. TypeOK
  <2>1. alive \in BOOLEAN /\ shrunk \in BOOLEAN /\ late \in BOOLEAN /\ pc \in Steps
    BY <1>5 DEF Steps
  <2>2. /\ attempt \in 0..(IF pc = "model" THEN ModelRetries ELSE GitHubRetries)
        /\ repair \in 0..MaxRepairAttempts /\ page \in 1..MaxPages
        /\ cost \in Nat /\ charged \in Nat /\ posts \in Nat
    BY <1>5, RemoteCallsAssumption
  <2> QED
    BY <1>3, <1>6, <2>1, <2>2 DEF TypeOK
<1>8. SearchIsAhead
  <2>1. (page - 1) * PageSize = 0
    BY <1>5, RemoteCallsAssumption
  <2>2. \A i \in Ours(listing) : i > 0
    BY <1>4
  <2> QED
    BY <1>5, <2>1, <2>2 DEF SearchIsAhead
<1>9. NoneYet /\ IssueIsUnique
  <2>1. \A i, j \in Ours(listing) : i = j
    BY DEF Init
  <2>2. pc = "preflight" => Ours(listing) = {} /\ ~pending
    BY DEF Init
  <2> QED
    BY <1>5, <2>1, <2>2 DEF NoneYet, IssueIsUnique
<1>10. SpentSoFar /\ SpendIsBounded
  <2>1. 0 \in 0..MaxRepairAttempts /\ 0 \in 0..ModelRetries /\ 0 \in 0..MaxCharge
    BY RemoteCallsAssumption
  <2>2. 0 * Round \in Nat /\ 0 * Lost \in Nat /\ Lost \in Nat /\ MaxSpend \in Nat
        /\ (0 + 1) * Lost = (0 + 1) * ModelRetries * MaxCharge
        /\ (0 + 1) * Lost = 0 * Lost + Lost
    BY <2>1, Rounds
  <2>3. MaxCostUSD + (0 + 1) * ModelRetries * MaxCharge \in Nat
    BY <2>2, RemoteCallsAssumption
  <2> QED
    BY <1>5, <2>2, <2>3 DEF SpentSoFar, SpendIsBounded
<1> QED
  BY <1>5, <1>7, <1>8, <1>9, <1>10 DEF IInv, AbsenceIsReal

\* The types survive every step: a retry stays within its limit, a page within its own.
LEMMA TypeNext ==
  ASSUME TypeOK, Next
  PROVE  TypeOK'
<1> USE RemoteCallsAssumption
    DEF TypeOK, Steps, At, Goto, model, github, search
<1>1. ASSUME NEW estimate \in Estimates, Preflight(estimate) PROVE TypeOK'
  BY <1>1 DEF Preflight
<1>2. ASSUME NEW charge \in Charges, ModelReplies(charge) PROVE TypeOK'
  BY <1>2 DEF ModelReplies
<1>3. ASSUME NEW charge \in Charges \cup {0}, ModelIsBusy(charge) PROVE TypeOK'
  BY <1>3 DEF ModelIsBusy, Retry
<1>4. ASSUME NEW charge \in Charges \cup {0}, ModelRefuses(charge) PROVE TypeOK'
  BY <1>4 DEF ModelRefuses
<1>5. ASSUME NEW valid \in BOOLEAN, Validate(valid) PROVE TypeOK'
  BY <1>5 DEF Validate
<1>6. ASSUME CheckResult PROVE TypeOK'
  <2>1. known' \in BOOLEAN /\ shrunk' \in BOOLEAN
    BY <1>6, Zenon DEF CheckResult
  <2> QED
    BY <1>6, <2>1 DEF CheckResult, BeginSearch
<1>7. ASSUME ReadPage PROVE TypeOK'
  BY <1>7 DEF ReadPage, NotFound
<1>8. ASSUME ReadFails PROVE TypeOK'
  BY <1>8 DEF ReadFails, Retry
<1>9. ASSUME ReadRefused PROVE TypeOK'
  BY <1>9 DEF ReadRefused
<1>10. ASSUME CreateIssue PROVE TypeOK'
  <2>1. listing' \in Seq(Items)
    BY <1>10, Prepended DEF CreateIssue, Items
  <2> QED
    BY <1>10, <2>1 DEF CreateIssue
<1>11. ASSUME CreationUnheard PROVE TypeOK'
  <2>1. listing' \in Seq(Items) /\ pending' \in BOOLEAN
    BY <1>11, Prepended DEF CreationUnheard, Unheard, Items
  <2> QED
    BY <1>11, <2>1 DEF CreationUnheard, BeginSearch
<1>12. ASSUME NEW charge \in Charges \cup {0}, Abandon(charge) PROVE TypeOK'
  BY <1>12 DEF Abandon
<1>13. ASSUME ContextEnds PROVE TypeOK'
  BY <1>13 DEF ContextEnds
<1>14. ASSUME NEW item \in {"other", "pull"}, SomebodyAdds(item) PROVE TypeOK'
  <2>1. listing' \in Seq(Items)
    BY <1>14, Prepended DEF SomebodyAdds, Items
  <2> QED
    BY <1>14, <2>1 DEF SomebodyAdds
<1>15. ASSUME NEW i \in DOMAIN listing, SomebodyDeletes(i) PROVE TypeOK'
  <2>1. listing' \in Seq(Items)
    BY <1>15, Removed DEF SomebodyDeletes
  <2> QED
    BY <1>15, <2>1 DEF SomebodyDeletes
<1>16. ASSUME LateIssue PROVE TypeOK'
  <2>1. listing' \in Seq(Items)
    BY <1>16, Prepended DEF LateIssue, Items
  <2> QED
    BY <1>16, <2>1 DEF LateIssue
<1> HIDE DEF TypeOK
<1> QED
  BY <1>1, <1>2, <1>3, <1>4, <1>5, <1>6, <1>7, <1>8, <1>9, <1>10, <1>11, <1>12, <1>13,
     <1>14, <1>15, <1>16 DEF Next, Call, Others

\* What an attempt is charged stays within what its counters have paid for.
LEMMA SpendNext ==
  ASSUME TypeOK, SpentSoFar, SpendIsBounded, Next
  PROVE  SpentSoFar' /\ SpendIsBounded'
<1> DEFINE Goal == SpentSoFar' /\ SpendIsBounded'
<1> USE DEF At, Goto, model
<1>0. /\ cost \in Nat /\ charged \in Nat /\ repair \in 0..MaxRepairAttempts
      /\ pc = "model" => attempt \in 0..ModelRetries
      /\ MaxCharge \in Nat /\ ModelRetries \in Nat /\ MaxCostUSD \in Nat
      /\ MaxRepairAttempts \in Nat /\ Charges \subseteq 0..MaxCharge
  BY RemoteCallsAssumption DEF TypeOK
<1>1. ASSUME NEW estimate \in Estimates, Preflight(estimate) PROVE Goal
  <2>1. 0 * MaxCharge = 0
    BY <1>0
  <2>2. repair * Round \in Nat /\ repair * Lost \in Nat
    BY <1>0, Rounds
  <2> QED
    BY <1>0, <1>1, <2>1, <2>2 DEF Preflight, SpentSoFar, SpendIsBounded
<1>2. ASSUME NEW charge \in Charges \cup {0}, pc = "model"
      PROVE  /\ charged + charge <= MaxSpend /\ charged + charge \in Nat
             /\ charged + charge <= (repair + 1) * Round
             /\ charged + charge <= (cost + charge) + (repair + 1) * Lost
             /\ attempt < ModelRetries =>
                  /\ charged + charge <= repair * Round + (attempt + 1) * MaxCharge
                  /\ charged + charge <= cost + repair * Lost + (attempt + 1) * MaxCharge
  <2>1. charge \in 0..MaxCharge /\ attempt \in 0..ModelRetries /\ charge \in Nat
    BY <1>0, <1>2
  <2>2. /\ charged <= repair * Round + attempt * MaxCharge
        /\ charged <= cost + repair * Lost + attempt * MaxCharge
    BY <1>2 DEF SpentSoFar
  <2>3. /\ Round \in Nat /\ Lost \in Nat /\ MaxSpend \in Nat
        /\ repair * Round \in Nat /\ repair * Lost \in Nat /\ attempt * MaxCharge \in Nat
        /\ (repair + 1) * Round = repair * Round + Round
        /\ (repair + 1) * Lost = repair * Lost + Lost
        /\ (repair + 1) * Round <= MaxSpend
        /\ attempt * MaxCharge <= Lost /\ attempt * MaxCharge + charge <= Round
        /\ attempt < ModelRetries =>
             attempt * MaxCharge + charge <= (attempt + 1) * MaxCharge
             /\ (attempt + 1) * MaxCharge <= Lost
    BY <1>0, <2>1, Rounds
  <2>4. (attempt + 1) * MaxCharge \in Nat
    BY <1>0, <2>1
  <2> QED
    BY <1>0, <2>1, <2>2, <2>3, <2>4
<1>3. /\ MaxSpend' = MaxSpend /\ Round' = Round /\ Lost' = Lost
  BY DEF MaxSpend, Round, Lost
<1>4. ASSUME NEW charge \in Charges, ModelReplies(charge) PROVE Goal
  <2>1. pc = "model" /\ charged' = charged + charge /\ repair' = repair
    BY <1>4 DEF ModelReplies
  <2>2. pc' = "failed" \/ (pc' = "validate" /\ cost' = cost + charge)
    BY <1>4 DEF ModelReplies
  <2> QED
    BY <1>2, <1>3, <2>1, <2>2 DEF SpentSoFar, SpendIsBounded
<1>5. ASSUME NEW charge \in Charges \cup {0},
             ModelIsBusy(charge) \/ ModelRefuses(charge)
      PROVE  Goal
  <2>1. pc = "model" /\ charged' = charged + charge /\ repair' = repair /\ cost' = cost
    BY <1>5 DEF ModelIsBusy, ModelRefuses
  <2>2. \/ pc' = "failed"
        \/ pc' = "model" /\ attempt < ModelRetries /\ attempt' = attempt + 1
    BY <1>5 DEF ModelIsBusy, ModelRefuses, Retry
  <2> QED
    BY <1>2, <1>3, <2>1, <2>2 DEF SpentSoFar, SpendIsBounded
<1>6. ASSUME NEW charge \in Charges \cup {0}, Abandon(charge) PROVE Goal
  <2>1. pc' = "failed" /\ charged' = charged + charge /\ (charge # 0 => pc = "model")
    BY <1>6 DEF Abandon
  <2>2. CASE charge # 0
    BY <1>2, <1>3, <2>1, <2>2 DEF SpentSoFar, SpendIsBounded
  <2>3. CASE charge = 0
    BY <1>0, <1>3, <2>1, <2>3 DEF SpentSoFar, SpendIsBounded
  <2> QED
    BY <2>2, <2>3
<1>7. ASSUME NEW valid \in BOOLEAN, Validate(valid) PROVE Goal
  <2>1. pc = "validate" /\ UNCHANGED <<cost, charged>>
        /\ charged <= (repair + 1) * Round /\ charged <= cost + (repair + 1) * Lost
        /\ charged <= MaxSpend
    BY <1>7 DEF Validate, SpentSoFar, SpendIsBounded
  <2>2. \/ pc' = "check" /\ repair' = repair
        \/ pc' = "preflight" /\ repair' = repair + 1
        \/ pc' = "failed"
    BY <1>7 DEF Validate
  <2> QED
    BY <2>1, <2>2 DEF SpentSoFar, SpendIsBounded, MaxSpend
<1>8. ASSUME CheckResult PROVE Goal
  <2>1. pc = "check" /\ UNCHANGED <<repair, cost, charged>>
        /\ charged <= cost + (repair + 1) * Lost /\ charged <= MaxSpend
    BY <1>8 DEF CheckResult, SpentSoFar, SpendIsBounded
  <2>2. pc' = "failed" \/ (pc' \in {"done", "search"} /\ cost <= MaxCostUSD)
    BY <1>8 DEF CheckResult, BeginSearch
  <2>3. 0 \in 0..ModelRetries /\ 0 \in 0..MaxCharge
    BY <1>0
  <2>4. /\ (repair + 1) * Lost = (repair + 1) * ModelRetries * MaxCharge
        /\ (repair + 1) * Lost = repair * Lost + Lost /\ repair * Lost \in Nat /\ Lost \in Nat
    BY <1>0, <2>3, Rounds
  <2>5. cost <= MaxCostUSD
          => charged <= MaxCostUSD + (repair + 1) * ModelRetries * MaxCharge
    BY <1>0, <2>1, <2>4
  <2>6. MaxSpend' = MaxSpend
    BY DEF MaxSpend
  <2> QED
    BY <2>1, <2>2, <2>5, <2>6 DEF SpentSoFar, SpendIsBounded
<1>9. ASSUME UNCHANGED <<repair, cost, charged>>,
             \/ pc' = pc /\ UNCHANGED attempt
             \/ pc' = "failed"
             \/ pc \in {"search", "create"} /\ pc' \in {"search", "create", "done"}
      PROVE  Goal
  BY <1>9 DEF SpentSoFar, SpendIsBounded, MaxSpend
<1>10. ASSUME ReadPage \/ ReadFails \/ ReadRefused PROVE Goal
  BY <1>9, <1>10 DEF ReadPage, NotFound, ReadFails, ReadRefused, Retry
<1>11. ASSUME CreateIssue \/ CreationUnheard PROVE Goal
  BY <1>9, <1>11 DEF CreateIssue, CreationUnheard, BeginSearch
<1>12. ASSUME Others PROVE Goal
  BY <1>9, <1>12 DEF Others, ContextEnds, SomebodyAdds, SomebodyDeletes, LateIssue
<1> QED
  BY <1>1, <1>4, <1>5, <1>6, <1>7, <1>8, <1>10, <1>11, <1>12 DEF Next, Call

\* What an attempt knows of the issues.
IssueInv == AbsenceIsReal /\ IssueIsUnique /\ SearchIsAhead /\ NoneYet

\* A step that neither touches the issues nor goes on with a search keeps it.
LEMMA IssuesUntouched ==
  ASSUME IssueInv, UNCHANGED <<posts, search, github>>,
         \/ pc' = pc \/ pc' \in {"done", "failed"}
         \/ /\ pc \in {"preflight", "model", "validate", "check"}
            /\ pc' \in {"preflight", "model", "validate", "check"}
  PROVE  IssueInv'
BY DEF IssueInv, AbsenceIsReal, IssueIsUnique, SearchIsAhead, NoneYet, search, github

\* The search begins with what the repository holds at that moment.
LEMMA CheckIssues ==
  ASSUME TypeOK, IssueInv, CheckResult
  PROVE  IssueInv'
<1>1. /\ pc = "check" /\ UNCHANGED <<posts, listing, pending, late>>
      /\ Ours(listing) = {} /\ ~late /\ ~pending
  BY DEF CheckResult, At, IssueInv, NoneYet, github
<1>2. CASE UNCHANGED search /\ pc' \in {"done", "failed"}
  BY <1>1, <1>2, IssuesUntouched DEF github
<1>3. CASE pc' = "search" /\ known' = (Ours(listing) # {})
  BY <1>1, <1>3 DEF IssueInv, AbsenceIsReal, IssueIsUnique, SearchIsAhead, NoneYet
<1> QED
  BY <1>2, <1>3 DEF CheckResult, Goto, BeginSearch

\* A page without the marker leaves it behind the pages that were read, and the last
\* page leaves it nowhere.
LEMMA ReadIssues ==
  ASSUME TypeOK, IssueInv, ReadPage
  PROVE  IssueInv'
<1>1. /\ pc = "search" /\ UNCHANGED <<posts, known, shrunk, listing, pending, late>>
      /\ page \in Nat \ {0} /\ listing \in Seq(Items) /\ posts \in Nat
  BY RemoteCallsAssumption DEF ReadPage, At, github, TypeOK
<1>2. CASE pc' \in {"done", "failed"}
  BY <1>1, <1>2 DEF IssueInv, AbsenceIsReal, IssueIsUnique, SearchIsAhead, NoneYet
<1>3. CASE Ours(Page(page)) = {} /\ LastPage(page) /\ pc' = "create" /\ posts = 0
  <2>1. \A i \in Ours(listing) : i <= (page - 1) * PageSize
    BY <1>1, <1>3, PageFacts
  <2>2. Ours(listing) \subseteq Nat
    BY <1>1, LenProperties DEF Ours
  <2>3. (page - 1) * PageSize \in Nat
    BY <1>1, RemoteCallsAssumption
  <2>4. ~known \/ shrunk
    BY <1>1, <2>1, <2>2, <2>3 DEF IssueInv, SearchIsAhead
  <2> QED
    BY <1>1, <1>3, <2>4 DEF IssueInv, AbsenceIsReal, IssueIsUnique, SearchIsAhead, NoneYet
<1>4. CASE Ours(Page(page)) = {} /\ pc' = "search" /\ page' = page + 1
  <2>1. \A i \in Ours(listing) : i <= (page - 1) * PageSize \/ i > page * PageSize
    BY <1>1, <1>4, PageFacts
  <2>2. Ours(listing) \subseteq Nat
    BY <1>1, LenProperties DEF Ours
  <2>3. (page - 1) * PageSize \in Nat /\ page' - 1 = page
    BY <1>1, <1>4, RemoteCallsAssumption
  <2>4. SearchIsAhead'
    BY <1>1, <2>1, <2>2, <2>3 DEF IssueInv, SearchIsAhead
  <2> QED
    BY <1>1, <1>4, <2>4 DEF IssueInv, AbsenceIsReal, IssueIsUnique, NoneYet
<1> QED
  BY <1>1, <1>2, <1>3, <1>4 DEF ReadPage, Goto, NotFound

\* The request to create the issue is sent when there is none, unless one came late
\* or behind a deletion; its error hands over to the second search.
LEMMA CreateIssues ==
  ASSUME TypeOK, IssueInv, CreateIssue \/ CreationUnheard
  PROVE  IssueInv'
<1>1. /\ pc = "create" /\ posts = 0 /\ posts' = 1 /\ UNCHANGED <<known, shrunk, late>>
      /\ pc' \in {"done", "search"} /\ listing \in Seq(Items)
      /\ known \in BOOLEAN /\ shrunk \in BOOLEAN
  BY DEF CreateIssue, CreationUnheard, At, Goto, BeginSearch, IssueInv, NoneYet, search, TypeOK
<1>2. (~known \/ shrunk) /\ (late \/ shrunk \/ Ours(listing) = {})
  BY <1>1 DEF IssueInv, AbsenceIsReal, NoneYet
<1>3. listing' = listing \/ listing' = <<"ours">> \o listing
  BY DEF CreateIssue, CreationUnheard, Unheard
<1>4. late' \/ shrunk' \/ \A i, j \in Ours(listing') : i = j
  BY <1>1, <1>2, <1>3, Prepended DEF Items
<1> QED
  BY <1>1, <1>2, <1>4 DEF IssueInv, AbsenceIsReal, IssueIsUnique, SearchIsAhead, NoneYet

\* What others add comes first, and drives an issue of ours on, never back.
LEMMA AddedIssues ==
  ASSUME TypeOK, IssueInv, NEW item \in {"other", "pull"}, SomebodyAdds(item)
  PROVE  IssueInv'
<1>1. /\ UNCHANGED <<pc, posts, page, known, shrunk, pending, late>>
      /\ listing' = <<item>> \o listing /\ listing \in Seq(Items) /\ item \in Items
      /\ page \in Nat \ {0}
  BY RemoteCallsAssumption DEF SomebodyAdds, search, TypeOK, Items
<1>2. /\ \A i \in Ours(listing) : i + 1 \in Ours(listing') /\ i \in Nat
      /\ \A i \in Ours(listing') : i - 1 \in Ours(listing)
      /\ Ours(listing') \subseteq Int
  <2>1. listing' \in Seq(Items)
    BY <1>1, Prepended
  <2>2. Ours(listing') \subseteq Int
    BY <2>1, LenProperties DEF Ours
  <2> QED
    BY <1>1, <2>2, Prepended
<1>3. SearchIsAhead'
  <2>1. (page - 1) * PageSize \in Nat
    BY <1>1, RemoteCallsAssumption
  <2> QED
    BY <1>1, <1>2, <2>1 DEF IssueInv, SearchIsAhead
<1>4. IssueIsUnique'
  <2> SUFFICES ASSUME ~late, ~shrunk, NEW i \in Ours(listing'), NEW j \in Ours(listing')
               PROVE  i = j
    BY <1>1 DEF IssueIsUnique
  <2>1. i - 1 = j - 1
    BY <1>2 DEF IssueInv, IssueIsUnique
  <2> QED
    BY <2>1, <1>2
<1>5. Ours(listing) = {} => Ours(listing') = {}
  BY <1>2
<1> QED
  BY <1>1, <1>3, <1>4, <1>5 DEF IssueInv, AbsenceIsReal, NoneYet

\* A deletion excuses a search that misses its issue, and makes no issue.
LEMMA DeletedIssues ==
  ASSUME TypeOK, IssueInv, NEW i \in DOMAIN listing, SomebodyDeletes(i)
  PROVE  IssueInv'
<1>1. /\ UNCHANGED <<pc, posts, page, known, pending, late>> /\ shrunk'
      /\ listing \in Seq(Items)
      /\ listing' = SubSeq(listing, 1, i - 1) \o SubSeq(listing, i + 1, Len(listing))
  BY DEF SomebodyDeletes, TypeOK
<1>2. \A j \in Ours(listing') : (IF j < i THEN j ELSE j + 1) \in Ours(listing)
  BY <1>1, Removed
<1>3. Ours(listing) = {} => Ours(listing') = {}
  BY <1>2
<1> QED
  BY <1>1, <1>3 DEF IssueInv, AbsenceIsReal, IssueIsUnique, SearchIsAhead, NoneYet

\* A request of an earlier attempt that GitHub applies late puts its issue first.
LEMMA LateIssues ==
  ASSUME TypeOK, IssueInv, LateIssue
  PROVE  IssueInv'
<1>1. /\ UNCHANGED <<pc, posts, page, known, shrunk>> /\ late' /\ pending
      /\ listing' = <<"ours">> \o listing /\ listing \in Seq(Items) /\ page \in Nat \ {0}
  BY RemoteCallsAssumption DEF LateIssue, search, TypeOK
<1>2. \A i \in Ours(listing) : i + 1 \in Ours(listing') /\ i \in Nat
  BY <1>1, Prepended DEF Items
<1>3. SearchIsAhead'
  <2>1. (page - 1) * PageSize \in Nat
    BY <1>1, RemoteCallsAssumption
  <2> QED
    BY <1>1, <1>2, <2>1 DEF IssueInv, SearchIsAhead
<1> QED
  BY <1>1, <1>3 DEF IssueInv, AbsenceIsReal, IssueIsUnique, NoneYet

LEMMA IssueNext ==
  ASSUME TypeOK, IssueInv, Next
  PROVE  IssueInv'
<1>1. ASSUME NEW estimate \in Estimates, Preflight(estimate) PROVE IssueInv'
  BY <1>1, IssuesUntouched DEF Preflight, At, Goto
<1>2. ASSUME NEW charge \in Charges, ModelReplies(charge) PROVE IssueInv'
  BY <1>2, IssuesUntouched DEF ModelReplies, At, Goto
<1>3. ASSUME NEW charge \in Charges \cup {0}, ModelIsBusy(charge) \/ ModelRefuses(charge)
      PROVE  IssueInv'
  BY <1>3, IssuesUntouched DEF ModelIsBusy, ModelRefuses, At, Retry, Goto
<1>4. ASSUME NEW valid \in BOOLEAN, Validate(valid) PROVE IssueInv'
  BY <1>4, IssuesUntouched DEF Validate, At, Goto
<1>5. ASSUME CheckResult PROVE IssueInv'
  BY <1>5, CheckIssues
<1>6. ASSUME ReadPage PROVE IssueInv'
  BY <1>6, ReadIssues
<1>7. ASSUME ReadFails \/ ReadRefused PROVE IssueInv'
  BY <1>7, IssuesUntouched DEF ReadFails, ReadRefused, At, Retry, Goto, search
<1>8. ASSUME CreateIssue \/ CreationUnheard PROVE IssueInv'
  BY <1>8, CreateIssues
<1>9. ASSUME (\E charge \in Charges \cup {0} : Abandon(charge)) \/ ContextEnds PROVE IssueInv'
  BY <1>9, IssuesUntouched DEF Abandon, ContextEnds, Goto
<1>10. ASSUME NEW item \in {"other", "pull"}, SomebodyAdds(item) PROVE IssueInv'
  BY <1>10, AddedIssues
<1>11. ASSUME NEW i \in DOMAIN listing, SomebodyDeletes(i) PROVE IssueInv'
  BY <1>11, DeletedIssues
<1>12. ASSUME LateIssue PROVE IssueInv'
  BY <1>12, LateIssues
<1> QED
  BY <1>1, <1>2, <1>3, <1>4, <1>5, <1>6, <1>7, <1>8, <1>9, <1>10, <1>11, <1>12
  DEF Next, Call, Others

LEMMA RemoteCallsInvariant == Spec => []IInv
<1>1. IInv /\ [Next]_vars => IInv'
  <2> SUFFICES ASSUME IInv, [Next]_vars PROVE IInv'
    OBVIOUS
  <2>1. CASE Next
    BY <2>1, TypeNext, SpendNext, IssueNext DEF IInv, IssueInv
  <2>2. CASE UNCHANGED vars
    BY <2>2 DEF vars, model, search, github, IInv, TypeOK, AbsenceIsReal, IssueIsUnique,
                SpendIsBounded, SearchIsAhead, NoneYet, SpentSoFar
  <2> QED
    BY <2>1, <2>2
<1> QED
  BY <1>1, InitIInv, PTL DEF Spec

-----------------------------------------------------------------------------
(* The theorems.                                                           *)

\* No step of an attempt leaves the types: the retry loops of both clients
\* (openai.go, client.go) and the repairs of generate.go end within their limits.
THEOREM CallTypes == Spec => []TypeOK
<1>1. IInv => TypeOK
  BY DEF IInv
<1> QED
  BY <1>1, RemoteCallsInvariant, PTL

\* A search that reports no issue began when there was none, however large the
\* repository, unless one was deleted meanwhile (client.go 198-224).
THEOREM SearchesAreSound == Spec => []AbsenceIsReal
<1>1. IInv => AbsenceIsReal
  BY DEF IInv
<1> QED
  BY <1>1, RemoteCallsInvariant, PTL

\* One attempt makes at most one issue of the marker, however its request ends
\* (release.go 364-378).
THEOREM OneIssuePerAttempt == Spec => []IssueIsUnique
<1>1. IInv => IssueIsUnique
  BY DEF IInv
<1> QED
  BY <1>1, RemoteCallsInvariant, PTL

\* An attempt is charged no more than for its repairs and retries, heard of or not, and
\* with an accepted result no more than the definition's limit and its retries, for any
\* limits and any prices (openai.go 98-120, generate.go 56-78, release.go 208).
THEOREM SpendingIsBounded == Spec => []SpendIsBounded
<1>1. IInv => SpendIsBounded
  BY DEF IInv
<1> QED
  BY <1>1, RemoteCallsInvariant, PTL
=============================================================================

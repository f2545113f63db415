---------------------------- MODULE RemoteCalls ----------------------------
(***************************************************************************)
(* The calls that one attempt of the release workflow makes to the model   *)
(* and to GitHub: GenerateRelease with its repairs                         *)
(* (internal/skillruntime/generate.go) over the client of the model        *)
(* (internal/llm/openai.go), then createOrRecoverIssue                     *)
(* (internal/workflows/release.go) over the client of GitHub               *)
(* (internal/github/client.go), whose search reads a list of issues page   *)
(* by page while others work in the same repository.  ReleaseWorkflow has  *)
(* one step for the generation and one for a search; here is what they     *)
(* are made of.  Time is abstract: a delay between two requests has passed *)
(* when the second is sent.                                                *)
(***************************************************************************)
EXTENDS Naturals, Sequences

CONSTANTS
  ModelRetries,       \* retries of one request to the model
  MaxRepairAttempts,  \* further requests when its output is not valid
  GitHubRetries,      \* retries of one read from GitHub
  Estimates,          \* what a request to the model may cost by the estimate
  Charges,            \* what the provider may charge for a request
  MaxCharge,          \* the most it can: its input and its output are bounded
  MaxCost,            \* the ceiling of the model client
  MaxCostUSD,         \* the ceiling of the workflow definition
  PageSize, MaxPages, \* how far a search for the marker reads
  MaxIssues           \* bound on the issues and pull requests of the repository

ASSUME RemoteCallsAssumption ==
  /\ ModelRetries \in Nat /\ MaxRepairAttempts \in Nat /\ GitHubRetries \in Nat
  /\ Estimates \subseteq Nat /\ Charges \subseteq 0..MaxCharge /\ MaxCharge \in Nat
  /\ MaxCost \in Nat /\ MaxCostUSD \in Nat
  /\ PageSize \in Nat \ {0} /\ MaxPages \in Nat \ {0} /\ MaxIssues \in Nat

VARIABLES
  pc,        \* the next call of the attempt
  alive,     \* its context has not ended
  attempt,   \* attempts that the request under way has used up
  repair,    \* repairs that the generation has used up
  cost,      \* EstimatedCostUSD of the generation's metadata
  charged,   \* what the provider charged for all requests, heard of or not
  posts,     \* requests to create the issue
  page,      \* the page that the search is at
  listing,   \* the repository's issues and pull requests, newest first
  pending,   \* a request to create the issue may still reach GitHub
  known,     \* the issue existed when the first search began
  shrunk,    \* something was deleted since then
  late       \* GitHub applied a request nobody waited for any more

model  == <<repair, cost, charged>>
github == <<listing, pending, late>>
search == <<page, known, shrunk>>
vars   == <<pc, alive, attempt, model, posts, search, github>>
-----------------------------------------------------------------------------
\* A pull request is listed like an issue, and may quote the marker.
Items == {"ours", "other", "pull"}

Ours(list)  == {i \in DOMAIN list : list[i] = "ours"}
Listings    == UNION {[1..n -> Items] : n \in 0..MaxIssues}
Page(k)     == LET last == IF k * PageSize < Len(listing) THEN k * PageSize ELSE Len(listing)
               IN SubSeq(listing, (k - 1) * PageSize + 1, last)
Steps       == {"preflight", "model", "validate", "check", "search", "create", "done", "failed"}
Ended       == pc \in {"done", "failed"}

\* The attempt starts with the generation, or with the search for the issue of an
\* intent that an earlier attempt left.
Init ==
  /\ \/ pc = "preflight" /\ pending = FALSE /\ listing \in {l \in Listings : Ours(l) = {}}
     \/ pc = "search" /\ pending \in BOOLEAN
        /\ listing \in {l \in Listings : \A i, j \in Ours(l) : i = j /\ ~pending}
  /\ alive   = TRUE
  /\ attempt = 0 /\ repair = 0
  /\ cost    = 0 /\ charged = 0
  /\ posts   = 0
  /\ page    = 1
  /\ known   = (Ours(listing) # {})
  /\ shrunk  = FALSE
  /\ late    = FALSE
-----------------------------------------------------------------------------
At(step)   == pc = step /\ alive
Goto(step) == pc' = step /\ attempt' = 0

\* The loops of both clients: a failure that may pass is tried again, so often.
Retry(limit) ==
  IF attempt < limit THEN attempt' = attempt + 1 /\ UNCHANGED pc ELSE Goto("failed")

BeginSearch == Goto("search") /\ page' = 1
-----------------------------------------------------------------------------
(* The model.                                                              *)

\* The checks that Generate makes before it sends anything.
Preflight(estimate) ==
  /\ At("preflight")
  /\ Goto(IF estimate > MaxCost THEN "failed" ELSE "model")
  /\ UNCHANGED <<alive, model, posts, search, github>>

\* Faulty: the metadata tell of the last reply only.
ModelRepliesLast(charge) ==
  /\ At("model")
  /\ charged'  = charged + charge
  /\ IF charge > MaxCost
     THEN Goto("failed") /\ UNCHANGED cost
     ELSE Goto("validate") /\ cost' = charge
  /\ UNCHANGED <<alive, repair, posts, search, github>>

\* A reply whose reported usage is above the ceiling is an error, and what it cost
\* is in no metadata.
ModelReplies(charge) ==
  /\ At("model")
  /\ charged'  = charged + charge
  /\ IF charge > MaxCost
     THEN Goto("failed") /\ UNCHANGED cost
     ELSE Goto("validate") /\ cost' = cost + charge
  /\ UNCHANGED <<alive, repair, posts, search, github>>

\* A transport error, a rate limit or a server error.  The provider may have worked
\* on the request and charged for it all the same.
ModelIsBusy(charge) ==
  /\ At("model")
  /\ charged' = charged + charge
  /\ Retry(ModelRetries)
  /\ UNCHANGED <<alive, repair, cost, posts, search, github>>

\* Any other status, a reply that cannot be decoded or one that has no content.
ModelRefuses(charge) ==
  /\ At("model")
  /\ charged' = charged + charge
  /\ Goto("failed")
  /\ UNCHANGED <<alive, repair, cost, posts, search, github>>

\* Faulty: one repair too many.
ValidateAgain(valid) ==
  /\ At("validate")
  /\ IF valid
     THEN Goto("check") /\ UNCHANGED repair
     ELSE IF repair <= MaxRepairAttempts
          THEN Goto("preflight") /\ repair' = repair + 1
          ELSE Goto("failed") /\ UNCHANGED repair
  /\ UNCHANGED <<alive, cost, charged, posts, search, github>>

\* The output is decoded and validated, or repaired by a request of its own.
Validate(valid) ==
  /\ At("validate")
  /\ IF valid
     THEN Goto("check") /\ UNCHANGED repair
     ELSE IF repair < MaxRepairAttempts
          THEN Goto("preflight") /\ repair' = repair + 1
          ELSE Goto("failed") /\ UNCHANGED repair
  /\ UNCHANGED <<alive, cost, charged, posts, search, github>>

\* The limit of the definition and the self-check; a result below the threshold asks
\* for no issue.
CheckResult ==
  /\ At("check")
  /\ \/ Goto("failed") /\ UNCHANGED search
     \/ cost <= MaxCostUSD /\ Goto("done") /\ UNCHANGED search
     \/ /\ cost <= MaxCostUSD
        /\ BeginSearch
        /\ known'  = (Ours(listing) # {})
        /\ shrunk' = FALSE
  /\ UNCHANGED <<alive, model, posts, github>>
-----------------------------------------------------------------------------
(* GitHub.                                                                 *)

\* Faulty: counts the issues of a page, without its pull requests.
FewIssues(k) == Len(SelectSeq(Page(k), LAMBDA item : item # "pull")) < PageSize

\* A page that is not full is the last.
LastPage(k) == Len(Page(k)) < PageSize

\* No match: the first search is followed by the creation, the second by nothing.
NotFound == Goto(IF posts = 0 THEN "create" ELSE "failed")

ReadPage ==
  /\ At("search")
  /\ \/ Ours(Page(page)) # {} /\ Goto("done") /\ UNCHANGED page
     \/ Ours(Page(page)) = {} /\ LastPage(page) /\ NotFound /\ UNCHANGED page
     \/ /\ Ours(Page(page)) = {} /\ ~LastPage(page)
        /\ IF page = MaxPages
           THEN Goto("failed") /\ UNCHANGED page
           ELSE Goto("search") /\ page' = page + 1
  /\ UNCHANGED <<alive, model, posts, known, shrunk, github>>

ReadFails ==
  /\ At("search")
  /\ Retry(GitHubRetries)
  /\ UNCHANGED <<alive, model, posts, page, known, shrunk, github>>

\* A status that is not retried, or a reply that cannot be decoded.
ReadRefused ==
  /\ At("search")
  /\ Goto("failed")
  /\ UNCHANGED <<alive, model, posts, page, known, shrunk, github>>

\* GitHub applied the request and the reply was read.
CreateIssue ==
  /\ At("create")
  /\ Len(listing) < MaxIssues
  /\ posts'   = posts + 1
  /\ listing' = <<"ours">> \o listing
  /\ Goto("done")
  /\ UNCHANGED <<alive, model, search, pending, late>>

\* What an error tells of the request: it was applied, may be later, or never.
Unheard ==
  \/ Len(listing) < MaxIssues /\ listing' = <<"ours">> \o listing /\ UNCHANGED pending
  \/ UNCHANGED listing /\ pending' \in {pending, TRUE}

\* Faulty: retried like a read.
RetryCreation ==
  /\ At("create")
  /\ posts' = posts + 1
  /\ Unheard
  /\ Retry(GitHubRetries)
  /\ UNCHANGED <<alive, model, search, late>>

\* Any error of the one request is followed by another search.
CreationUnheard ==
  /\ At("create")
  /\ posts' = posts + 1
  /\ Unheard
  /\ BeginSearch
  /\ UNCHANGED <<alive, model, known, shrunk, late>>

\* Every call returns at once when its context has ended; a request to the model may
\* be under way.
Abandon(charge) ==
  /\ ~alive /\ ~Ended
  /\ charge # 0 => pc = "model"
  /\ charged' = charged + charge
  /\ Goto("failed")
  /\ UNCHANGED <<alive, repair, cost, posts, search, github>>
-----------------------------------------------------------------------------
(* The others.                                                             *)

ContextEnds ==
  /\ alive /\ ~Ended
  /\ alive' = FALSE
  /\ UNCHANGED <<pc, attempt, model, posts, search, github>>

SomebodyAdds(item) ==
  /\ Len(listing) < MaxIssues
  /\ listing' = <<item>> \o listing
  /\ UNCHANGED <<pc, alive, attempt, model, posts, search, pending, late>>

SomebodyDeletes(i) ==
  /\ listing[i] = "other"
  /\ listing' = SubSeq(listing, 1, i - 1) \o SubSeq(listing, i + 1, Len(listing))
  /\ shrunk'  = TRUE
  /\ UNCHANGED <<pc, alive, attempt, model, posts, page, known, pending, late>>

LateIssue ==
  /\ pending
  /\ Len(listing) < MaxIssues
  /\ pending' = FALSE
  /\ late'    = TRUE
  /\ listing' = <<"ours">> \o listing
  /\ UNCHANGED <<pc, alive, attempt, model, posts, search>>
-----------------------------------------------------------------------------
Call ==
  \/ \E estimate \in Estimates : Preflight(estimate)
  \/ \E charge \in Charges : ModelReplies(charge)
  \/ \E charge \in Charges \cup {0} : ModelIsBusy(charge) \/ ModelRefuses(charge) \/ Abandon(charge)
  \/ \E valid \in BOOLEAN : Validate(valid)
  \/ CheckResult
  \/ ReadPage \/ ReadFails \/ ReadRefused
  \/ CreateIssue \/ CreationUnheard

Others ==
  /\ ~Ended
  /\ \/ ContextEnds
     \/ \E item \in {"other", "pull"} : SomebodyAdds(item)
     \/ \E i \in DOMAIN listing : SomebodyDeletes(i)
     \/ LateIssue

Next == Call \/ Others

Spec == Init /\ [][Next]_vars
-----------------------------------------------------------------------------
TypeOK ==
  /\ pc \in Steps
  /\ alive \in BOOLEAN
  /\ attempt \in 0..(IF pc = "model" THEN ModelRetries ELSE GitHubRetries)
  /\ repair \in 0..MaxRepairAttempts
  /\ cost \in Nat /\ charged \in Nat
  /\ posts \in Nat
  /\ page \in 1..MaxPages
  /\ listing \in Seq(Items)
  /\ pending \in BOOLEAN /\ known \in BOOLEAN /\ shrunk \in BOOLEAN /\ late \in BOOLEAN

\* Reading page by page is as good as looking at the whole list at once: a search
\* that says there is no issue began when there was none, whatever issues and pull
\* requests were added meanwhile.  Only a deletion can hide one (client.go 198-224).
AbsenceIsReal == pc = "create" => ~known \/ shrunk

\* Neither an error of the creation nor an earlier attempt's issue leads to a second
\* one, unless GitHub applies a request late or an issue is deleted during a search
\* (release.go 364-378; docs/architecture.md 122).
IssueIsUnique == (\A i, j \in Ours(listing) : i = j) \/ late \/ shrunk

\* The most that an attempt can be charged, whatever becomes of it: every request of
\* each generation and of its repairs.
MaxSpend == (MaxRepairAttempts + 1) * (ModelRetries + 1) * MaxCharge

\* The definition's limit is compared with what the replies report, after they were paid
\* for, and retried requests report nothing.  Even so the retries within the repairs
\* bound what an attempt is charged, and an accepted result goes beyond the limit by no
\* more than its retries (openai.go 98-120, generate.go 56-78, release.go 208).
SpendIsBounded ==
  /\ charged <= MaxSpend
  /\ pc \in {"search", "create", "done"} =>
       charged <= MaxCostUSD + (repair + 1) * ModelRetries * MaxCharge
=============================================================================

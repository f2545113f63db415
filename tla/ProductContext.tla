--------------------------- MODULE ProductContext ---------------------------
(***************************************************************************)
(* Products, their marketing context and its files: `product add`,         *)
(* `context draft` and `context approve` (internal/app/commands.go,        *)
(* internal/productcontext/service.go) over the tables products, evidence  *)
(* and product_context_versions (internal/state/store.go, evidence.go) and *)
(* the workspace of a product (internal/products/workspace.go).  Each      *)
(* command is a process of its own; a step is one transaction or one       *)
(* replaced file, and between two steps anything may happen.               *)
(***************************************************************************)
EXTENDS Naturals, FiniteSets

CONSTANTS
  Products,
  Configs,      \* what the flags of product add say of a product
  Pieces,       \* evidence a draft may collect; an id is a hash of its content
  Texts,        \* what the model drafts
  MaxVersions,  \* bound on the versions of a product's context
  Commands,     \* processes at work at once
  MaxFaults,    \* bound on crashes, errors and interrupts
  NoProduct, NoConfig, NoPiece, NoText

ASSUME ProductContextAssumption ==
  /\ MaxVersions \in Nat
  /\ MaxFaults \in Nat
  /\ NoProduct \notin Products
  /\ NoConfig \notin Configs
  /\ NoPiece \notin Pieces
  /\ NoText \notin Texts

Versions == 1..MaxVersions

VARIABLES
  registered,    \* the rows of products
  defined,       \* products with a row in workflows
  evidence,      \* the rows of evidence of each product
  contexts,      \* the rows of product_context_versions
  productFile,   \* product.yaml
  draftFiles,    \* product-marketing.v<N>.draft.md
  approvedFile,  \* the version whose content product-marketing.md has; 0 is no file
  changelog,     \* the versions that product-marketing.changelog.md lists
  job,           \* the commands under way
  faults         \* how much has gone wrong

database  == <<registered, defined, evidence, contexts>>
workspace == <<productFile, draftFiles, approvedFile, changelog>>
vars      == <<database, workspace, job, faults>>
-----------------------------------------------------------------------------
NoRow == [status |-> "absent", text |-> NoText, evidence |-> {}]
Rows  == [status : {"absent", "draft", "approved", "superseded"},
          text : Texts \cup {NoText}, evidence : SUBSET Pieces]

\* pc is the next call of the command; the other fields are its locals.
Idle == [pc |-> "idle", product |-> NoProduct, config |-> NoConfig, collected |-> {},
         pending |-> {}, piece |-> NoPiece, text |-> NoText, version |-> 0]
Jobs == [pc : {"idle", "insert", "define", "evidence", "save", "create", "draft",
               "approve", "mirror", "log"},
         product : Products \cup {NoProduct}, config : Configs \cup {NoConfig},
         collected : SUBSET Pieces, pending : SUBSET Pieces, piece : Pieces \cup {NoPiece},
         text : Texts \cup {NoText}, version : 0..MaxVersions]

Init ==
  /\ registered   = [p \in Products |-> NoConfig]
  /\ defined      = {}
  /\ evidence     = [p \in Products |-> {}]
  /\ contexts     = [p \in Products |-> [v \in Versions |-> NoRow]]
  /\ productFile  = [p \in Products |-> NoConfig]
  /\ draftFiles   = [p \in Products |-> [v \in Versions |-> NoText]]
  /\ approvedFile = [p \in Products |-> 0]
  /\ changelog    = [p \in Products |-> {}]
  /\ job          = [c \in Commands |-> Idle]
  /\ faults       = 0
-----------------------------------------------------------------------------
At(c, step)   == job[c].pc = step
Goto(c, step) == job' = [job EXCEPT ![c].pc = step]
Return(c)     == job' = [job EXCEPT ![c] = Idle]
Healthy       == UNCHANGED faults

Status(p, v)   == contexts[p][v].status
Approved(p, v) == Status(p, v) = "approved"
-----------------------------------------------------------------------------
(* product add.                                                            *)

\* Initialize: the directories and product.yaml, whoever the product is.
InitializeWorkspace(c, p, config) ==
  /\ At(c, "idle")
  /\ productFile' = [productFile EXCEPT ![p] = config]
  /\ job' = [job EXCEPT ![c] = [Idle EXCEPT !.pc = "insert", !.product = p, !.config = config]]
  /\ Healthy
  /\ UNCHANGED <<database, draftFiles, approvedFile, changelog>>

\* AddProduct, ErrDuplicate when the row is there.
AddProduct(c) ==
  LET p == job[c].product IN
  /\ At(c, "insert")
  /\ IF registered[p] = NoConfig
     THEN registered' = [registered EXCEPT ![p] = job[c].config] /\ Goto(c, "define")
     ELSE UNCHANGED registered /\ Return(c)
  /\ Healthy
  /\ UNCHANGED <<defined, evidence, contexts, workspace>>

\* UpsertWorkflow, with the definition disabled.
DefineWorkflow(c) ==
  /\ At(c, "define")
  /\ defined' = defined \cup {job[c].product}
  /\ Return(c)
  /\ Healthy
  /\ UNCHANGED <<registered, evidence, contexts, workspace>>
-----------------------------------------------------------------------------
(* context draft.                                                          *)

\* Bound: no draft is begun that would find no version left.
VersionLeft(p) ==
  LET drafts   == {c \in Commands : job[c].product = p /\ job[c].pc \in {"evidence", "save", "create"}}
      versions == {v \in Versions : Status(p, v) # "absent"}
  IN Cardinality(drafts) + Cardinality(versions) < MaxVersions

\* GetProduct and collectSources: files and pages read as they are at the moment.
CollectSources(c, p, collected) ==
  /\ At(c, "idle")
  /\ registered[p] # NoConfig
  /\ collected # {}
  /\ VersionLeft(p)
  /\ job' = [job EXCEPT ![c] = [Idle EXCEPT !.pc = "evidence", !.product = p,
                                            !.collected = collected, !.pending = collected]]
  /\ Healthy
  /\ UNCHANGED <<database, workspace>>

\* SaveEvidence looks the id of one source up, in a read of its own.
LookUpEvidence(c, x) ==
  /\ At(c, "evidence")
  /\ x \in job[c].pending
  /\ IF x \in evidence[job[c].product]
     THEN job' = [job EXCEPT ![c].pending = @ \ {x}]
     ELSE job' = [job EXCEPT ![c].pc = "save", ![c].piece = x]
  /\ Healthy
  /\ UNCHANGED <<database, workspace>>

Saved(c) == job' = [job EXCEPT ![c].pc = "evidence", ![c].piece = NoPiece,
                               ![c].pending = @ \ {job[c].piece}]

\* Faulty: stores the local after it was reset.
InsertReset(c) ==
  /\ At(c, "save")
  /\ Saved(c)
  /\ evidence' = [evidence EXCEPT ![job[c].product] = @ \cup {job'[c].piece}]
  /\ Healthy
  /\ UNCHANGED <<registered, defined, contexts, workspace>>

\* The insert finds the id taken, by a draft at work at the same time:
\* ErrImmutableConflict, though the content is the same.
InsertEvidence(c) ==
  LET p == job[c].product IN
  /\ At(c, "save")
  /\ IF job[c].piece \in evidence[p]
     THEN Return(c) /\ UNCHANGED evidence
     ELSE Saved(c)  /\ evidence' = [evidence EXCEPT ![p] = @ \cup {job[c].piece}]
  /\ Healthy
  /\ UNCHANGED <<registered, defined, contexts, workspace>>

\* The model's draft, repaired until validateDraft accepts it: it cites some of the
\* evidence it was given and nothing else.
Generate(c, text, cited) ==
  /\ At(c, "evidence")
  /\ job[c].pending = {}
  /\ cited # {} /\ cited \subseteq job[c].collected
  /\ job' = [job EXCEPT ![c].pc = "create", ![c].text = text, ![c].collected = cited]
  /\ Healthy
  /\ UNCHANGED <<database, workspace>>

\* Faulty: numbers after the last version that was approved.
NextAfterApproved(p, v) ==
  /\ \A u \in Versions : Status(p, u) \in {"approved", "superseded"} => u < v
  /\ v > 1 => Status(p, v - 1) \in {"approved", "superseded"}

\* MAX(version)+1, in the transaction that inserts the row.
NextVersion(p, v) ==
  /\ \A u \in Versions : Status(p, u) # "absent" => u < v
  /\ v > 1 => Status(p, v - 1) # "absent"

CreateContextDraft(c, v) ==
  LET p == job[c].product IN
  /\ At(c, "create")
  /\ NextVersion(p, v)
  /\ contexts' = [contexts EXCEPT ![p][v] =
       [status |-> "draft", text |-> job[c].text, evidence |-> job[c].collected]]
  /\ job' = [job EXCEPT ![c].pc = "draft", ![c].version = v]
  /\ Healthy
  /\ UNCHANGED <<registered, defined, evidence, workspace>>

WriteContextDraft(c) ==
  /\ At(c, "draft")
  /\ draftFiles' = [draftFiles EXCEPT ![job[c].product][job[c].version] = job[c].text]
  /\ Return(c)
  /\ Healthy
  /\ UNCHANGED <<database, productFile, approvedFile, changelog>>
-----------------------------------------------------------------------------
(* context approve.                                                        *)

BeginApprove(c, p, v) ==
  /\ At(c, "idle")
  /\ job' = [job EXCEPT ![c] = [Idle EXCEPT !.pc = "approve", !.product = p, !.version = v]]
  /\ Healthy
  /\ UNCHANGED <<database, workspace>>

\* Faulty: the version approved before stays approved.
KeepOthers(p, v) == contexts

\* Every other approved version is superseded.
SupersedeOthers(p, v) ==
  [contexts EXCEPT ![p] = [u \in Versions |->
     IF Approved(p, u) THEN [contexts[p][u] EXCEPT !.status = "superseded"]
     ELSE contexts[p][u]]]

\* Faulty: refuses nothing.
ApproveAnything(c) ==
  LET p == job[c].product
      v == job[c].version
  IN
  /\ At(c, "approve")
  /\ contexts' = IF Status(p, v) = "draft"
                 THEN [SupersedeOthers(p, v) EXCEPT ![p][v].status = "approved"]
                 ELSE contexts
  /\ Goto(c, "mirror")
  /\ Healthy
  /\ UNCHANGED <<registered, defined, evidence, workspace>>

\* Faulty: approves a superseded version again.
ApproveAgain(c) ==
  LET p == job[c].product
      v == job[c].version
  IN
  /\ At(c, "approve")
  /\ Status(p, v) # "absent"
  /\ contexts' = [SupersedeOthers(p, v) EXCEPT ![p][v].status = "approved"]
  /\ Goto(c, "mirror")
  /\ Healthy
  /\ UNCHANGED <<registered, defined, evidence, workspace>>

\* Approving a version that is approved changes nothing and goes on to its files;
\* one that does not exist or was superseded is refused.
ApproveContext(c) ==
  LET p == job[c].product
      v == job[c].version
  IN
  /\ At(c, "approve")
  /\ CASE Status(p, v) = "draft" ->
            /\ contexts' = [SupersedeOthers(p, v) EXCEPT ![p][v].status = "approved"]
            /\ Goto(c, "mirror")
       [] Approved(p, v) -> UNCHANGED contexts /\ Goto(c, "mirror")
       [] OTHER          -> UNCHANGED contexts /\ Return(c)
  /\ Healthy
  /\ UNCHANGED <<registered, defined, evidence, workspace>>

\* Faulty: keeps a file that is there.
WriteMirrorOnce(c) ==
  /\ At(c, "mirror")
  /\ approvedFile' = [approvedFile EXCEPT ![job[c].product] =
                        IF @ = 0 THEN job[c].version ELSE @]
  /\ Goto(c, "log")
  /\ Healthy
  /\ UNCHANGED <<database, productFile, draftFiles, changelog>>

WriteApprovedContext(c) ==
  /\ At(c, "mirror")
  /\ approvedFile' = [approvedFile EXCEPT ![job[c].product] = job[c].version]
  /\ Goto(c, "log")
  /\ Healthy
  /\ UNCHANGED <<database, productFile, draftFiles, changelog>>

AppendChangelog(c) ==
  /\ At(c, "log")
  /\ changelog' = [changelog EXCEPT ![job[c].product] = @ \cup {job[c].version}]
  /\ Return(c)
  /\ Healthy
  /\ UNCHANGED <<database, productFile, draftFiles, approvedFile>>
-----------------------------------------------------------------------------
\* An error, an interrupt or a crash: a file is replaced as a whole and a
\* transaction is all or nothing, so nothing else changes.
Fail(c) ==
  /\ ~At(c, "idle")
  /\ faults < MaxFaults
  /\ faults' = faults + 1
  /\ Return(c)
  /\ UNCHANGED <<database, workspace>>

Step(c) ==
  \/ AddProduct(c) \/ DefineWorkflow(c)
  \/ \E x \in Pieces : LookUpEvidence(c, x)
  \/ InsertEvidence(c)
  \/ \E text \in Texts, cited \in SUBSET Pieces : Generate(c, text, cited)
  \/ \E v \in Versions : CreateContextDraft(c, v)
  \/ WriteContextDraft(c)
  \/ ApproveContext(c) \/ WriteApprovedContext(c) \/ AppendChangelog(c)

Invoke(c) ==
  \E p \in Products :
    \/ \E config \in Configs : InitializeWorkspace(c, p, config)
    \/ \E collected \in SUBSET Pieces : CollectSources(c, p, collected)
    \/ \E v \in Versions : BeginApprove(c, p, v)

Next == \E c \in Commands : Step(c) \/ Invoke(c) \/ Fail(c)

Spec == Init /\ [][Next]_vars

\* A process that was started goes on.
Fairness == \A c \in Commands : WF_vars(Step(c))

FairSpec == Spec /\ Fairness
-----------------------------------------------------------------------------
TypeOK ==
  /\ registered   \in [Products -> Configs \cup {NoConfig}]
  /\ defined      \in SUBSET Products
  /\ evidence     \in [Products -> SUBSET Pieces]
  /\ contexts     \in [Products -> [Versions -> Rows]]
  /\ productFile  \in [Products -> Configs \cup {NoConfig}]
  /\ draftFiles   \in [Products -> [Versions -> Texts \cup {NoText}]]
  /\ approvedFile \in [Products -> 0..MaxVersions]
  /\ changelog    \in [Products -> SUBSET Versions]
  /\ job          \in [Commands -> Jobs]
  /\ faults       \in 0..MaxFaults

\* No approval is ever refused by the index idx_context_one_approved, and a product
\* never has two canonical contexts, however approvals interleave (store.go 235-275).
OneApproved ==
  \A p \in Products, u, v \in Versions : Approved(p, u) /\ Approved(p, v) => u = v

\* Nothing but approved content reaches product-marketing.md or its changelog: not a
\* draft, whatever approvals run at once and wherever they stop (docs/cli.md 44).
MirrorWasApproved ==
  \A p \in Products, v \in Versions :
    approvedFile[p] = v \/ v \in changelog[p] => Status(p, v) \in {"approved", "superseded"}

\* The draft file of a version has the text of that version's row, though two drafts
\* of a product may be numbered and written at once (store.go 209, service.go 103-107).
DraftFileIsItsRow ==
  \A p \in Products, v \in Versions :
    draftFiles[p][v] # NoText => draftFiles[p][v] = contexts[p][v].text

\* A version's text and evidence never change, its status only moves on, and a product
\* that has an approved context is never without one, not even while the next one is
\* approved (docs/database.md 93: workflows need an approved context at any moment).
ContextHistoryIsFinal ==
  [][\A p \in Products :
       /\ \A v \in Versions : contexts'[p][v] # contexts[p][v] =>
            \/ Status(p, v) = "absent" /\ contexts'[p][v].status = "draft"
            \/ /\ <<Status(p, v), contexts'[p][v].status>>
                     \in {<<"draft", "approved">>, <<"approved", "superseded">>}
               /\ contexts'[p][v].text = contexts[p][v].text
               /\ contexts'[p][v].evidence = contexts[p][v].evidence
       /\ (\E v \in Versions : Approved(p, v)) =>
            \E v \in Versions : contexts'[p][v].status = "approved"]_contexts

\* A rerun of context approve comes to its end for version v of product p.
Reapproved(p, v) ==
  \E c \in Commands : job[c].product = p /\ job[c].version = v /\ AppendChangelog(c)

\* Whatever was lost or overwritten by approvals that crashed or overtook one another,
\* running context approve again for the approved version restores its file and its
\* line in the changelog for good (docs/troubleshooting.md 149).
RerunRestoresMirror ==
  \A p \in Products, v \in Versions :
    <>[]Approved(p, v) /\ []<><<Reapproved(p, v)>>_vars =>
      <>[](approvedFile[p] = v /\ v \in changelog[p])
=============================================================================

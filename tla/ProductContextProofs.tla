------------------------ MODULE ProductContextProofs ------------------------
(***************************************************************************)
(* Theorems about ProductContext for any number of products, versions and  *)
(* commands: its types, that a product has one canonical context, that its *)
(* files have the content of its rows, and that a version's history is     *)
(* final.                                                                  *)
(***************************************************************************)
EXTENDS ProductContext, TLAPS

Final == {"approved", "superseded"}

\* What a command has found or done so far still holds of the tables, whatever the
\* others did since: the row it drafted has its text, the version whose files it
\* writes was approved.
JobHasItsRow(c) ==
  LET p == job[c].product
      v == job[c].version
  IN
  /\ ~At(c, "idle") => p \in Products
  /\ At(c, "insert") => job[c].config \in Configs
  /\ At(c, "save") => job[c].piece \in Pieces
  /\ At(c, "create") => job[c].text \in Texts
  /\ At(c, "draft") => /\ v \in Versions
                       /\ Status(p, v) # "absent"
                       /\ contexts[p][v].text = job[c].text
  /\ At(c, "approve") => v \in Versions
  /\ At(c, "mirror") \/ At(c, "log") => v \in Versions /\ Status(p, v) \in Final

JobsHaveTheirRows == \A c \in Commands : JobHasItsRow(c)

\* A draft file is of a version that has a row.
DraftFileHasRow ==
  \A p \in Products, v \in Versions : draftFiles[p][v] # NoText => Status(p, v) # "absent"

\* A row never goes away, keeps its text, and once approved stays final.
RowsAdvance ==
  \A p \in Products, v \in Versions :
    /\ Status(p, v) # "absent" => /\ contexts'[p][v].status # "absent"
                                  /\ contexts'[p][v].text = contexts[p][v].text
    /\ Status(p, v) \in Final => contexts'[p][v].status \in Final

\* What a step may do to the rows of contexts: the body of ContextHistoryIsFinal.
HistoryStep ==
  \A p \in Products :
    /\ \A v \in Versions : contexts'[p][v] # contexts[p][v] =>
         \/ Status(p, v) = "absent" /\ contexts'[p][v].status = "draft"
         \/ /\ <<Status(p, v), contexts'[p][v].status>>
                  \in {<<"draft", "approved">>, <<"approved", "superseded">>}
            /\ contexts'[p][v].text = contexts[p][v].text
            /\ contexts'[p][v].evidence = contexts[p][v].evidence
    /\ (\E v \in Versions : Approved(p, v)) =>
         \E v \in Versions : contexts'[p][v].status = "approved"

CInv ==
  /\ TypeOK
  /\ OneApproved
  /\ MirrorWasApproved
  /\ DraftFileIsItsRow
  /\ DraftFileHasRow
  /\ JobsHaveTheirRows
-----------------------------------------------------------------------------
\* The idle job has its type.
LEMMA IdleJob == Idle \in Jobs
BY ProductContextAssumption DEF Idle, Jobs

\* The row of a version that was never drafted has its type.
LEMMA AbsentRow == NoRow \in Rows
BY DEF NoRow, Rows

\* A row whose status is set keeps its type, its text and its evidence.
LEMMA SetStatus ==
  ASSUME NEW row \in Rows, NEW status \in {"approved", "superseded"}
  PROVE  /\ [row EXCEPT !.status = status] \in Rows
         /\ [row EXCEPT !.status = status].status = status
         /\ [row EXCEPT !.status = status].text = row.text
         /\ [row EXCEPT !.status = status].evidence = row.evidence
BY DEF Rows

\* The invariant holds before any command was run.
LEMMA CInit == Init => CInv
<1> SUFFICES ASSUME Init PROVE CInv
  OBVIOUS
<1>1. TypeOK
  <2>1. contexts \in [Products -> [Versions -> Rows]]
    BY AbsentRow DEF Init
  <2>2. job \in [Commands -> Jobs] /\ faults \in 0..MaxFaults
    BY IdleJob, ProductContextAssumption DEF Init
  <2>3. approvedFile \in [Products -> 0..MaxVersions]
    BY ProductContextAssumption DEF Init
  <2> QED
    BY <2>1, <2>2, <2>3 DEF Init, TypeOK
<1>2. OneApproved /\ DraftFileIsItsRow /\ DraftFileHasRow
  BY DEF Init, OneApproved, Approved, Status, NoRow, DraftFileIsItsRow, DraftFileHasRow
<1>3. MirrorWasApproved
  BY DEF Init, MirrorWasApproved, Versions
<1>4. JobsHaveTheirRows
  BY DEF Init, JobsHaveTheirRows, JobHasItsRow, At, Idle
<1> QED
  BY <1>1, <1>2, <1>3, <1>4 DEF CInv

\* When rows advance and files stay, what is said of files still holds.
LEMMA FilesKeepTheirRows ==
  ASSUME CInv, RowsAdvance, UNCHANGED <<draftFiles, approvedFile, changelog>>
  PROVE  MirrorWasApproved' /\ DraftFileIsItsRow' /\ DraftFileHasRow'
BY DEF CInv, RowsAdvance, MirrorWasApproved, DraftFileIsItsRow, DraftFileHasRow, Status, Final

\* When rows advance, what the jobs that take no step know of them still holds.
LEMMA OthersKeepTheirRows ==
  ASSUME CInv, RowsAdvance, NEW c \in Commands, JobHasItsRow(c)',
         NEW j, job' = [job EXCEPT ![c] = j]
  PROVE  JobsHaveTheirRows'
<1> SUFFICES ASSUME NEW d \in Commands, d # c
             PROVE  JobHasItsRow(d)'
  BY DEF JobsHaveTheirRows
<1>1. job'[d] = job[d] /\ job[d] \in Jobs
  BY DEF CInv, TypeOK
<1>2. JobHasItsRow(d)
  BY DEF CInv, JobsHaveTheirRows
<1> QED
  BY <1>1, <1>2 DEF JobHasItsRow, RowsAdvance, At, Status, Jobs

\* Rows that do not change advance.
LEMMA SameRowsAdvance ==
  ASSUME UNCHANGED contexts
  PROVE  RowsAdvance
BY DEF RowsAdvance, Status
-----------------------------------------------------------------------------
\* A command that changes its own locals only, keeping what it knows.
LEMMA LocalStep ==
  ASSUME CInv, NEW c \in Commands, NEW j \in Jobs, job' = [job EXCEPT ![c] = j],
         JobHasItsRow(c)', UNCHANGED <<database, workspace, faults>>
  PROVE  CInv'
<1>1. RowsAdvance
  BY SameRowsAdvance DEF database
<1>2. TypeOK'
  BY DEF CInv, TypeOK, database, workspace
<1>3. OneApproved'
  BY DEF CInv, OneApproved, Approved, Status, database
<1>4. MirrorWasApproved' /\ DraftFileIsItsRow' /\ DraftFileHasRow'
  BY <1>1, FilesKeepTheirRows DEF workspace
<1>5. JobsHaveTheirRows'
  BY <1>1, OthersKeepTheirRows
<1> QED
  BY <1>2, <1>3, <1>4, <1>5 DEF CInv

\* A command that ends, with or without an error, knows nothing any more.
LEMMA EndStep ==
  ASSUME NEW c \in Commands, job \in [Commands -> Jobs], Return(c)
  PROVE  job'[c] = Idle /\ JobHasItsRow(c)'
BY DEF Return, JobHasItsRow, At, Idle

\* Beginning a command, whichever it is.
LEMMA InvokeStep ==
  ASSUME CInv, NEW c \in Commands, Invoke(c)
  PROVE  CInv'
<1> USE DEF CInv
<1>1. ASSUME NEW p \in Products, NEW config \in Configs, InitializeWorkspace(c, p, config)
      PROVE  CInv'
  <2> DEFINE j == [Idle EXCEPT !.pc = "insert", !.product = p, !.config = config]
  <2>1. j \in Jobs
    BY IdleJob DEF Jobs, Idle
  <2>2. job' = [job EXCEPT ![c] = j]
    BY <1>1 DEF InitializeWorkspace
  <2>3. JobHasItsRow(c)'
    BY <2>2 DEF TypeOK, JobHasItsRow, At, Idle
  <2>4. RowsAdvance
    BY <1>1, SameRowsAdvance DEF InitializeWorkspace, database
  <2>5. TypeOK'
    BY <1>1, <2>1, <2>2 DEF InitializeWorkspace, TypeOK, database, Healthy
  <2>6. OneApproved'
    BY <1>1 DEF InitializeWorkspace, OneApproved, Approved, Status, database
  <2>7. MirrorWasApproved' /\ DraftFileIsItsRow' /\ DraftFileHasRow'
    BY <1>1, <2>4, FilesKeepTheirRows DEF InitializeWorkspace
  <2>8. JobsHaveTheirRows'
    BY <2>2, <2>3, <2>4, OthersKeepTheirRows
  <2> QED
    BY <2>5, <2>6, <2>7, <2>8
<1>2. ASSUME NEW p \in Products, NEW collected \in SUBSET Pieces,
             CollectSources(c, p, collected)
      PROVE  CInv'
  <2> DEFINE j == [Idle EXCEPT !.pc = "evidence", !.product = p,
                               !.collected = collected, !.pending = collected]
  <2>1. j \in Jobs
    BY IdleJob DEF Jobs, Idle
  <2>2. job' = [job EXCEPT ![c] = j]
    BY <1>2 DEF CollectSources
  <2>3. JobHasItsRow(c)'
    BY <2>2 DEF TypeOK, JobHasItsRow, At, Idle
  <2> QED
    BY <1>2, <2>1, <2>2, <2>3, LocalStep DEF CollectSources, Healthy
<1>3. ASSUME NEW p \in Products, NEW v \in Versions, BeginApprove(c, p, v)
      PROVE  CInv'
  <2> DEFINE j == [Idle EXCEPT !.pc = "approve", !.product = p, !.version = v]
  <2>0. v \in 0..MaxVersions
    BY ProductContextAssumption DEF Versions
  <2>1. j \in Jobs
    BY <2>0, IdleJob DEF Jobs, Idle
  <2>2. job' = [job EXCEPT ![c] = j]
    BY <1>3 DEF BeginApprove
  <2>3. JobHasItsRow(c)'
    BY <2>2 DEF TypeOK, JobHasItsRow, At, Idle
  <2> QED
    BY <1>3, <2>1, <2>2, <2>3, LocalStep DEF BeginApprove, Healthy
<1> QED
  BY <1>1, <1>2, <1>3 DEF Invoke

\* A step of product add after the first one: a row that contexts know nothing of.
LEMMA AddStep ==
  ASSUME CInv, NEW c \in Commands, AddProduct(c) \/ DefineWorkflow(c)
  PROVE  CInv'
<1> DEFINE p == job[c].product
<1> USE DEF CInv
<1>1. JobHasItsRow(c) /\ job[c] \in Jobs
  BY DEF JobsHaveTheirRows, TypeOK
<1>2. PICK j \in Jobs : job' = [job EXCEPT ![c] = j] /\ j.pc \in {"idle", "define"}
                         /\ (j.pc = "define" => j.product \in Products)
  <2>1. CASE Return(c)
    <3>1. job' = [job EXCEPT ![c] = Idle] /\ Idle.pc = "idle"
      BY <2>1 DEF Return, Idle
    <3> QED
      BY <3>1, IdleJob
  <2>2. CASE At(c, "insert") /\ Goto(c, "define")
    <3> DEFINE j == [job[c] EXCEPT !.pc = "define"]
    <3>1. j \in Jobs /\ j.pc = "define" /\ j.product = p
      BY <1>1 DEF Jobs
    <3>2. job' = [job EXCEPT ![c] = j]
      BY <2>2 DEF Goto, TypeOK
    <3>3. p \in Products
      BY <1>1, <2>2 DEF JobHasItsRow, At
    <3> QED
      BY <3>1, <3>2, <3>3
  <2> QED
    BY <2>1, <2>2 DEF AddProduct, DefineWorkflow
<1>3. UNCHANGED <<evidence, contexts, workspace, faults>>
  BY DEF AddProduct, DefineWorkflow, Healthy
<1>4. JobHasItsRow(c)'
  BY <1>2 DEF TypeOK, JobHasItsRow, At
<1>5. registered' \in [Products -> Configs \cup {NoConfig}] /\ defined' \in SUBSET Products
  <2>1. CASE AddProduct(c)
    BY <2>1, <1>1 DEF AddProduct, TypeOK, JobHasItsRow, At
  <2>2. CASE DefineWorkflow(c)
    BY <2>2, <1>1 DEF DefineWorkflow, TypeOK, JobHasItsRow, At
  <2> QED
    BY <2>1, <2>2
<1>6. TypeOK'
  BY <1>2, <1>3, <1>5 DEF TypeOK, workspace
<1>7. OneApproved'
  BY <1>3 DEF OneApproved, Approved, Status
<1>8. RowsAdvance
  BY <1>3, SameRowsAdvance
<1>9. MirrorWasApproved' /\ DraftFileIsItsRow' /\ DraftFileHasRow'
  BY <1>3, <1>8, FilesKeepTheirRows DEF workspace
<1>10. JobsHaveTheirRows'
  BY <1>2, <1>4, <1>8, OthersKeepTheirRows
<1> QED
  BY <1>6, <1>7, <1>9, <1>10

\* Looking evidence up and generating the text change locals only.
LEMMA DraftLocalStep ==
  ASSUME CInv, NEW c \in Commands,
         \/ \E x \in Pieces : LookUpEvidence(c, x)
         \/ \E text \in Texts, cited \in SUBSET Pieces : Generate(c, text, cited)
  PROVE  CInv'
<1> USE DEF CInv
<1>1. JobHasItsRow(c) /\ job[c] \in Jobs
  BY DEF JobsHaveTheirRows, TypeOK
<1>2. ASSUME NEW x \in Pieces, LookUpEvidence(c, x)
      PROVE  CInv'
  <2>1. CASE x \in evidence[job[c].product]
    <3> DEFINE j == [job[c] EXCEPT !.pending = @ \ {x}]
    <3>1. j \in Jobs /\ j.pc = "evidence" /\ j.product = job[c].product
      BY <1>1, <1>2 DEF Jobs, LookUpEvidence, At
    <3>2. job' = [job EXCEPT ![c] = j]
      BY <1>2, <2>1 DEF LookUpEvidence, TypeOK
    <3>3. JobHasItsRow(c)'
      BY <1>1, <1>2, <3>1, <3>2 DEF JobHasItsRow, At, TypeOK, LookUpEvidence
    <3> QED
      BY <1>2, <3>1, <3>2, <3>3, LocalStep DEF LookUpEvidence, Healthy
  <2>2. CASE x \notin evidence[job[c].product]
    <3> DEFINE j == [job[c] EXCEPT !.pc = "save", !.piece = x]
    <3>1. j \in Jobs /\ j.pc = "save" /\ j.product = job[c].product /\ j.piece = x
      BY <1>1 DEF Jobs
    <3>2. job' = [job EXCEPT ![c] = j]
      BY <1>2, <2>2 DEF LookUpEvidence, TypeOK
    <3>3. JobHasItsRow(c)'
      BY <1>1, <1>2, <3>1, <3>2 DEF JobHasItsRow, At, TypeOK, LookUpEvidence
    <3> QED
      BY <1>2, <3>1, <3>2, <3>3, LocalStep DEF LookUpEvidence, Healthy
  <2> QED
    BY <2>1, <2>2
<1>3. ASSUME NEW text \in Texts, NEW cited \in SUBSET Pieces, Generate(c, text, cited)
      PROVE  CInv'
  <2> DEFINE j == [job[c] EXCEPT !.pc = "create", !.text = text, !.collected = cited]
  <2>1. j \in Jobs /\ j.pc = "create" /\ j.product = job[c].product /\ j.text = text
    BY <1>1 DEF Jobs
  <2>2. job' = [job EXCEPT ![c] = j]
    BY <1>3 DEF Generate, TypeOK
  <2>3. JobHasItsRow(c)'
    BY <1>1, <1>3, <2>1, <2>2 DEF JobHasItsRow, At, TypeOK, Generate
  <2> QED
    BY <1>3, <2>1, <2>2, <2>3, LocalStep DEF Generate, Healthy
<1> QED
  BY <1>2, <1>3

\* Inserting one piece of evidence.
LEMMA InsertStep ==
  ASSUME CInv, NEW c \in Commands, InsertEvidence(c)
  PROVE  CInv'
<1> DEFINE p == job[c].product
<1> USE DEF CInv
<1>1. JobHasItsRow(c) /\ job[c] \in Jobs /\ job[c].piece \in Pieces /\ p \in Products
  BY DEF JobsHaveTheirRows, TypeOK, JobHasItsRow, InsertEvidence, At
<1>2. CASE job[c].piece \in evidence[p]
  <2>1. Return(c)
    BY <1>2 DEF InsertEvidence
  <2> QED
    BY <1>2, <2>1, EndStep, IdleJob, LocalStep
    DEF InsertEvidence, Return, TypeOK, Healthy, database, workspace
<1>3. CASE job[c].piece \notin evidence[p]
  <2> DEFINE j == [job[c] EXCEPT !.pc = "evidence", !.piece = NoPiece,
                                 !.pending = @ \ {job[c].piece}]
  <2>1. j \in Jobs /\ j.pc = "evidence" /\ j.product = p
    BY <1>1 DEF Jobs
  <2>2. job' = [job EXCEPT ![c] = j]
    BY <1>3 DEF InsertEvidence, Saved, TypeOK
  <2>3. JobHasItsRow(c)'
    BY <1>1, <2>1, <2>2 DEF JobHasItsRow, At, TypeOK
  <2>4. UNCHANGED <<registered, defined, contexts, workspace, faults>>
    BY DEF InsertEvidence, Healthy
  <2>5. evidence' \in [Products -> SUBSET Pieces]
    BY <1>1, <1>3 DEF InsertEvidence, TypeOK
  <2>6. TypeOK'
    BY <2>1, <2>2, <2>4, <2>5 DEF TypeOK, workspace
  <2>7. OneApproved'
    BY <2>4 DEF OneApproved, Approved, Status
  <2>8. RowsAdvance
    BY <2>4, SameRowsAdvance
  <2>9. MirrorWasApproved' /\ DraftFileIsItsRow' /\ DraftFileHasRow'
    BY <2>4, <2>8, FilesKeepTheirRows DEF workspace
  <2>10. JobsHaveTheirRows'
    BY <2>2, <2>3, <2>8, OthersKeepTheirRows
  <2> QED
    BY <2>6, <2>7, <2>9, <2>10
<1> QED
  BY <1>2, <1>3
-----------------------------------------------------------------------------
\* Rows that go forward in their history advance.
LEMMA HistoryAdvances ==
  ASSUME HistoryStep
  PROVE  RowsAdvance
BY DEF HistoryStep, RowsAdvance, Status, Final

\* Rows that stay have gone forward.
LEMMA SameRowsAreHistory ==
  ASSUME UNCHANGED contexts
  PROVE  HistoryStep
BY DEF HistoryStep, Approved, Status

\* Drafting adds one row, of a version that had none.
LEMMA DraftRows ==
  ASSUME CInv, NEW c \in Commands, NEW v \in Versions, CreateContextDraft(c, v)
  PROVE  /\ contexts' \in [Products -> [Versions -> Rows]]
         /\ OneApproved'
         /\ HistoryStep
         /\ contexts'[job[c].product][v].status = "draft"
         /\ contexts'[job[c].product][v].text = job[c].text
<1> DEFINE p == job[c].product
           row == [status |-> "draft", text |-> job[c].text, evidence |-> job[c].collected]
<1>1. p \in Products /\ job[c] \in Jobs /\ contexts \in [Products -> [Versions -> Rows]]
  BY DEF CInv, TypeOK, JobsHaveTheirRows, JobHasItsRow, CreateContextDraft, At
<1>2. row \in Rows /\ row.status = "draft" /\ row.text = job[c].text
  BY <1>1 DEF Rows, Jobs
<1>3. contexts' = [contexts EXCEPT ![p][v] = row]
  BY DEF CreateContextDraft
<1>4. Status(p, v) = "absent"
  <2>1. v \in Nat /\ (Status(p, v) # "absent" => v < v)
    BY ProductContextAssumption DEF CreateContextDraft, NextVersion, Versions
  <2> QED
    BY <2>1
<1>5. /\ contexts'[p][v] = row
      /\ \A q \in Products, u \in Versions :
           q # p \/ u # v => contexts'[q][u] = contexts[q][u]
  BY <1>1, <1>3
<1>6. contexts' \in [Products -> [Versions -> Rows]]
  BY <1>1, <1>2, <1>3
<1>7. OneApproved'
  BY <1>2, <1>5 DEF CInv, OneApproved, Approved, Status
<1>8. HistoryStep
  BY <1>1, <1>2, <1>4, <1>5 DEF HistoryStep, Approved, Status
<1> QED
  BY <1>2, <1>5, <1>6, <1>7, <1>8

\* Approving a draft supersedes whatever was approved, in one step.
LEMMA ApproveRows ==
  ASSUME CInv, NEW p \in Products, NEW v \in Versions, Status(p, v) = "draft",
         contexts' = [SupersedeOthers(p, v) EXCEPT ![p][v].status = "approved"]
  PROVE  /\ contexts' \in [Products -> [Versions -> Rows]]
         /\ OneApproved'
         /\ HistoryStep
         /\ contexts'[p][v].status = "approved"
<1>1. contexts \in [Products -> [Versions -> Rows]]
  BY DEF CInv, TypeOK
<1>2. SupersedeOthers(p, v) \in [Products -> [Versions -> Rows]]
  <2>1. \A u \in Versions : [contexts[p][u] EXCEPT !.status = "superseded"] \in Rows
    <3> TAKE u \in Versions
    <3>1. contexts[p][u] \in Rows
      BY <1>1
    <3> QED
      BY <3>1, SetStatus, Zenon
  <2> QED
    BY <1>1, <2>1 DEF SupersedeOthers
<1>3. /\ SupersedeOthers(p, v)[p][v] = contexts[p][v]
      /\ contexts'[p][v] = [contexts[p][v] EXCEPT !.status = "approved"]
      /\ \A u \in Versions \ {v} : contexts'[p][u] =
           IF Approved(p, u) THEN [contexts[p][u] EXCEPT !.status = "superseded"]
           ELSE contexts[p][u]
      /\ \A q \in Products \ {p} : contexts'[q] = contexts[q]
  BY <1>1, <1>2 DEF SupersedeOthers, Approved
<1>4. /\ contexts'[p][v].status = "approved"
      /\ contexts'[p][v].text = contexts[p][v].text
      /\ contexts'[p][v].evidence = contexts[p][v].evidence
  BY <1>1, <1>3 DEF Rows
<1>5. \A u \in Versions \ {v} :
        /\ contexts'[p][u].status = IF Approved(p, u) THEN "superseded" ELSE Status(p, u)
        /\ contexts'[p][u].text = contexts[p][u].text
        /\ contexts'[p][u].evidence = contexts[p][u].evidence
        /\ ~Approved(p, u) => contexts'[p][u] = contexts[p][u]
  <2> SUFFICES ASSUME NEW u \in Versions \ {v}
               PROVE  /\ contexts'[p][u].status = IF Approved(p, u) THEN "superseded"
                                                   ELSE Status(p, u)
                      /\ contexts'[p][u].text = contexts[p][u].text
                      /\ contexts'[p][u].evidence = contexts[p][u].evidence
                      /\ ~Approved(p, u) => contexts'[p][u] = contexts[p][u]
    OBVIOUS
  <2>1. contexts[p][u] \in Rows
    BY <1>1
  <2>2. contexts'[p][u] = IF Approved(p, u)
                          THEN [contexts[p][u] EXCEPT !.status = "superseded"]
                          ELSE contexts[p][u]
    BY <1>3
  <2> DEFINE row == contexts[p][u]
  <2>3. /\ [row EXCEPT !.status = "superseded"].status = "superseded"
        /\ [row EXCEPT !.status = "superseded"].text = row.text
        /\ [row EXCEPT !.status = "superseded"].evidence = row.evidence
    BY <2>1, SetStatus, Zenon
  <2>4. Status(p, u) = row.status
    BY DEF Status
  <2> HIDE DEF row
  <2>5. contexts'[p][u] = IF Approved(p, u) THEN [row EXCEPT !.status = "superseded"]
                          ELSE row
    BY <2>2 DEF row
  <2>6. CASE Approved(p, u)
    <3>1. contexts'[p][u] = [row EXCEPT !.status = "superseded"]
      BY <2>5, <2>6
    <3> QED
      BY <2>3, <2>6, <3>1, Zenon DEF row
  <2>7. CASE ~Approved(p, u)
    <3>1. contexts'[p][u] = row
      BY <2>5, <2>7
    <3> QED
      BY <2>4, <2>7, <3>1, Zenon DEF row
  <2> QED
    BY <2>6, <2>7
<1>6. contexts' \in [Products -> [Versions -> Rows]]
  <2>1. [contexts[p][v] EXCEPT !.status = "approved"] \in Rows
    <3>1. contexts[p][v] \in Rows
      BY <1>1
    <3> QED
      BY <3>1, SetStatus, Zenon
  <2>2. contexts' = [SupersedeOthers(p, v) EXCEPT
                       ![p] = [@ EXCEPT ![v] = [contexts[p][v] EXCEPT !.status = "approved"]]]
    BY <1>3
  <2> QED
    BY <1>2, <2>1, <2>2
<1>7. OneApproved'
  BY <1>3, <1>4, <1>5 DEF CInv, OneApproved, Approved, Status
<1>8. HistoryStep
  <2> SUFFICES ASSUME NEW q \in Products
               PROVE  HistoryStep!(q)
    BY DEF HistoryStep
  <2>1. CASE q # p
    BY <1>3, <2>1 DEF Approved, Status
  <2>2. CASE q = p
    BY <1>4, <1>5, <2>2 DEF Approved, Status
  <2> QED
    BY <2>1, <2>2
<1> QED
  BY <1>4, <1>6, <1>7, <1>8

\* A step that touches no file, given what it does to the rows.
LEMMA RowStep ==
  ASSUME CInv, NEW c \in Commands, NEW j \in Jobs, job' = [job EXCEPT ![c] = j],
         JobHasItsRow(c)', HistoryStep, OneApproved',
         contexts' \in [Products -> [Versions -> Rows]],
         UNCHANGED <<registered, defined, evidence, workspace, faults>>
  PROVE  CInv'
<1>1. TypeOK'
  BY DEF CInv, TypeOK, workspace
<1>2. MirrorWasApproved' /\ DraftFileIsItsRow' /\ DraftFileHasRow'
  BY HistoryAdvances, FilesKeepTheirRows DEF workspace
<1>3. JobsHaveTheirRows'
  BY HistoryAdvances, OthersKeepTheirRows
<1> QED
  BY <1>1, <1>2, <1>3 DEF CInv

\* Inserting the row of a draft.
LEMMA CreateStep ==
  ASSUME CInv, NEW c \in Commands, NEW v \in Versions, CreateContextDraft(c, v)
  PROVE  CInv' /\ HistoryStep
<1> DEFINE p == job[c].product
           j == [job[c] EXCEPT !.pc = "draft", !.version = v]
<1>1. p \in Products /\ job[c] \in Jobs /\ v \in 0..MaxVersions
  BY ProductContextAssumption
  DEF CInv, TypeOK, JobsHaveTheirRows, JobHasItsRow, CreateContextDraft, At, Versions
<1>2. /\ j \in Jobs /\ j.pc = "draft" /\ j.version = v
      /\ j.product = p /\ j.text = job[c].text
  BY <1>1 DEF Jobs
<1>3. job' = [job EXCEPT ![c] = j]
  BY DEF CreateContextDraft, CInv, TypeOK
<1>4. job'[c] = j
  BY <1>3 DEF CInv, TypeOK
<1>5. JobHasItsRow(c)'
  BY <1>1, <1>2, <1>4, DraftRows DEF JobHasItsRow, At, Status
<1>6. UNCHANGED <<registered, defined, evidence, workspace, faults>>
  BY DEF CreateContextDraft, Healthy
<1> QED
  BY <1>2, <1>3, <1>5, <1>6, DraftRows, RowStep

\* Approving: a draft is approved, an approved version goes on to its files, any other
\* is refused.
LEMMA ApproveStep ==
  ASSUME CInv, NEW c \in Commands, ApproveContext(c)
  PROVE  CInv' /\ HistoryStep
<1> DEFINE p == job[c].product
           v == job[c].version
           j == [job[c] EXCEPT !.pc = "mirror"]
<1>1. p \in Products /\ v \in Versions /\ job \in [Commands -> Jobs] /\ job[c] \in Jobs
  BY DEF CInv, TypeOK, JobsHaveTheirRows, JobHasItsRow, ApproveContext, At
<1>2. j \in Jobs /\ j.pc = "mirror" /\ j.product = p /\ j.version = v
  BY <1>1 DEF Jobs
<1>3. UNCHANGED <<registered, defined, evidence, workspace, faults>>
  BY DEF ApproveContext, Healthy
<1>4. ASSUME Goto(c, "mirror"), contexts'[p][v].status \in Final
      PROVE  job' = [job EXCEPT ![c] = j] /\ JobHasItsRow(c)'
  <2>1. job' = [job EXCEPT ![c] = j]
    BY <1>1, <1>4 DEF Goto
  <2>2. job'[c] = j
    BY <1>1, <2>1
  <2> QED
    BY <1>1, <1>2, <1>4, <2>1, <2>2 DEF JobHasItsRow, At, Status
<1>5. CASE Status(p, v) = "draft"
  <2>1. /\ contexts' = [SupersedeOthers(p, v) EXCEPT ![p][v].status = "approved"]
        /\ Goto(c, "mirror")
    BY <1>5 DEF ApproveContext, Approved
  <2>2. /\ contexts' \in [Products -> [Versions -> Rows]]
        /\ OneApproved' /\ HistoryStep /\ contexts'[p][v].status = "approved"
    BY <1>1, <1>5, <2>1, ApproveRows
  <2> QED
    BY <1>2, <1>3, <1>4, <2>1, <2>2, RowStep DEF Final
<1>6. CASE Approved(p, v)
  <2>1. UNCHANGED contexts /\ Goto(c, "mirror")
    BY <1>6 DEF ApproveContext, Approved
  <2>2. contexts'[p][v].status \in Final
    BY <1>6, <2>1 DEF Approved, Status, Final
  <2>3. job' = [job EXCEPT ![c] = j] /\ JobHasItsRow(c)'
    BY <1>4, <2>1, <2>2
  <2> QED
    BY <1>2, <1>3, <2>1, <2>3, LocalStep, SameRowsAreHistory DEF database
<1>7. CASE Status(p, v) # "draft" /\ ~Approved(p, v)
  <2>1. UNCHANGED contexts /\ Return(c)
    BY <1>7 DEF ApproveContext, Approved
  <2>2. job' = [job EXCEPT ![c] = Idle] /\ JobHasItsRow(c)'
    BY <1>1, <2>1, EndStep DEF Return
  <2> QED
    BY <1>3, <2>1, <2>2, IdleJob, LocalStep, SameRowsAreHistory DEF database
<1> QED
  BY <1>5, <1>6, <1>7

\* A step that writes one file of a product, given what the file then says.
LEMMA FileStep ==
  ASSUME CInv, NEW c \in Commands, NEW j \in Jobs, job' = [job EXCEPT ![c] = j],
         JobHasItsRow(c)', UNCHANGED <<database, productFile, faults>>,
         draftFiles' \in [Products -> [Versions -> Texts \cup {NoText}]],
         approvedFile' \in [Products -> 0..MaxVersions],
         changelog' \in [Products -> SUBSET Versions],
         MirrorWasApproved', DraftFileIsItsRow', DraftFileHasRow'
  PROVE  CInv'
<1>1. TypeOK'
  BY DEF CInv, TypeOK, database
<1>2. OneApproved'
  BY DEF CInv, OneApproved, Approved, Status, database
<1>3. JobsHaveTheirRows'
  BY SameRowsAdvance, OthersKeepTheirRows DEF database
<1> QED
  BY <1>1, <1>2, <1>3 DEF CInv

\* The file of a draft gets the text of its row.
LEMMA DraftFileStep ==
  ASSUME CInv, NEW c \in Commands, WriteContextDraft(c)
  PROVE  CInv'
<1> DEFINE p == job[c].product
           v == job[c].version
<1>1. /\ p \in Products /\ v \in Versions /\ job[c].text \in Texts \cup {NoText}
      /\ Status(p, v) # "absent" /\ contexts[p][v].text = job[c].text
  BY DEF CInv, TypeOK, Jobs, JobsHaveTheirRows, JobHasItsRow, WriteContextDraft, At
<1>2. /\ draftFiles' = [draftFiles EXCEPT ![p][v] = job[c].text] /\ Return(c)
      /\ UNCHANGED <<database, productFile, approvedFile, changelog, faults>>
  BY DEF WriteContextDraft, Healthy
<1>3. job' = [job EXCEPT ![c] = Idle] /\ JobHasItsRow(c)'
  BY <1>2, EndStep DEF Return, CInv, TypeOK
<1>4. draftFiles' \in [Products -> [Versions -> Texts \cup {NoText}]]
  BY <1>1, <1>2 DEF CInv, TypeOK
<1>5. DraftFileIsItsRow' /\ DraftFileHasRow'
  BY <1>1, <1>2 DEF CInv, TypeOK, DraftFileIsItsRow, DraftFileHasRow, Status, database
<1>6. MirrorWasApproved'
  BY <1>2 DEF CInv, MirrorWasApproved, Status, database
<1> QED
  BY <1>2, <1>3, <1>4, <1>5, <1>6, IdleJob, FileStep DEF CInv, TypeOK

\* The mirror and the changelog get a version that was approved.
LEMMA MirrorStep ==
  ASSUME CInv, NEW c \in Commands, WriteApprovedContext(c) \/ AppendChangelog(c)
  PROVE  CInv'
<1> DEFINE p == job[c].product
           v == job[c].version
<1>1. /\ p \in Products /\ v \in Versions /\ job[c] \in Jobs
      /\ Status(p, v) \in Final /\ v \in 0..MaxVersions
  BY ProductContextAssumption
  DEF CInv, TypeOK, Jobs, JobsHaveTheirRows, JobHasItsRow, WriteApprovedContext,
      AppendChangelog, At
<1>2. UNCHANGED <<database, productFile, draftFiles, faults>>
  BY DEF WriteApprovedContext, AppendChangelog, Healthy
<1>3. DraftFileIsItsRow' /\ DraftFileHasRow'
  BY <1>2 DEF CInv, DraftFileIsItsRow, DraftFileHasRow, Status, database
<1>4. CASE WriteApprovedContext(c)
  <2> DEFINE j == [job[c] EXCEPT !.pc = "log"]
  <2>1. j \in Jobs /\ j.pc = "log" /\ j.product = p /\ j.version = v
    BY <1>1 DEF Jobs
  <2>2. /\ approvedFile' = [approvedFile EXCEPT ![p] = v] /\ UNCHANGED changelog
        /\ job' = [job EXCEPT ![c] = j]
    BY <1>4 DEF WriteApprovedContext, Goto, CInv, TypeOK
  <2>3. job'[c] = j
    BY <2>2 DEF CInv, TypeOK
  <2>4. JobHasItsRow(c)'
    BY <1>1, <1>2, <2>1, <2>3 DEF JobHasItsRow, At, Status, database
  <2>5. /\ approvedFile' \in [Products -> 0..MaxVersions]
        /\ changelog' \in [Products -> SUBSET Versions]
    BY <1>1, <2>2 DEF CInv, TypeOK
  <2>6. MirrorWasApproved'
    BY <1>1, <1>2, <2>2 DEF CInv, TypeOK, MirrorWasApproved, Status, Final, database
  <2> QED
    BY <1>2, <1>3, <2>1, <2>2, <2>4, <2>5, <2>6, FileStep DEF CInv, TypeOK
<1>5. CASE AppendChangelog(c)
  <2>1. /\ changelog' = [changelog EXCEPT ![p] = @ \cup {v}] /\ UNCHANGED approvedFile
        /\ Return(c)
    BY <1>5 DEF AppendChangelog
  <2>2. job' = [job EXCEPT ![c] = Idle] /\ JobHasItsRow(c)'
    BY <2>1, EndStep DEF Return, CInv, TypeOK
  <2>3. /\ approvedFile' \in [Products -> 0..MaxVersions]
        /\ changelog' \in [Products -> SUBSET Versions]
    BY <1>1, <2>1 DEF CInv, TypeOK
  <2>4. MirrorWasApproved'
    BY <1>1, <1>2, <2>1 DEF CInv, TypeOK, MirrorWasApproved, Status, Final, database
  <2> QED
    BY <1>2, <1>3, <2>2, <2>3, <2>4, IdleJob, FileStep DEF CInv, TypeOK
<1> QED
  BY <1>4, <1>5

\* An error, an interrupt or a crash loses what the command knew, and nothing else.
LEMMA FailStep ==
  ASSUME CInv, NEW c \in Commands, Fail(c)
  PROVE  CInv'
<1>1. UNCHANGED <<database, workspace>> /\ Return(c) /\ faults' \in 0..MaxFaults
  BY ProductContextAssumption DEF Fail, CInv, TypeOK
<1>2. job' = [job EXCEPT ![c] = Idle] /\ JobHasItsRow(c)'
  BY <1>1, EndStep DEF Return, CInv, TypeOK
<1>3. RowsAdvance
  BY <1>1, SameRowsAdvance DEF database
<1>4. TypeOK'
  BY <1>1, <1>2, IdleJob DEF CInv, TypeOK, database, workspace
<1>5. OneApproved'
  BY <1>1 DEF CInv, OneApproved, Approved, Status, database
<1>6. MirrorWasApproved' /\ DraftFileIsItsRow' /\ DraftFileHasRow'
  BY <1>1, <1>3, FilesKeepTheirRows DEF workspace
<1>7. JobsHaveTheirRows'
  BY <1>2, <1>3, OthersKeepTheirRows
<1> QED
  BY <1>4, <1>5, <1>6, <1>7 DEF CInv
-----------------------------------------------------------------------------
\* Every step keeps the invariant, and only the two transactions on versions change a
\* row, each by a step of its history.
LEMMA CNext == CInv /\ [Next]_vars => CInv' /\ HistoryStep
<1> SUFFICES ASSUME CInv, [Next]_vars PROVE CInv' /\ HistoryStep
  OBVIOUS
<1>1. CASE UNCHANGED vars
  <2>1. CInv'
    BY <1>1 DEF CInv, TypeOK, OneApproved, MirrorWasApproved, DraftFileIsItsRow,
                DraftFileHasRow, JobsHaveTheirRows, JobHasItsRow, At, Approved, Status,
                vars, database, workspace
  <2> QED
    BY <1>1, <2>1, SameRowsAreHistory DEF vars, database
<1>2. ASSUME NEW c \in Commands, Step(c) PROVE CInv' /\ HistoryStep
  <2>1. CASE AddProduct(c) \/ DefineWorkflow(c)
    BY <2>1, AddStep, SameRowsAreHistory DEF AddProduct, DefineWorkflow
  <2>2. CASE \/ \E x \in Pieces : LookUpEvidence(c, x)
             \/ \E text \in Texts, cited \in SUBSET Pieces : Generate(c, text, cited)
    <3>1. UNCHANGED contexts
      BY <2>2 DEF LookUpEvidence, Generate, database
    <3> QED
      BY <2>2, <3>1, DraftLocalStep, SameRowsAreHistory
  <2>3. CASE InsertEvidence(c)
    BY <2>3, InsertStep, SameRowsAreHistory DEF InsertEvidence
  <2>4. CASE \E v \in Versions : CreateContextDraft(c, v)
    BY <2>4, CreateStep
  <2>5. CASE WriteContextDraft(c)
    BY <2>5, DraftFileStep, SameRowsAreHistory DEF WriteContextDraft, database
  <2>6. CASE ApproveContext(c)
    BY <2>6, ApproveStep
  <2>7. CASE WriteApprovedContext(c) \/ AppendChangelog(c)
    BY <2>7, MirrorStep, SameRowsAreHistory DEF WriteApprovedContext, AppendChangelog, database
  <2> QED
    BY <1>2, <2>1, <2>2, <2>3, <2>4, <2>5, <2>6, <2>7 DEF Step
<1>3. ASSUME NEW c \in Commands, Invoke(c) PROVE CInv' /\ HistoryStep
  <2>1. UNCHANGED contexts
    BY <1>3 DEF Invoke, InitializeWorkspace, CollectSources, BeginApprove, database
  <2> QED
    BY <1>3, <2>1, InvokeStep, SameRowsAreHistory
<1>4. ASSUME NEW c \in Commands, Fail(c) PROVE CInv' /\ HistoryStep
  BY <1>4, FailStep, SameRowsAreHistory DEF Fail, database
<1> QED
  BY <1>1, <1>2, <1>3, <1>4 DEF Next

\* The types, the canonical context, the content of the files and what commands at
\* work rely on agree in every reachable state (service.go 86-128, store.go 199-275).
THEOREM ContextInvariant == Spec => []CInv
<1>1. Init => CInv
  BY CInit
<1>2. CInv /\ [Next]_vars => CInv'
  BY CNext
<1> QED
  BY <1>1, <1>2, PTL DEF Spec

\* Every table, file and local keeps its type.
THEOREM ContextTypes == Spec => []TypeOK
BY ContextInvariant, PTL DEF CInv

\* A product never has two approved versions (store.go 235-275).
THEOREM CanonicalContextIsUnique == Spec => []OneApproved
BY ContextInvariant, PTL DEF CInv

\* Only what was approved reaches the mirror and the changelog (service.go 117-127).
THEOREM MirrorHoldsApproved == Spec => []MirrorWasApproved
BY ContextInvariant, PTL DEF CInv

\* A draft's file has the text of its row (service.go 103-107).
THEOREM DraftFilesMatchRows == Spec => []DraftFileIsItsRow
BY ContextInvariant, PTL DEF CInv

\* A version's content is fixed, its status moves on only, and a product that has an
\* approved version always has one (store.go 235-275).
THEOREM HistoryIsFinal == Spec => ContextHistoryIsFinal
<1>1. CInv /\ [Next]_vars => [HistoryStep]_contexts
  BY CNext
<1> QED
  BY <1>1, ContextInvariant, PTL DEF Spec, ContextHistoryIsFinal, HistoryStep
=============================================================================

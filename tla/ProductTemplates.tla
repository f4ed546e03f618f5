-------------------------- MODULE ProductTemplates --------------------------
(***************************************************************************)
(* The product templates of the catalog service (catalog.go), which any    *)
(* user may edit.  A template is spread over three tables: its row, a      *)
(* barcode and an image.  Reads fetch the three one after the other,       *)
(* without a transaction, the row with its version first; an edit is one   *)
(* transaction that compares the version the editor was shown with the     *)
(* row's.                                                                  *)
(*                                                                         *)
(* A value is named by the version of the edit that wrote it.  time.Now()  *)
(* is taken to give the edits of a template different times.               *)
(***************************************************************************)
EXTENDS Integers, FiniteSets

CONSTANTS Stores,
          Templates,    \* ids of catalog_product_template
          Users,        \* users who create, edit and delete
          MaxEdits      \* bound: writes of one row

ASSUME TemplatesAssumption ==
  /\ IsFiniteSet(Templates) /\ Templates = 1..Cardinality(Templates) /\ Templates # {}
  /\ Users # {} /\ MaxEdits \in Nat

VARIABLES stores,       \* stores[s]: how often the row was written, 0 before its INSERT
          templates,    \* templates[t]: the template, over its three tables
          forms         \* forms[u]: the template user u has on the screen

templateVars == <<stores, templates, forms>>

Fields == {"columns", "barcode", "image"}  \* the row's own columns count as one

Absent == 0             \* no row in catalog_product_image
Unread == -1            \* a query of fillBarcodeAndImage failed: shown as absent

TemplateRow == [status : {"none", "active", "removed"}, owner : Users, updated_at : Nat,
                value : [Fields -> Nat]]

Form == [at : {"closed", "row", "barcode", "open"}, template : Templates, updated_at : Nat,
         seen : [Fields -> Nat \cup {Unread}]]

SomeOne == CHOOSE u \in Users : TRUE

NextTemplate == Cardinality({t \in Templates : templates[t].status # "none"}) + 1

-----------------------------------------------------------------------------
CreateStore(s) ==
  /\ stores[s] = 0
  /\ stores' = [stores EXCEPT ![s] = 1]
  /\ UNCHANGED <<templates, forms>>

\* SELECT ... FOR UPDATE and UPDATE; stores have no version.
UpdateStore(s) ==
  /\ stores[s] \in 1..(MaxEdits - 1)
  /\ stores' = [stores EXCEPT ![s] = @ + 1]
  /\ UNCHANGED <<templates, forms>>

\* For an existing store; the picture is optional.
CreateProductTemplate(u, image) ==
  /\ \E s \in Stores : stores[s] # 0
  /\ NextTemplate \in Templates
  /\ templates' = [templates EXCEPT ![NextTemplate] =
       [status |-> "active", owner |-> u, updated_at |-> 1,
        value |-> [f \in Fields |-> IF f = "image" THEN image ELSE 1]]]
  /\ UNCHANGED <<stores, forms>>

\* GetProductTemplateByID, of a removed template too.
ReadTemplate(u, t) ==
  /\ templates[t].status # "none"
  /\ forms' = [forms EXCEPT ![u] =
       [at |-> "row", template |-> t, updated_at |-> templates[t].updated_at,
        seen |-> [f \in Fields |-> IF f = "columns" THEN templates[t].value[f] ELSE Unread]]]
  /\ UNCHANGED <<stores, templates>>

\* fillBarcodeAndImage: the next query; its error is logged only.
ReadField(u, from, f, to) ==
  /\ forms[u].at = from
  /\ \E seen \in {templates[forms[u].template].value[f], Unread} :
       forms' = [forms EXCEPT ![u].at = to, ![u].seen[f] = seen]
  /\ UNCHANGED <<stores, templates>>

ReadBarcode(u) == ReadField(u, "row", "barcode", "barcode")

ReadImage(u) == ReadField(u, "barcode", "image", "open")

\* Mutant of Edited: an edit of the barcode or the image alone keeps the version.
EditedColumnsOnly(row, M, image) ==
  LET now == IF "columns" \in M THEN row.updated_at + 1 ELSE row.updated_at
  IN  [row EXCEPT !.updated_at = now,
                  !.value = [f \in Fields |-> IF f \notin M THEN row.value[f]
                                              ELSE IF f = "image" /\ ~image THEN Absent
                                              ELSE row.updated_at + 1]]

\* The template after an edit of the fields M; without image the picture is removed.
Edited(row, M, image) ==
  LET now == row.updated_at + 1
  IN  [row EXCEPT !.updated_at = now,
                  !.value = [f \in Fields |-> IF f \notin M THEN row.value[f]
                                              ELSE IF f = "image" /\ ~image THEN Absent
                                              ELSE now]]

\* applyProductTemplateUpdatesTx.  An edit that is refused changes nothing, and
\* the reads around the transaction decide nothing; the answer is read afterwards
\* (ReadTemplate).
UpdateProductTemplate(u, M, image) ==
  LET t == forms[u].template
  IN  /\ forms[u].at = "open"
      /\ M # {}
      /\ templates[t].status # "removed"
      /\ templates[t].updated_at = forms[u].updated_at
      /\ templates[t].updated_at < MaxEdits
      /\ templates' = [templates EXCEPT ![t] = Edited(@, M, image)]
      /\ forms' = [forms EXCEPT ![u].at = "closed"]
      /\ UNCHANGED stores

\* By its creator only; the version is neither compared nor moved.
DeleteProductTemplate(t) ==
  /\ templates[t].status # "none"
  /\ templates' = [templates EXCEPT ![t].status = "removed"]
  /\ UNCHANGED <<stores, forms>>

-----------------------------------------------------------------------------
TemplatesInit ==
  /\ stores = [s \in Stores |-> 0]
  /\ templates = [t \in Templates |-> [status |-> "none", owner |-> SomeOne, updated_at |-> 0,
                                       value |-> [f \in Fields |-> Absent]]]
  /\ forms = [u \in Users |-> [at |-> "closed", template |-> 1, updated_at |-> 0,
                               seen |-> [f \in Fields |-> Unread]]]

TemplatesNext ==
  \/ \E s \in Stores : CreateStore(s) \/ UpdateStore(s)
  \/ \E u \in Users :
       \/ \E image \in {Absent, 1} : CreateProductTemplate(u, image)
       \/ \E t \in Templates : ReadTemplate(u, t)
       \/ ReadBarcode(u) \/ ReadImage(u)
       \/ \E M \in SUBSET Fields, image \in BOOLEAN : UpdateProductTemplate(u, M, image)
  \/ \E t \in Templates : DeleteProductTemplate(t)

TemplatesSpec == TemplatesInit /\ [][TemplatesNext]_templateVars

-----------------------------------------------------------------------------
(* Correctness.                                                            *)

TemplatesTypeOK ==
  /\ stores \in [Stores -> Nat]
  /\ templates \in [Templates -> TemplateRow]
  /\ forms \in [Users -> Form]

\* No edit overwrites what its author was not shown: although the three tables are
\* read without a transaction, a form whose version is still current shows the
\* current barcode and image too (or none, if reading them failed).  And nothing
\* changes a template that was removed.
NoLostUpdate ==
  [][\A t \in Templates :
       /\ templates[t].status = "removed" => templates'[t] = templates[t]
       /\ templates[t].status = "active" /\ templates'[t].value # templates[t].value =>
            \E u \in Users : /\ forms[u].at = "open" /\ forms[u].template = t
                             /\ \A f \in Fields : templates'[t].value[f] # templates[t].value[f]
                                  => forms[u].seen[f] \in {templates[t].value[f], Unread}]_templateVars
=============================================================================

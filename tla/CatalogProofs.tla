--------------------------- MODULE CatalogProofs ---------------------------
(***************************************************************************)
(* ProductTemplates, ProductImages and Snowflake for every value of their  *)
(* constants: no edit of a template is lost, an upload is all or nothing   *)
(* and exceeds the quota by what is bounded, and no identifier is returned *)
(* twice.                                                                  *)
(***************************************************************************)
EXTENDS ProductTemplates, ProductImages, Snowflake, TotalTheorems

(* Product templates.                                                      *)

\* The rows are numbered in the order of their creation.
Numbered == \E n \in Nat : /\ {t \in Templates : templates[t].status # "none"} = 1..n
                           /\ n <= Cardinality(Templates)

\* A form is of a row that exists and shows a version the row has had; one that shows
\* the version the row has now was filled with what the row has now.
FormsInv ==
  \A u \in Users : forms[u].at # "closed" =>
    LET row == templates[forms[u].template]
    IN  /\ row.status # "none"
        /\ forms[u].updated_at <= row.updated_at
        /\ forms[u].updated_at = row.updated_at =>
             \A f \in Fields : forms[u].seen[f] \in {row.value[f], Unread}

EditsInv == TemplatesTypeOK /\ Numbered /\ FormsInv

\* What a step may do to a row.
NothingLost(t) ==
  /\ templates[t].status = "removed" => templates'[t] = templates[t]
  /\ templates[t].status = "active" /\ templates'[t].value # templates[t].value =>
       \E u \in Users : /\ forms[u].at = "open" /\ forms[u].template = t
                        /\ \A f \in Fields : templates'[t].value[f] # templates[t].value[f]
                             => forms[u].seen[f] \in {templates[t].value[f], Unread}

LEMMA NextIsNew ==
  ASSUME Numbered, NextTemplate \in Templates
  PROVE  /\ templates[NextTemplate].status = "none"
         /\ {t \in Templates : templates[t].status # "none"} \cup {NextTemplate} = 1..NextTemplate
         /\ NextTemplate \in Nat /\ NextTemplate <= Cardinality(Templates)
<1>1. PICK n \in Nat : /\ {t \in Templates : templates[t].status # "none"} = 1..n
                       /\ n <= Cardinality(Templates)
  BY DEF Numbered
<1>2. Cardinality(1..n) = n
  BY FS_Interval
<1>3. NextTemplate = n + 1
  BY <1>1, <1>2 DEF NextTemplate
<1>4. NextTemplate \in 1..Cardinality(Templates) /\ Cardinality(Templates) \in Nat
  BY TemplatesAssumption, FS_CardinalityType
<1>5. 1..(n + 1) = 1..n \cup {n + 1}
  OBVIOUS
<1>6. templates[NextTemplate].status = "none"
  <2>1. NextTemplate \notin 1..n
    BY <1>3
  <2> QED
    BY <1>1, <2>1
<1> QED
  BY <1>1, <1>3, <1>4, <1>5, <1>6

LEMMA EditedRow ==
  ASSUME NEW row \in TemplateRow, NEW M \in SUBSET Fields, NEW image \in BOOLEAN
  PROVE  /\ Edited(row, M, image) \in TemplateRow
         /\ Edited(row, M, image).status = row.status
         /\ Edited(row, M, image).updated_at = row.updated_at + 1
<1> DEFINE value(f) == IF f \notin M THEN row.value[f]
                       ELSE IF f = "image" /\ ~image THEN Absent ELSE row.updated_at + 1
<1>1. row.updated_at \in Nat /\ row.value \in [Fields -> Nat]
  BY DEF TemplateRow
<1>2. \A f \in Fields : value(f) \in Nat
  BY <1>1 DEF Absent
<1>3. PICK v : v = [f \in Fields |-> value(f)]
  OBVIOUS
<1>4. v \in [Fields -> Nat]
  BY <1>2, <1>3
<1>5. Edited(row, M, image) = [row EXCEPT !.updated_at = row.updated_at + 1, !.value = v]
  BY <1>3 DEF Edited
<1> HIDE DEF value
<1>7. PICK n \in Nat : n = row.updated_at + 1
  BY <1>1
<1>8. Edited(row, M, image) = [row EXCEPT !.updated_at = n, !.value = v]
  BY <1>5, <1>7
<1>e. PICK e : e = [row EXCEPT !.updated_at = n, !.value = v]
  OBVIOUS
<1>9. e \in TemplateRow /\ e.status = row.status /\ e.updated_at = n
  BY <1>4, <1>e DEF TemplateRow
<1> QED
  BY <1>7, <1>8, <1>9, <1>e

LEMMA EditsInit == TemplatesInit => EditsInv
<1> SUFFICES ASSUME TemplatesInit PROVE EditsInv
  OBVIOUS
<1>1. SomeOne \in Users /\ 1 \in Templates
  <2>1. Cardinality(Templates) \in Nat
    BY TemplatesAssumption, FS_CardinalityType
  <2> QED
    BY <2>1, TemplatesAssumption DEF SomeOne
<1>2. TemplatesTypeOK
  <2>1. [f \in Fields |-> Absent] \in [Fields -> Nat]
    BY DEF Absent
  <2>2. [f \in Fields |-> Unread] \in [Fields -> Nat \cup {Unread}]
    OBVIOUS
  <2> QED
    BY <1>1, <2>1, <2>2 DEF TemplatesInit, TemplatesTypeOK, TemplateRow, Form
<1>3. Numbered
  <2>1. {t \in Templates : templates[t].status # "none"} = 1..0 /\ Cardinality(Templates) \in Nat
    BY TemplatesAssumption, FS_CardinalityType DEF TemplatesInit
  <2> QED
    BY <2>1 DEF Numbered
<1> QED
  BY <1>2, <1>3 DEF TemplatesInit, EditsInv, FormsInv

\* One step, and what it may do.
LEMMA EditsStep ==
  EditsInv /\ [TemplatesNext]_templateVars => EditsInv' /\ \A t \in Templates : NothingLost(t)
<1> SUFFICES ASSUME EditsInv, [TemplatesNext]_templateVars
             PROVE  EditsInv' /\ \A t \in Templates : NothingLost(t)
  OBVIOUS
<1>1. /\ stores \in [Stores -> Nat] /\ templates \in [Templates -> TemplateRow]
      /\ forms \in [Users -> Form]
      /\ \A t \in Templates : /\ templates[t] \in TemplateRow /\ templates[t].updated_at \in Nat
                              /\ templates[t].value \in [Fields -> Nat]
      /\ \A u \in Users : /\ forms[u] \in Form /\ forms[u].template \in Templates
                          /\ forms[u].updated_at \in Nat
                          /\ forms[u].seen \in [Fields -> Nat \cup {Unread}]
  BY DEF EditsInv, TemplatesTypeOK, TemplateRow, Form
\* The templates stay.
<1>2. ASSUME UNCHANGED templates, stores' \in [Stores -> Nat], forms' \in [Users -> Form], FormsInv'
      PROVE  EditsInv' /\ \A t \in Templates : NothingLost(t)
  BY <1>1, <1>2 DEF EditsInv, TemplatesTypeOK, Numbered, NothingLost
<1>3. ASSUME UNCHANGED <<templates, forms>> PROVE FormsInv'
  BY <1>3 DEF EditsInv, FormsInv
<1>4. ASSUME NEW s \in Stores, CreateStore(s) \/ UpdateStore(s)
      PROVE  EditsInv' /\ \A t \in Templates : NothingLost(t)
  BY <1>1, <1>2, <1>3, <1>4 DEF CreateStore, UpdateStore
<1>5. ASSUME NEW u \in Users, NEW image \in {Absent, 1}, CreateProductTemplate(u, image)
      PROVE  EditsInv' /\ \A t \in Templates : NothingLost(t)
  <2>n. PICK n : n = NextTemplate
    OBVIOUS
  <2>v. PICK v : v = [f \in Fields |-> IF f = "image" THEN image ELSE 1]
    OBVIOUS
  <2>1. /\ n \in Templates /\ UNCHANGED <<stores, forms>>
        /\ templates' = [templates EXCEPT ![n] = [status |-> "active", owner |-> u,
                                                  updated_at |-> 1, value |-> v]]
    BY <1>5, <2>n, <2>v DEF CreateProductTemplate
  <2>2. /\ templates[n].status = "none" /\ n \in Nat /\ n <= Cardinality(Templates)
        /\ {t \in Templates : templates[t].status # "none"} \cup {n} = 1..n
    BY <2>n, <2>1, NextIsNew DEF EditsInv
  <2>3. v \in [Fields -> Nat]
    BY <2>v DEF Absent
  <2>4. templates'[n] \in TemplateRow /\ templates'[n].status = "active"
    BY <1>1, <2>1, <2>3 DEF TemplateRow
  <2>5. templates' \in [Templates -> TemplateRow] /\ \A t \in Templates \ {n} : templates'[t] = templates[t]
    BY <1>1, <2>1, <2>4
  <2>6. Numbered'
    <3>1. {t \in Templates : templates'[t].status # "none"}
            = {t \in Templates : templates[t].status # "none"} \cup {n}
      BY <2>1, <2>4, <2>5
    <3> QED
      BY <2>2, <3>1 DEF Numbered
  <2>7. FormsInv'
    <3>1. \A w \in Users : forms[w].at # "closed" => forms[w].template # n
      BY <2>2 DEF EditsInv, FormsInv
    <3> QED
      BY <1>1, <2>1, <2>5, <3>1 DEF EditsInv, FormsInv
  <2>8. \A t \in Templates : NothingLost(t)
    BY <2>2, <2>5 DEF NothingLost
  <2> QED
    BY <1>1, <2>1, <2>5, <2>6, <2>7, <2>8 DEF EditsInv, TemplatesTypeOK
<1>6. ASSUME NEW u \in Users, NEW t \in Templates, ReadTemplate(u, t)
      PROVE  EditsInv' /\ \A r \in Templates : NothingLost(r)
  <2>s. PICK seen : seen = [f \in Fields |-> IF f = "columns" THEN templates[t].value[f] ELSE Unread]
    OBVIOUS
  <2>1. /\ templates[t].status # "none" /\ UNCHANGED <<stores, templates>>
        /\ forms' = [forms EXCEPT ![u] = [at |-> "row", template |-> t,
                                          updated_at |-> templates[t].updated_at, seen |-> seen]]
    BY <1>6, <2>s DEF ReadTemplate
  <2>2. seen \in [Fields -> Nat \cup {Unread}] /\ \A f \in Fields : seen[f] \in {templates[t].value[f], Unread}
    BY <1>1, <2>s
  <2>3. /\ forms'[u] = [at |-> "row", template |-> t, updated_at |-> templates[t].updated_at, seen |-> seen]
        /\ \A w \in Users \ {u} : forms'[w] = forms[w]
    BY <1>1, <2>1
  <2>4. forms'[u] \in Form
    BY <1>1, <2>2, <2>3 DEF Form
  <2>5. forms' \in [Users -> Form]
    BY <1>1, <2>1, <2>4
  <2>6. FormsInv'
    BY <1>1, <2>1, <2>2, <2>3 DEF EditsInv, FormsInv
  <2> QED
    BY <1>1, <1>2, <2>1, <2>5, <2>6
<1>7. ASSUME NEW u \in Users, NEW from \in {"row", "barcode"}, NEW f \in Fields, NEW to \in {"barcode", "open"},
             ReadField(u, from, f, to)
      PROVE  EditsInv' /\ \A r \in Templates : NothingLost(r)
  <2>t. PICK t : t = forms[u].template
    OBVIOUS
  <2>1. PICK seen \in {templates[t].value[f], Unread} :
          forms' = [forms EXCEPT ![u].at = to, ![u].seen[f] = seen]
    BY <1>7, <2>t DEF ReadField
  <2>2. forms[u].at = from /\ UNCHANGED <<stores, templates>>
    BY <1>7 DEF ReadField
  <2>3. PICK form : form = [forms[u] EXCEPT !.at = to, !.seen = [forms[u].seen EXCEPT ![f] = seen]]
    OBVIOUS
  <2>4. forms' = [forms EXCEPT ![u] = form]
    BY <2>1, <2>3
  <2>5. seen \in Nat \cup {Unread} /\ t \in Templates
    BY <1>1, <2>1, <2>t
  <2>6. [forms[u].seen EXCEPT ![f] = seen] \in [Fields -> Nat \cup {Unread}]
    BY <1>1, <2>5
  <2>7. form \in Form /\ form.template = t /\ form.updated_at = forms[u].updated_at
        /\ form.seen = [forms[u].seen EXCEPT ![f] = seen]
    BY <1>1, <2>3, <2>6, <2>t DEF Form
  <2>8. forms' \in [Users -> Form] /\ forms'[u] = form /\ \A w \in Users \ {u} : forms'[w] = forms[w]
    BY <1>1, <2>4, <2>7
  <2>9. /\ templates[t].status # "none" /\ forms[u].updated_at <= templates[t].updated_at
        /\ forms[u].updated_at = templates[t].updated_at =>
             \A g \in Fields : forms[u].seen[g] \in {templates[t].value[g], Unread}
    BY <2>2, <2>t DEF EditsInv, FormsInv
  <2>10. forms[u].updated_at = templates[t].updated_at =>
           \A g \in Fields : form.seen[g] \in {templates[t].value[g], Unread}
    BY <1>1, <2>1, <2>7, <2>9
  <2>11. FormsInv'
    <3> SUFFICES ASSUME NEW w \in Users, forms'[w].at # "closed"
                 PROVE  /\ templates[forms'[w].template].status # "none"
                        /\ forms'[w].updated_at <= templates[forms'[w].template].updated_at
                        /\ forms'[w].updated_at = templates[forms'[w].template].updated_at =>
                             \A g \in Fields : forms'[w].seen[g] \in {templates[forms'[w].template].value[g], Unread}
      BY <2>2 DEF FormsInv
    <3>1. CASE w = u
      BY <2>7, <2>8, <2>9, <2>10, <3>1
    <3>2. CASE w # u
      BY <2>8, <3>2 DEF EditsInv, FormsInv
    <3> QED
      BY <3>1, <3>2
  <2> QED
    BY <1>1, <1>2, <2>2, <2>8, <2>11
<1>8. ASSUME NEW u \in Users, NEW M \in SUBSET Fields, NEW image \in BOOLEAN, UpdateProductTemplate(u, M, image)
      PROVE  EditsInv' /\ \A r \in Templates : NothingLost(r)
  <2>t. PICK t : t = forms[u].template
    OBVIOUS
  <2>1. /\ forms[u].at = "open" /\ templates[t].status # "removed"
        /\ templates[t].updated_at = forms[u].updated_at
        /\ templates' = [templates EXCEPT ![t] = Edited(templates[t], M, image)]
        /\ forms' = [forms EXCEPT ![u].at = "closed"]
        /\ UNCHANGED stores
    BY <1>8, <2>t DEF UpdateProductTemplate
  <2>2. t \in Templates
    BY <1>1, <2>t
  <2>3. /\ templates' \in [Templates -> TemplateRow] /\ templates'[t].status = templates[t].status
        /\ templates'[t].updated_at = templates[t].updated_at + 1
        /\ \A r \in Templates \ {t} : templates'[r] = templates[r]
    BY <1>1, <2>1, <2>2, EditedRow
  <2>4. /\ templates[t].status # "none"
        /\ \A f \in Fields : forms[u].seen[f] \in {templates[t].value[f], Unread}
    BY <2>1, <2>t DEF EditsInv, FormsInv
  <2>5. [forms[u] EXCEPT !.at = "closed"] \in Form
    BY <1>1 DEF Form
  <2>6. /\ forms' \in [Users -> Form] /\ forms'[u].at = "closed"
        /\ \A w \in Users \ {u} : forms'[w] = forms[w]
    <3>1. forms' = [forms EXCEPT ![u] = [forms[u] EXCEPT !.at = "closed"]]
      BY <2>1
    <3>2. [forms[u] EXCEPT !.at = "closed"].at = "closed"
      BY <1>1 DEF Form
    <3> QED
      BY <1>1, <2>5, <3>1, <3>2
  <2>7. Numbered'
    <3>1. {r \in Templates : templates'[r].status # "none"} = {r \in Templates : templates[r].status # "none"}
      BY <2>2, <2>3
    <3> QED
      BY <3>1 DEF EditsInv, Numbered
  <2>8. FormsInv'
    <3> SUFFICES ASSUME NEW w \in Users, forms'[w].at # "closed", NEW r, r = forms'[w].template
                 PROVE  /\ templates'[r].status # "none"
                        /\ forms'[w].updated_at <= templates'[r].updated_at
                        /\ forms'[w].updated_at = templates'[r].updated_at =>
                             \A g \in Fields : forms'[w].seen[g] \in {templates'[r].value[g], Unread}
      BY DEF FormsInv
    <3>1. w # u /\ forms'[w] = forms[w] /\ r \in Templates
      BY <1>1, <2>6
    <3>2. /\ templates[r].status # "none" /\ forms[w].updated_at <= templates[r].updated_at
          /\ forms[w].updated_at = templates[r].updated_at =>
               \A g \in Fields : forms[w].seen[g] \in {templates[r].value[g], Unread}
      BY <3>1 DEF EditsInv, FormsInv
    <3>3. CASE r = t
      BY <1>1, <2>2, <2>3, <3>1, <3>2, <3>3
    <3>4. CASE r # t
      BY <2>3, <3>1, <3>2, <3>4
    <3> QED
      BY <3>3, <3>4
  <2>9. \A r \in Templates : NothingLost(r)
    BY <2>1, <2>2, <2>3, <2>4, <2>t DEF NothingLost
  <2> QED
    BY <1>1, <2>1, <2>3, <2>6, <2>7, <2>8, <2>9 DEF EditsInv, TemplatesTypeOK
<1>9. ASSUME NEW t \in Templates, DeleteProductTemplate(t)
      PROVE  EditsInv' /\ \A r \in Templates : NothingLost(r)
  <2>1. /\ templates[t].status # "none" /\ UNCHANGED <<stores, forms>>
        /\ templates' = [templates EXCEPT ![t] = [templates[t] EXCEPT !.status = "removed"]]
    BY <1>9 DEF DeleteProductTemplate
  <2>2. /\ [templates[t] EXCEPT !.status = "removed"] \in TemplateRow
        /\ [templates[t] EXCEPT !.status = "removed"].status = "removed"
        /\ [templates[t] EXCEPT !.status = "removed"].value = templates[t].value
        /\ [templates[t] EXCEPT !.status = "removed"].updated_at = templates[t].updated_at
        /\ templates[t].status = "removed" => [templates[t] EXCEPT !.status = "removed"] = templates[t]
    BY <1>1 DEF TemplateRow
  <2>3. /\ templates' \in [Templates -> TemplateRow]
        /\ \A r \in Templates : /\ templates'[r].value = templates[r].value
                                /\ templates'[r].updated_at = templates[r].updated_at
                                /\ templates[r].status = "removed" => templates'[r] = templates[r]
                                /\ templates'[r].status # "none" <=> templates[r].status # "none"
    BY <1>1, <2>1, <2>2
  <2>4. Numbered'
    <3>1. {r \in Templates : templates'[r].status # "none"} = {r \in Templates : templates[r].status # "none"}
      BY <2>3
    <3> QED
      BY <3>1 DEF EditsInv, Numbered
  <2>5. FormsInv'
    BY <1>1, <2>1, <2>3 DEF EditsInv, FormsInv
  <2>6. \A r \in Templates : NothingLost(r)
    BY <2>3 DEF NothingLost
  <2> QED
    BY <1>1, <2>1, <2>3, <2>4, <2>5, <2>6 DEF EditsInv, TemplatesTypeOK
<1>10. CASE UNCHANGED templateVars
  BY <1>1, <1>2, <1>3, <1>10 DEF templateVars
<1> QED
  BY <1>4, <1>5, <1>6, <1>7, <1>8, <1>9, <1>10 DEF TemplatesNext, ReadBarcode, ReadImage, Fields

\* Although any user may edit and the three tables are read one after the other, an
\* edit replaces only what its author was shown, and a removed template stays.
THEOREM EditsNotLost == TemplatesSpec => NoLostUpdate
<1> DEFINE Fine == \A t \in Templates : NothingLost(t)
<1>1. EditsInv /\ [TemplatesNext]_templateVars => [Fine]_templateVars
  BY EditsStep
<1>2. EditsInv /\ [TemplatesNext]_templateVars => EditsInv'
  BY EditsStep
<1>3. TemplatesSpec => [][Fine]_templateVars
  <2> HIDE DEF Fine
  <2> QED
    BY <1>1, <1>2, EditsInit, PTL DEF TemplatesSpec
<1>4. Fine <=> \A t \in Templates :
       /\ templates[t].status = "removed" => templates'[t] = templates[t]
       /\ templates[t].status = "active" /\ templates'[t].value # templates[t].value =>
            \E u \in Users : /\ forms[u].at = "open" /\ forms[u].template = t
                             /\ \A f \in Fields : templates'[t].value[f] # templates[t].value[f]
                                  => forms[u].seen[f] \in {templates[t].value[f], Unread}
  BY DEF NothingLost
<1> QED
  BY <1>3, PTL DEF NoLostUpdate, NothingLost

-----------------------------------------------------------------------------
(* Product images: the quota.                                              *)
\* Uploads that have passed the check of the quota and not been charged.
Waiting == {c \in Pictures : pictures[c].pc \in {"allowed", "stored"}}

Ceiling == DailyLimit + (Concurrent - 1) * LargestSize

\* What is charged and what may still be charged to today.  The upload that was
\* checked last found room for itself, so one of those that wait counts with its own
\* size and the others with the largest.
Room ==
  \/ Waiting = {}
  \/ \E c \in Waiting :
       quota[today] + pictures[c].size + (Cardinality(Waiting) - 1) * LargestSize <= Ceiling

QuotaInv ==
  /\ ImagesTypeOK
  /\ Cardinality(Running) <= Concurrent
  /\ \A c \in Waiting : pictures[c].size \in Sizes
  /\ \A d \in Days : d > today => quota[d] = 0
  /\ \A d \in Days : quota[d] <= Ceiling
  /\ Room

LEMMA Times ==
  ASSUME NEW a \in Nat, NEW b \in Nat
  PROVE  a * b \in Nat /\ (a + 1) * b = a * b + b /\ \A c \in Nat : a <= c => a * b <= c * b
OBVIOUS

LEMMA Largest ==
  LargestSize \in Sizes /\ LargestSize \in 1..DailyLimit /\ \A n \in Sizes : n <= LargestSize
<1> DEFINE T == {m \in Nat : DailyLimit - m \in Sizes}
<1>1. \A n \in Sizes : n \in 1..DailyLimit /\ DailyLimit - n \in T
  BY ImagesAssumption
<1>2. T \subseteq Nat /\ T # {}
  BY <1>1, ImagesAssumption
<1> HIDE DEF T
<1>3. \E x \in T : \A y \in T : ~(<<y, x>> \in OpToRel(<, Nat))
  BY <1>2, NatLessThanWellFounded, WFMin
<1>4. PICK x \in T : \A y \in T : ~(y < x)
  BY <1>2, <1>3 DEF OpToRel
<1>5. \E n \in Sizes : \A m \in Sizes : m <= n
  <2>1. DailyLimit - x \in Sizes /\ x \in Nat
    BY DEF T
  <2>2. \A m \in Sizes : m <= DailyLimit - x
    BY <1>1, <1>2, <1>4, <2>1, ImagesAssumption
  <2> QED
    BY <2>1, <2>2
<1>6. LargestSize \in Sizes /\ \A m \in Sizes : m <= LargestSize
  BY <1>5 DEF LargestSize
<1> QED
  BY <1>1, <1>6

LEMMA SizesNat == 0 \in Nat /\ \A n \in Sizes : n \in Nat
BY ImagesAssumption

LEMMA TypeStep == ImagesTypeOK /\ [ImagesNext]_imageVars => ImagesTypeOK'
<1> SUFFICES ASSUME ImagesTypeOK, [ImagesNext]_imageVars PROVE ImagesTypeOK'
  OBVIOUS
<1> USE ImagesAssumption DEF ImagesTypeOK
<1>1. \A c \in Pictures : pictures[c] \in PictureRow
  OBVIOUS
<1>2. ASSUME NEW c \in Pictures,
             NEW pc \in Ended \cup {"read", "allowed", "stored", "charged", "cleanup"}, MoveTo(c, pc)
      PROVE  pictures' \in [Pictures -> PictureRow]
  <2>1. [pictures[c] EXCEPT !.pc = pc] \in PictureRow
    BY <1>1 DEF PictureRow
  <2>2. pictures' = [pictures EXCEPT ![c] = [pictures[c] EXCEPT !.pc = pc]]
    BY <1>2 DEF MoveTo
  <2> QED
    BY <2>1, <2>2
<1>3. ASSUME NEW c \in Pictures, Request(c) PROVE ImagesTypeOK'
  <2>1. PICK pc \in {"read", "refused"} : MoveTo(c, pc)
    BY <1>3 DEF Request
  <2>2. pictures' \in [Pictures -> PictureRow]
    BY <1>2, <2>1 DEF Ended
  <2>3. window' \in 0..(WindowLimit + 1)
    BY <1>3 DEF Request
  <2> QED
    BY <1>3, <2>2, <2>3 DEF Request
<1>4. ASSUME NEW c \in Pictures, Unreadable(c) PROVE ImagesTypeOK'
  BY <1>2, <1>4 DEF Unreadable, Ended
<1>5. ASSUME NEW c \in Pictures, NEW n \in Sizes, Reserve(c, n) PROVE ImagesTypeOK'
  <2>1. PICK pc \in {"refused", "allowed"} : pictures' = [pictures EXCEPT ![c].pc = pc, ![c].size = n]
    BY <1>5 DEF Reserve
  <2>2. [pictures[c] EXCEPT !.pc = pc, !.size = n] \in PictureRow
    BY <1>1 DEF PictureRow, Ended
  <2>3. pictures' = [pictures EXCEPT ![c] = [pictures[c] EXCEPT !.pc = pc, !.size = n]]
    BY <2>1
  <2> QED
    BY <1>5, <2>2, <2>3 DEF Reserve
<1>6. ASSUME NEW c \in Pictures, PutObject(c) PROVE ImagesTypeOK'
  BY <1>2, <1>6 DEF PutObject
<1>7. ASSUME NEW c \in Pictures, Commit(c) PROVE ImagesTypeOK'
  <2>1. pictures[c].size \in Nat
    BY <1>1, SizesNat DEF PictureRow
  <2>2. [quota EXCEPT ![today] = @ + pictures[c].size] \in [Days -> Nat]
    BY <2>1
  <2> QED
    BY <1>2, <1>7, <2>2 DEF Commit
<1>8. ASSUME NEW c \in Pictures, Publish(c) \/ Cleanup(c) \/ Died(c) PROVE ImagesTypeOK'
  BY <1>2, <1>8 DEF Publish, Cleanup, Died, Ended
<1>9. ASSUME NEW c \in Pictures, ClientGone(c) PROVE ImagesTypeOK'
  <2>1. [pictures[c] EXCEPT !.gone = TRUE] \in PictureRow
    BY <1>1 DEF PictureRow
  <2>2. pictures' = [pictures EXCEPT ![c] = [pictures[c] EXCEPT !.gone = TRUE]]
    BY <1>9 DEF ClientGone
  <2> QED
    BY <1>9, <2>1, <2>2 DEF ClientGone
<1>10. CASE DayEnds \/ WindowEnds
  BY <1>10 DEF DayEnds, WindowEnds, Days
<1>11. CASE UNCHANGED imageVars
  BY <1>11 DEF imageVars
<1> QED
  BY <1>3, <1>4, <1>5, <1>6, <1>7, <1>8, <1>9, <1>10, <1>11 DEF ImagesNext

LEMMA WaitingFinite ==
  ASSUME QuotaInv
  PROVE  /\ IsFiniteSet(Waiting) /\ IsFiniteSet(Running)
         /\ Cardinality(Waiting) \in Nat /\ Cardinality(Running) \in Nat
         /\ Cardinality(Waiting) <= Cardinality(Running)
<1>1. Running \in SUBSET Pictures /\ Waiting \in SUBSET Running
  BY DEF Running, Waiting, Ended
<1> QED
  BY <1>1, ImagesAssumption, FS_Subset, FS_CardinalityType

\* Uploads that end, or go on without leaving those that wait.
LEMMA FewerRunning ==
  ASSUME QuotaInv, Running' \subseteq Running PROVE Cardinality(Running') <= Concurrent
BY WaitingFinite, FS_Subset, FS_CardinalityType, ImagesAssumption DEF QuotaInv

LEMMA WaitingKept ==
  ASSUME QuotaInv, ImagesTypeOK', Cardinality(Running') <= Concurrent, Waiting' = Waiting,
         \A c \in Waiting : pictures'[c].size = pictures[c].size, UNCHANGED <<quota, today>>
  PROVE  QuotaInv'
<1>1. Ceiling' = Ceiling
  BY DEF Ceiling, LargestSize
<1> QED
  BY <1>1 DEF QuotaInv, Room

\* An upload that waits is charged, or ends without.
LEMMA WaitingEnds ==
  ASSUME QuotaInv, ImagesTypeOK', Running' \subseteq Running, NEW c \in Waiting,
         Waiting' = Waiting \ {c}, \A b \in Waiting \ {c} : pictures'[b] = pictures[b],
         today' = today,
         quota' = quota \/ quota' = [quota EXCEPT ![today] = @ + pictures[c].size]
  PROVE  QuotaInv'
<1> DEFINE L == LargestSize
           k == Cardinality(Waiting)
           s == pictures[c].size
<1>1. L \in Nat /\ \A b \in Waiting : pictures[b].size \in Nat /\ pictures[b].size <= L
  BY Largest, SizesNat DEF QuotaInv
<1>2. IsFiniteSet(Waiting) /\ k \in Nat \ {0} /\ Cardinality(Waiting \ {c}) = k - 1
  BY WaitingFinite, FS_RemoveElement, FS_EmptySet
<1>3. PICK e \in Waiting : quota[today] + pictures[e].size + (k - 1) * L <= Ceiling
  BY DEF QuotaInv, Room
<1>4. quota \in [Days -> Nat] /\ today \in Days /\ Ceiling \in Int
  <2>1. Ceiling \in Int
    BY <1>1, ImagesAssumption DEF Ceiling
  <2> QED
    BY <2>1 DEF QuotaInv, ImagesTypeOK
<1>5. (k - 1) * L \in Nat
  BY <1>1, <1>2, Times
<1>6. quota[today] + s <= Ceiling
  <2>1. CASE e = c
    BY <1>1, <1>3, <1>4, <1>5, <2>1
  <2>2. CASE e # c
    <3>1. k >= 2
      <4>1. k - 1 # 0
        BY <1>2, <2>2, FS_EmptySet, FS_RemoveElement
      <4> QED
        BY <1>2, <4>1
    <3>2. (k - 1) * L = (k - 2) * L + L /\ (k - 2) * L \in Nat
      <4>1. k - 2 \in Nat /\ k - 1 = (k - 2) + 1
        BY <1>2, <3>1
      <4> QED
        BY <1>1, <4>1, Times
    <3> QED
      BY <1>1, <1>3, <1>4, <3>2
  <2> QED
    BY <2>1, <2>2
<1>7. ASSUME NEW b \in Waiting \ {c}
      PROVE  \E f \in Waiting \ {c} : quota[today] + s + pictures[f].size + (k - 2) * L <= Ceiling
  <2>1. k >= 2
    <3>1. k - 1 # 0
      BY <1>2, FS_EmptySet, FS_RemoveElement
    <3> QED
      BY <1>2, <3>1
  <2>2. (k - 1) * L = (k - 2) * L + L /\ (k - 2) * L \in Nat
    <3>1. k - 2 \in Nat /\ k - 1 = (k - 2) + 1
      BY <1>2, <2>1
    <3> QED
      BY <1>1, <3>1, Times
  <2>3. CASE e = c
    BY <1>1, <1>3, <1>4, <2>2, <2>3
  <2>4. CASE e # c
    BY <1>1, <1>3, <1>4, <2>2, <2>4
  <2> QED
    BY <2>3, <2>4
<1>8. quota'[today] \in Nat /\ quota'[today] <= quota[today] + s
      /\ \A d \in Days : d # today => quota'[d] = quota[d]
  BY <1>1, <1>4
<1>9. Ceiling' = Ceiling /\ L' = L
  BY DEF Ceiling, LargestSize
<1>10. Room'
  <2>1. CASE Waiting' = {}
    BY <2>1 DEF Room
  <2>2. CASE Waiting' # {}
    <3>1. PICK f \in Waiting \ {c} : quota[today] + s + pictures[f].size + (k - 2) * L <= Ceiling
      BY <1>7, <2>2
    <3>2. Cardinality(Waiting') - 1 = k - 2 /\ pictures'[f].size = pictures[f].size /\ f \in Waiting'
      BY <1>2
    <3>3. (k - 2) * L \in Int
      BY <1>1, <1>2
    <3>4. quota'[today] + pictures'[f].size + (k - 2) * L <= Ceiling
      BY <1>1, <1>4, <1>8, <3>1, <3>2, <3>3
    <3> QED
      BY <1>9, <3>2, <3>4 DEF Room
  <2> QED
    BY <2>1, <2>2
<1>11. \A d \in Days : quota'[d] <= Ceiling
  BY <1>1, <1>4, <1>6, <1>8 DEF QuotaInv
<1>12. \A d \in Days : d > today' => quota'[d] = 0
  BY <1>4, <1>8 DEF QuotaInv, Days
<1> QED
  BY <1>9, <1>10, <1>11, <1>12, FewerRunning DEF QuotaInv
\* An upload passes the check.
LEMMA ReserveStep ==
  ASSUME QuotaInv, ImagesTypeOK', NEW c \in Pictures, NEW n \in Sizes, Reserve(c, n)
  PROVE  QuotaInv'
<1> DEFINE L == LargestSize
<1>1. L \in Nat /\ n \in Nat /\ n <= L /\ DailyLimit \in Nat /\ Concurrent \in Nat \ {0}
  BY Largest, SizesNat, ImagesAssumption
<1>2. c \notin Waiting /\ c \in Running /\ UNCHANGED <<quota, today>>
  BY DEF Reserve, Waiting, Running, Ended
<1>3. pictures \in [Pictures -> PictureRow] /\ quota \in [Days -> Nat] /\ today \in Days
  BY DEF QuotaInv, ImagesTypeOK
<1>4. \A b \in Pictures : b # c => pictures'[b] = pictures[b]
  BY <1>3 DEF Reserve
<1>5. Running' \subseteq Running
  BY <1>2, <1>4 DEF Running
<1>6. Cardinality(Running') <= Concurrent
  BY <1>5, FewerRunning
<1>7. CASE pictures'[c].pc = "refused"
  <2>1. Waiting' = Waiting
    BY <1>2, <1>4, <1>7 DEF Waiting
  <2> QED
    BY <1>2, <1>4, <1>6, <2>1, WaitingKept DEF Waiting
<1>8. CASE pictures'[c].pc = "allowed" /\ Allowed(n) /\ pictures'[c].size = n
  <2>1. Waiting' = Waiting \cup {c}
    BY <1>2, <1>4, <1>8 DEF Waiting
  <2>2. /\ IsFiniteSet(Waiting) /\ Cardinality(Waiting) \in Nat
        /\ Cardinality(Waiting') = Cardinality(Waiting) + 1
    BY <1>2, <2>1, WaitingFinite, FS_AddElement
  <2>3. Cardinality(Waiting') <= Concurrent
    <3>1. Waiting' \in SUBSET Running
      BY <1>2, <2>1 DEF Waiting, Running, Ended
    <3> QED
      BY <2>2, <3>1, WaitingFinite, FS_Subset, ImagesAssumption DEF QuotaInv
  <2>4. Cardinality(Waiting) * L <= (Concurrent - 1) * L
        /\ Cardinality(Waiting) * L \in Nat /\ (Concurrent - 1) * L \in Nat
    <3>1. Concurrent - 1 \in Nat /\ Cardinality(Waiting) <= Concurrent - 1
      BY <1>1, <2>2, <2>3
    <3> QED
      BY <1>1, <2>2, <3>1, Times
  <2>5. Ceiling' = Ceiling /\ L' = L
    BY DEF Ceiling, LargestSize
  <2>6. quota[today] + n + (Cardinality(Waiting') - 1) * L <= Ceiling
    <3>1. Cardinality(Waiting') - 1 = Cardinality(Waiting)
      BY <2>2
    <3>2. quota[today] + n <= DailyLimit
      BY <1>8 DEF Allowed
    <3> QED
      BY <1>1, <1>3, <2>4, <3>1, <3>2 DEF Ceiling
  <2>7. Room'
    BY <1>2, <1>8, <2>1, <2>5, <2>6 DEF Room
  <2>8. \A b \in Waiting' : pictures'[b].size \in Sizes
    BY <1>4, <1>8, <2>1 DEF QuotaInv, Waiting
  <2> QED
    BY <1>2, <1>6, <2>5, <2>7, <2>8 DEF QuotaInv
<1>9. pictures[c].pc = "read" /\ pictures[c] \in PictureRow
  BY <1>3 DEF Reserve
<1> QED
  <2> DEFINE Free == Allowed(n) /\ ~pictures[c].gone
  <2>1. PICK pc : /\ pc \in {"refused"} \cup (IF Free THEN {"allowed"} ELSE {})
                  /\ pictures' = [pictures EXCEPT ![c].pc = pc, ![c].size = n]
    BY DEF Reserve
  <2>2. pictures'[c].pc = pc /\ pictures'[c].size = n
    BY <1>3, <2>1 DEF PictureRow
  <2>3. pc = "refused" \/ (pc = "allowed" /\ Allowed(n))
    <3>1. Free => Allowed(n)
      OBVIOUS
    <3> HIDE DEF Free
    <3> QED
      BY <2>1, <3>1
  <2> QED
    BY <1>7, <1>8, <2>2, <2>3

\* Midnight: the uploads that wait find an empty day.
LEMMA DayStep == ASSUME QuotaInv, ImagesTypeOK', DayEnds PROVE QuotaInv'
<1> DEFINE L == LargestSize
           k == Cardinality(Waiting)
<1>1. /\ today' = today + 1 /\ UNCHANGED <<pictures, quota>>
      /\ today \in Days /\ today' \in Days /\ quota'[today'] = 0
  BY ImagesAssumption DEF DayEnds, QuotaInv, ImagesTypeOK, Days
<1>2. /\ Waiting' = Waiting /\ Running' = Running
      /\ Ceiling' = Ceiling /\ L' = L
  BY <1>1 DEF Waiting, Running, Ceiling, LargestSize
<1>3. ASSUME NEW c \in Waiting PROVE pictures[c].size + (k - 1) * L <= Ceiling
  <2>1. /\ L \in Nat /\ Concurrent - 1 \in Nat /\ DailyLimit \in Nat
        /\ pictures[c].size \in Nat /\ pictures[c].size <= DailyLimit
    <3>1. pictures[c].size \in Sizes
      BY DEF QuotaInv
    <3>2. pictures[c].size \in 1..DailyLimit /\ L \in 1..DailyLimit
      BY <3>1, Largest, ImagesAssumption
    <3> QED
      BY <3>2, ImagesAssumption
  <2>2. k \in Nat \ {0} /\ k <= Concurrent
    <3>1. k # 0
      BY WaitingFinite, FS_EmptySet
    <3> QED
      BY <3>1, WaitingFinite, ImagesAssumption DEF QuotaInv
  <2>3. /\ (k - 1) * L <= (Concurrent - 1) * L /\ (k - 1) * L \in Nat
        /\ (Concurrent - 1) * L \in Nat
    <3>1. k - 1 \in Nat /\ k - 1 <= Concurrent - 1
      BY <2>1, <2>2, ImagesAssumption
    <3> QED
      BY <2>1, <3>1, Times
  <2> QED
    BY <2>1, <2>3 DEF Ceiling
<1>4. Room'
  <2>1. CASE Waiting = {}
    BY <1>2, <2>1 DEF Room
  <2>2. CASE Waiting # {}
    <3>1. PICK c \in Waiting : pictures[c].size + (k - 1) * L <= Ceiling
      BY <1>3, <2>2
    <3>2. quota'[today'] + pictures'[c].size = pictures[c].size
      BY <1>1, SizesNat DEF QuotaInv
    <3> QED
      BY <1>1, <1>2, <3>1, <3>2 DEF Room
  <2> QED
    BY <2>1, <2>2
<1>5. \A d \in Days : d > today' => quota'[d] = 0
  BY <1>1 DEF QuotaInv, Days
<1> QED
  BY <1>1, <1>2, <1>4, <1>5 DEF QuotaInv

LEMMA QuotaStep == QuotaInv /\ [ImagesNext]_imageVars => QuotaInv'
<1> SUFFICES ASSUME QuotaInv, [ImagesNext]_imageVars PROVE QuotaInv'
  OBVIOUS
<1>1. ImagesTypeOK' /\ ImagesTypeOK
  BY TypeStep DEF QuotaInv
<1>2. /\ pictures \in [Pictures -> PictureRow]
      /\ \A c \in Pictures : pictures[c].pc \in Ended \cup {"read", "allowed", "stored", "charged", "cleanup"}
  BY <1>1 DEF ImagesTypeOK, PictureRow
<1>3. ASSUME NEW c \in Pictures, NEW pc, MoveTo(c, pc)
      PROVE  /\ pictures'[c].pc = pc /\ pictures'[c].size = pictures[c].size
             /\ \A b \in Pictures \ {c} : pictures'[b] = pictures[b]
  BY <1>2, <1>3 DEF MoveTo, PictureRow
<1>4. ASSUME NEW c \in Pictures, NEW pc, MoveTo(c, pc), c \in Running \/ pc \in Ended
      PROVE  Running' \subseteq Running
  BY <1>3, <1>4 DEF Running
<1>5. ASSUME NEW c \in Pictures, NEW pc, MoveTo(c, pc), Cardinality(Running') <= Concurrent,
             pictures[c].pc \in {"allowed", "stored"} <=> pc \in {"allowed", "stored"},
             UNCHANGED <<quota, today>>
      PROVE  QuotaInv'
  <2>1. Waiting' = Waiting /\ \A b \in Waiting : pictures'[b].size = pictures[b].size
    BY <1>3, <1>5 DEF Waiting
  <2> QED
    BY <1>1, <1>5, <2>1, WaitingKept
<1>6. ASSUME NEW c \in Waiting, NEW pc \in {"charged", "cleanup", "failed", "abandoned"}, MoveTo(c, pc),
             today' = today,
             quota' = quota \/ quota' = [quota EXCEPT ![today] = @ + pictures[c].size]
      PROVE  QuotaInv'
  <2>1. c \in Pictures /\ c \in Running
    BY DEF Waiting, Running, Ended
  <2>2. Running' \subseteq Running
    BY <1>4, <1>6, <2>1
  <2>3. Waiting' = Waiting \ {c} /\ \A b \in Waiting \ {c} : pictures'[b] = pictures[b]
    BY <1>3, <1>6, <2>1 DEF Waiting
  <2> QED
    BY <1>1, <1>6, <2>2, <2>3, WaitingEnds
<1>7. ASSUME NEW c \in Pictures, Request(c) PROVE QuotaInv'
  <2>1. PICK pc \in {"read", "refused"} : MoveTo(c, pc)
    BY <1>7 DEF Request
  <2>2. Cardinality(Running') <= Concurrent
    <3>1. Running' \in SUBSET (Running \cup {c})
      BY <1>3, <2>1 DEF Running
    <3>2. c \notin Running /\ Cardinality(Running) < Concurrent
      BY <1>7 DEF Request, Running, Ended
    <3>3. /\ IsFiniteSet(Running \cup {c}) /\ Cardinality(Running \cup {c}) = Cardinality(Running) + 1
      BY <3>2, WaitingFinite, FS_AddElement
    <3>4. Cardinality(Running') <= Cardinality(Running \cup {c}) /\ Cardinality(Running') \in Nat
      BY <3>1, <3>3, FS_Subset, FS_CardinalityType
    <3> QED
      BY <3>2, <3>3, <3>4, WaitingFinite, ImagesAssumption
  <2>3. pictures[c].pc = "none" /\ UNCHANGED <<quota, today>>
    BY <1>7 DEF Request
  <2> QED
    BY <1>5, <2>1, <2>2, <2>3
<1>8. ASSUME NEW c \in Pictures, Unreadable(c) \/ Publish(c) \/ Cleanup(c) PROVE QuotaInv'
  <2>1. PICK pc \in {"refused", "answered", "cleanup", "failed", "abandoned"} : MoveTo(c, pc)
    BY <1>8 DEF Unreadable, Publish, Cleanup
  <2>2. c \in Running /\ pictures[c].pc \notin {"allowed", "stored"} /\ UNCHANGED <<quota, today>>
    BY <1>8 DEF Unreadable, Publish, Cleanup, Running, Ended
  <2>3. Cardinality(Running') <= Concurrent
    BY <1>4, <2>1, <2>2, FewerRunning
  <2> QED
    BY <1>5, <2>1, <2>2, <2>3
<1>9. ASSUME NEW c \in Pictures, PutObject(c) PROVE QuotaInv'
  <2>1. c \in Waiting /\ c \in Running /\ pictures[c].pc = "allowed" /\ UNCHANGED <<quota, today>>
    BY <1>9 DEF PutObject, Waiting, Running, Ended
  <2>2. CASE MoveTo(c, "stored")
    BY <1>4, <1>5, <2>1, <2>2, FewerRunning
  <2>3. CASE MoveTo(c, "cleanup")
    BY <1>6, <2>1, <2>3
  <2> QED
    BY <1>9, <2>2, <2>3 DEF PutObject
<1>10. ASSUME NEW c \in Pictures, Commit(c) PROVE QuotaInv'
  <2>1. c \in Waiting /\ today' = today
    BY <1>10 DEF Commit, Waiting
  <2>2. PICK pc \in {"charged", "cleanup"} : MoveTo(c, pc)
    BY <1>10 DEF Commit
  <2>3. quota' = quota \/ quota' = [quota EXCEPT ![today] = @ + pictures[c].size]
    BY <1>10 DEF Commit
  <2> QED
    BY <1>6, <2>1, <2>2, <2>3
<1>11. ASSUME NEW c \in Pictures, Died(c) PROVE QuotaInv'
  <2>1. MoveTo(c, "abandoned") /\ c \in Running /\ UNCHANGED <<quota, today>>
    BY <1>11 DEF Died
  <2>2. CASE c \in Waiting
    BY <1>6, <2>1, <2>2
  <2>3. CASE c \notin Waiting
    BY <1>4, <1>5, <2>1, <2>3, FewerRunning DEF Waiting, Ended
  <2> QED
    BY <2>2, <2>3
<1>12. ASSUME NEW c \in Pictures, ClientGone(c) PROVE QuotaInv'
  <2>1. \A b \in Pictures : /\ pictures'[b].pc = pictures[b].pc
                            /\ pictures'[b].size = pictures[b].size
    BY <1>2, <1>12 DEF ClientGone, PictureRow
  <2>2. Waiting' = Waiting /\ Running' = Running /\ UNCHANGED <<quota, today>>
    BY <1>12, <2>1 DEF ClientGone, Waiting, Running
  <2> QED
    BY <1>1, <2>1, <2>2, WaitingKept DEF QuotaInv, Waiting
<1>13. CASE WindowEnds \/ UNCHANGED imageVars
  <2>1. UNCHANGED <<pictures, quota, today>>
    BY <1>13 DEF WindowEnds, imageVars
  <2>2. Waiting' = Waiting /\ Running' = Running
    BY <2>1 DEF Waiting, Running
  <2> QED
    BY <1>1, <2>1, <2>2, WaitingKept DEF QuotaInv
<1> QED
  BY <1>1, <1>7, <1>8, <1>9, <1>10, <1>11, <1>12, <1>13, ReserveStep, DayStep DEF ImagesNext

LEMMA QuotaInit == ImagesInit => QuotaInv
<1> SUFFICES ASSUME ImagesInit PROVE QuotaInv
  OBVIOUS
<1>1. ImagesTypeOK
  BY ImagesAssumption DEF ImagesInit, ImagesTypeOK, PictureRow, Ended, Days
<1>2. Running = {} /\ Waiting = {}
  BY DEF ImagesInit, Running, Waiting, Ended
<1>3. \A d \in Days : quota[d] <= Ceiling /\ quota[d] = 0
  <2>1. DailyLimit \in Nat /\ (Concurrent - 1) * LargestSize \in Nat
    BY Largest, SizesNat, ImagesAssumption, Times
  <2> QED
    BY <2>1 DEF ImagesInit, Ceiling
<1> QED
  BY <1>1, <1>2, <1>3, FS_EmptySet, ImagesAssumption DEF QuotaInv, Room

\* However many uploads pass the check together, and at midnight too, a day's quota
\* is exceeded by at most what all but one of them can bring.
THEOREM OvershootBounded == ImagesSpec => []QuotaOvershootBounded
<1>1. QuotaInv => QuotaOvershootBounded
  BY DEF QuotaInv, QuotaOvershootBounded, Ceiling
<1> QED
  BY <1>1, QuotaInit, QuotaStep, PTL DEF ImagesSpec

-----------------------------------------------------------------------------
(* Product images: all or nothing.                                         *)

\* Uploads whose bytes were charged for good.
Paid == {c \in Pictures : pictures[c].pc \in {"charged", "answered"}}

\* Where the object of an upload is known to be while it goes on, too.
StoredInv ==
  /\ ImagesTypeOK
  /\ \A c \in Pictures :
       /\ pictures[c].pc \in {"stored", "charged", "answered"} => c \in bucket
       /\ pictures[c].pc \in {"none", "read", "allowed", "refused", "failed"} => c \notin bucket
  /\ Bytes(Paid) <= Total(quota)

LEMMA QuotaTotal ==
  ASSUME ImagesTypeOK
  PROVE  /\ IsFiniteSet(Days) /\ quota \in [Days -> Int] /\ Total(quota) \in Nat
         /\ \A n \in Nat : Total([quota EXCEPT ![today] = @ + n]) = Total(quota) + n
<1>1. IsFiniteSet(Days)
  BY FS_Interval, ImagesAssumption DEF Days
<1>2. quota \in [Days -> Nat] /\ today \in Days
  BY DEF ImagesTypeOK
<1>3. Total(quota) \in Nat
  BY <1>1, <1>2, TotalNat
<1>4. quota \in [Days -> Int]
  BY <1>2
<1>5. ASSUME NEW n \in Nat PROVE Total([quota EXCEPT ![today] = @ + n]) = Total(quota) + n
  <2>1. quota[today] \in Int /\ quota[today] + n \in Int
    BY <1>2
  <2>2. Total([quota EXCEPT ![today] = quota[today] + n]) = Total(quota) - quota[today] + (quota[today] + n)
    BY <1>1, <1>2, <1>4, <2>1, TotalChange
  <2> QED
    BY <1>3, <2>1, <2>2
<1> QED
  BY <1>1, <1>3, <1>4, <1>5

LEMMA PaidSizes ==
  ASSUME ImagesTypeOK, NEW S \in SUBSET Pictures
  PROVE  /\ IsFiniteSet(S) /\ [c \in S |-> pictures[c].size] \in [S -> Nat]
         /\ Bytes(S) \in Nat
<1>1. IsFiniteSet(S)
  BY FS_Subset, ImagesAssumption
<1>2. \A c \in S : pictures[c].size \in Nat
  BY SizesNat DEF ImagesTypeOK, PictureRow
<1>3. [c \in S |-> pictures[c].size] \in [S -> Nat]
  BY <1>2
<1> QED
  BY <1>1, <1>3, TotalNat DEF Bytes

\* Uploads that go on without a charge.
LEMMA PaidKept ==
  ASSUME StoredInv, Paid' \subseteq Paid, \A c \in Paid' : pictures'[c].size = pictures[c].size,
         UNCHANGED quota \/ \E n \in Nat : quota' = [quota EXCEPT ![today] = @ + n]
  PROVE  Bytes(Paid)' <= Total(quota)'
<1>1. ImagesTypeOK /\ Paid \in SUBSET Pictures /\ Bytes(Paid) <= Total(quota)
  BY DEF StoredInv, Paid
<1>2. PICK F : F = [c \in Paid |-> pictures[c].size]
  OBVIOUS
<1>3. IsFiniteSet(Paid) /\ F \in [Paid -> Nat] /\ Bytes(Paid) \in Nat /\ Total(F) = Bytes(Paid)
  BY <1>1, <1>2, PaidSizes DEF Bytes
<1>4. PICK T : T = Paid'
  OBVIOUS
<1>5. [c \in Paid' |-> pictures'[c].size] = [c \in T |-> F[c]]
  BY <1>2, <1>4
<1>6. Bytes(Paid)' = Total([c \in T |-> F[c]])
  BY <1>5 DEF Bytes
<1>7. Total([c \in T |-> F[c]]) <= Total(F)
  BY <1>3, <1>4, TotalPart
<1>8. Total([c \in T |-> F[c]]) \in Nat
  <2>1. IsFiniteSet(T) /\ [c \in T |-> F[c]] \in [T -> Nat]
    BY <1>3, <1>4, FS_Subset
  <2> QED
    BY <2>1, TotalNat
<1>9. Total(quota)' \in Nat /\ Total(quota) \in Nat /\ Total(quota) <= Total(quota)'
  <2>1. CASE UNCHANGED quota
    BY <1>1, <2>1, QuotaTotal
  <2>2. ASSUME NEW n \in Nat, quota' = [quota EXCEPT ![today] = @ + n]
        PROVE  Total(quota)' \in Nat /\ Total(quota) \in Nat /\ Total(quota) <= Total(quota)'
    <3>1. Total(quota)' = Total(quota) + n /\ Total(quota) \in Nat
      BY <1>1, <2>2, QuotaTotal
    <3> QED
      BY <3>1
  <2> QED
    BY <2>1, <2>2
<1> QED
  BY <1>1, <1>3, <1>6, <1>7, <1>8, <1>9

\* The charge of upload c.
LEMMA PaidGrows ==
  ASSUME StoredInv, NEW c \in Pictures, pictures[c].pc = "stored",
         \A b \in Pictures : pictures'[b].size = pictures[b].size,
         Paid' = Paid \cup {c}, quota' = [quota EXCEPT ![today] = @ + pictures[c].size]
  PROVE  Bytes(Paid)' <= Total(quota)'
<1>1. ImagesTypeOK /\ Paid \in SUBSET Pictures /\ Bytes(Paid) <= Total(quota) /\ c \notin Paid
  BY DEF StoredInv, Paid
<1>2. PICK n : n = pictures[c].size
  OBVIOUS
<1>n. n \in Nat
  BY <1>1, <1>2, SizesNat DEF ImagesTypeOK, PictureRow
<1>3. Bytes(Paid) \in Nat /\ Total(quota) \in Nat /\ Total(quota)' = Total(quota) + n
  BY <1>1, <1>2, <1>n, PaidSizes, QuotaTotal
<1>4. PICK F : F = [b \in Paid \cup {c} |-> pictures[b].size]
  OBVIOUS
<1>5. F \in [Paid \cup {c} -> Nat] /\ IsFiniteSet(Paid \cup {c})
  BY <1>1, <1>4, PaidSizes
<1>6. [b \in Paid' |-> pictures'[b].size] = F
  BY <1>1, <1>4
<1>7. Bytes(Paid)' = Total(F)
  BY <1>6 DEF Bytes
<1>8. [b \in (Paid \cup {c}) \ {c} |-> F[b]] = [b \in Paid |-> pictures[b].size]
  BY <1>1, <1>4
<1>9. Total(F) = F[c] + Total([b \in (Paid \cup {c}) \ {c} |-> F[b]])
  <2>1. F \in [Paid \cup {c} -> Int] /\ c \in Paid \cup {c}
    BY <1>5
  <2> QED
    BY <1>5, <2>1, TotalSplit
<1>10. Total(F) = n + Bytes(Paid)
  BY <1>2, <1>4, <1>8, <1>9 DEF Bytes
<1> QED
  BY <1>1, <1>3, <1>n, <1>7, <1>10

LEMMA StoredStep == StoredInv /\ [ImagesNext]_imageVars => StoredInv'
<1> SUFFICES ASSUME StoredInv, [ImagesNext]_imageVars PROVE StoredInv'
  OBVIOUS
<1>1. ImagesTypeOK' /\ ImagesTypeOK
  BY TypeStep DEF StoredInv
<1>2. /\ pictures \in [Pictures -> PictureRow] /\ quota \in [Days -> Nat] /\ today \in Days
      /\ \A c \in Pictures : pictures[c].pc \in Ended \cup {"read", "allowed", "stored", "charged", "cleanup"}
  BY <1>1 DEF ImagesTypeOK, PictureRow
<1>3. ASSUME NEW c \in Pictures, NEW pc, MoveTo(c, pc)
      PROVE  /\ pictures'[c].pc = pc /\ \A b \in Pictures : pictures'[b].size = pictures[b].size
             /\ \A b \in Pictures \ {c} : pictures'[b] = pictures[b]
  BY <1>2, <1>3 DEF MoveTo, PictureRow
<1> DEFINE Placed == \A c \in Pictures :
                       /\ pictures[c].pc \in {"stored", "charged", "answered"} => c \in bucket
                       /\ pictures[c].pc \in {"none", "read", "allowed", "refused", "failed"} => c \notin bucket
<1>p. Placed
  BY DEF StoredInv
\* A step of c that charges nothing, or charges without an answer.
<1>4. ASSUME NEW c \in Pictures, NEW pc, MoveTo(c, pc), Placed',
             pc \in {"charged", "answered"} => pictures[c].pc \in {"charged", "answered"},
             UNCHANGED quota \/ \E n \in Nat : quota' = [quota EXCEPT ![today] = @ + n]
      PROVE  StoredInv'
  <2>1. Paid' \subseteq Paid /\ \A b \in Paid' : pictures'[b].size = pictures[b].size
    BY <1>3, <1>4 DEF Paid
  <2>2. Bytes(Paid)' <= Total(quota)'
    BY <1>4, <2>1, PaidKept
  <2> QED
    BY <1>1, <1>4, <2>2 DEF StoredInv
<1>5. ASSUME NEW c \in Pictures, Request(c) PROVE StoredInv'
  <2>1. PICK pc \in {"read", "refused"} : MoveTo(c, pc)
    BY <1>5 DEF Request
  <2>2. UNCHANGED <<bucket, quota>> /\ pictures[c].pc = "none"
    BY <1>5 DEF Request
  <2>3. Placed'
    BY <1>3, <1>p, <2>1, <2>2
  <2> QED
    BY <1>4, <2>1, <2>2, <2>3
<1>6. ASSUME NEW c \in Pictures, Unreadable(c) \/ Publish(c) \/ Died(c) PROVE StoredInv'
  <2>1. PICK pc \in {"refused", "answered", "cleanup", "abandoned"} :
          /\ MoveTo(c, pc)
          /\ pc = "refused" => pictures[c].pc = "read"
          /\ pc = "answered" => pictures[c].pc = "charged"
    BY <1>6 DEF Unreadable, Publish, Died
  <2>2. UNCHANGED <<bucket, quota>>
    BY <1>6 DEF Unreadable, Publish, Died
  <2>3. Placed'
    BY <1>3, <1>p, <2>1, <2>2
  <2> QED
    BY <1>4, <2>1, <2>2, <2>3
<1>7. ASSUME NEW c \in Pictures, NEW n \in Sizes, Reserve(c, n) PROVE StoredInv'
  <2>1. PICK pc \in {"refused", "allowed"} : pictures' = [pictures EXCEPT ![c].pc = pc, ![c].size = n]
    BY <1>7 DEF Reserve
  <2>2. /\ pictures'[c].pc = pc /\ \A b \in Pictures \ {c} : pictures'[b] = pictures[b]
        /\ pictures[c].pc = "read" /\ UNCHANGED <<bucket, quota>>
    BY <1>2, <1>7, <2>1 DEF Reserve, PictureRow
  <2>3. Placed'
    BY <1>p, <2>2
  <2>4. Paid' \subseteq Paid /\ \A b \in Paid' : pictures'[b].size = pictures[b].size
    BY <2>2 DEF Paid
  <2>5. Bytes(Paid)' <= Total(quota)'
    BY <2>2, <2>4, PaidKept
  <2> QED
    BY <1>1, <2>3, <2>5 DEF StoredInv
<1>8. ASSUME NEW c \in Pictures, PutObject(c) PROVE StoredInv'
  <2>1. PICK pc \in {"stored", "cleanup"} :
          MoveTo(c, pc) /\ (pc = "stored" => c \in bucket')
    BY <1>8 DEF PutObject
  <2>2. UNCHANGED quota /\ \A b \in Pictures \ {c} : b \in bucket' <=> b \in bucket
    BY <1>8 DEF PutObject
  <2>3. Placed'
    BY <1>3, <1>p, <2>1, <2>2
  <2> QED
    BY <1>4, <2>1, <2>2, <2>3
<1>9. ASSUME NEW c \in Pictures, Commit(c) PROVE StoredInv'
  <2>1. pictures[c].pc = "stored" /\ UNCHANGED bucket /\ pictures[c].size \in Nat
    BY <1>2, <1>9, SizesNat DEF Commit, PictureRow
  <2>2. CASE MoveTo(c, "charged") /\ quota' = [quota EXCEPT ![today] = @ + pictures[c].size]
    <3>1. Placed'
      BY <1>3, <1>p, <2>1, <2>2
    <3>2. Paid' = Paid \cup {c}
      BY <1>3, <2>2 DEF Paid
    <3>3. Bytes(Paid)' <= Total(quota)'
      BY <1>3, <2>1, <2>2, <3>2, PaidGrows
    <3> QED
      BY <1>1, <3>1, <3>3 DEF StoredInv
  <2>3. CASE MoveTo(c, "cleanup") /\ quota' \in {quota, [quota EXCEPT ![today] = @ + pictures[c].size]}
    <3>1. Placed'
      BY <1>3, <1>p, <2>1, <2>3
    <3>2. UNCHANGED quota \/ \E n \in Nat : quota' = [quota EXCEPT ![today] = @ + n]
      BY <2>1, <2>3
    <3> QED
      BY <1>4, <2>3, <3>1, <3>2
  <2> QED
    BY <1>9, <2>2, <2>3 DEF Commit
<1>10. ASSUME NEW c \in Pictures, Cleanup(c) PROVE StoredInv'
  <2>1. PICK pc \in {"failed", "abandoned"} :
          MoveTo(c, pc) /\ (pc = "failed" => c \notin bucket')
    BY <1>10 DEF Cleanup
  <2>2. UNCHANGED quota /\ \A b \in Pictures \ {c} : b \in bucket' <=> b \in bucket
    BY <1>10 DEF Cleanup
  <2>3. Placed'
    BY <1>3, <1>p, <2>1, <2>2
  <2> QED
    BY <1>4, <2>1, <2>2, <2>3
<1>11. ASSUME NEW c \in Pictures, ClientGone(c) PROVE StoredInv'
  <2>1. \A b \in Pictures : /\ pictures'[b].pc = pictures[b].pc
                            /\ pictures'[b].size = pictures[b].size
    BY <1>2, <1>11 DEF ClientGone, PictureRow
  <2>2. Paid' = Paid /\ UNCHANGED <<bucket, quota>>
    BY <1>11, <2>1 DEF ClientGone, Paid
  <2>3. Placed'
    BY <1>p, <2>1, <2>2
  <2>4. Bytes(Paid)' <= Total(quota)'
    BY <2>1, <2>2, PaidKept DEF Paid
  <2> QED
    BY <1>1, <2>3, <2>4 DEF StoredInv
<1>12. CASE DayEnds \/ WindowEnds \/ UNCHANGED imageVars
  <2>1. UNCHANGED <<pictures, bucket, quota>>
    BY <1>12 DEF DayEnds, WindowEnds, imageVars
  <2>2. Paid' = Paid
    BY <2>1 DEF Paid
  <2>3. Bytes(Paid)' <= Total(quota)'
    BY <2>1, <2>2, PaidKept
  <2>4. Placed'
    BY <1>p, <2>1
  <2> QED
    BY <1>1, <2>3, <2>4 DEF StoredInv
<1> QED
  BY <1>5, <1>6, <1>7, <1>8, <1>9, <1>10, <1>11, <1>12 DEF ImagesNext

LEMMA StoredInit == ImagesInit => StoredInv
<1> SUFFICES ASSUME ImagesInit PROVE StoredInv
  OBVIOUS
<1>1. ImagesTypeOK
  BY QuotaInit DEF QuotaInv
<1>2. Paid = {}
  BY DEF ImagesInit, Paid
<1>3. Bytes(Paid) = 0
  <2>1. DOMAIN [c \in Paid |-> pictures[c].size] = {}
    BY <1>2
  <2> QED
    BY <2>1, TotalEmpty DEF Bytes
<1>4. Bytes(Paid) <= Total(quota)
  BY <1>1, <1>3, QuotaTotal
<1> QED
  BY <1>1, <1>4 DEF ImagesInit, StoredInv

\* Whatever step fails, the client gone or not: a URL that was answered shows a stored
\* picture, all of them have been charged, and an upload that was refused or cleaned up
\* leaves no object.
THEOREM UploadsAllOrNothing == ImagesSpec => []AllOrNothing
<1>1. StoredInv => AllOrNothing
  <2> SUFFICES ASSUME StoredInv PROVE AllOrNothing
    OBVIOUS
  <2>1. ImagesTypeOK /\ Paid \in SUBSET Pictures /\ Bytes(Paid) <= Total(quota)
    BY DEF StoredInv, Paid
  <2>2. PICK T : T = {c \in Pictures : pictures[c].pc = "answered"}
    OBVIOUS
  <2>3. PICK F : F = [c \in Paid |-> pictures[c].size]
    OBVIOUS
  <2>4. IsFiniteSet(Paid) /\ F \in [Paid -> Nat] /\ T \in SUBSET Paid
    BY <2>1, <2>2, <2>3, PaidSizes DEF Paid
  <2>5. Total([c \in T |-> F[c]]) <= Total(F)
    BY <2>4, TotalPart
  <2>6. [c \in T |-> F[c]] = [c \in T |-> pictures[c].size]
    BY <2>3, <2>4
  <2>7. Bytes(T) <= Bytes(Paid)
    BY <2>3, <2>5, <2>6 DEF Bytes
  <2>8. Bytes(T) \in Nat /\ Bytes(Paid) \in Nat /\ Total(quota) \in Nat
    BY <2>1, <2>4, PaidSizes, QuotaTotal
  <2>9. Bytes(T) <= Total(quota)
    BY <2>1, <2>7, <2>8
  <2> QED
    BY <2>2, <2>9 DEF StoredInv, AllOrNothing
<1> QED
  BY <1>1, StoredInit, StoredStep, PTL DEF ImagesSpec

-----------------------------------------------------------------------------
(* Identifiers.                                                            *)
LEMMA Quotient ==
  ASSUME NEW q \in Int, NEW b \in Nat \ {0}, NEW r \in 0..(b - 1)
  PROVE  (q * b + r) \div b = q /\ (q * b + r) % b = r
<1> DEFINE x == q * b + r
           d == x \div b
<1>1. x \in Int /\ d \in Int /\ x = (b * d) + (x % b) /\ x % b \in 0..(b - 1)
  OBVIOUS
<1>2. (d * b) + (x % b) = q * b + r
  BY <1>1
<1> HIDE DEF d
<1>3. ASSUME d >= q + 1 PROVE FALSE
  <2>1. d * b >= (q + 1) * b
    BY <1>1, <1>3
  <2>2. (q + 1) * b = q * b + b
    OBVIOUS
  <2> QED
    BY <1>1, <1>2, <2>1, <2>2
<1>4. ASSUME d <= q - 1 PROVE FALSE
  <2>1. d * b <= (q - 1) * b
    BY <1>1, <1>4
  <2>2. (q - 1) * b = q * b - b
    OBVIOUS
  <2> QED
    BY <1>1, <1>2, <2>1, <2>2
<1>5. d = q
  BY <1>1, <1>3, <1>4
<1> QED
  BY <1>1, <1>2, <1>5 DEF d

\* An identifier tells the process it comes from.
LEMMA IdWorker ==
  ASSUME NEW ms \in Int, NEW g \in WorkerIds, NEW n \in 0..maxSequence
  PROVE  (Id(ms, g, n) \div (maxSequence + 1)) % (maxWorkerID + 1) = g
<1> DEFINE high == (ms - epochMillis) * (maxWorkerID + 1) + g
<1>1. ms - epochMillis \in Int /\ maxWorkerID + 1 \in Nat \ {0} /\ g \in 0..((maxWorkerID + 1) - 1)
  BY SnowflakeAssumption
<1>2. high \in Int /\ maxSequence + 1 \in Nat \ {0} /\ n \in 0..((maxSequence + 1) - 1)
  BY <1>1, SnowflakeAssumption
<1>3. high % (maxWorkerID + 1) = g
  BY <1>1, Quotient
<1> HIDE DEF high
<1>4. (high * (maxSequence + 1) + n) \div (maxSequence + 1) = high
  BY <1>2, Quotient
<1> QED
  BY <1>3, <1>4 DEF Id, high

\* Identifiers of one process are ordered like their times and sequence numbers.
LEMMA IdOrder ==
  ASSUME NEW ms \in Int, NEW g \in WorkerIds, NEW n \in 0..maxSequence,
         NEW later \in Int, NEW m \in 0..maxSequence,
         ms < later \/ (ms = later /\ n < m)
  PROVE  Id(ms, g, n) < Id(later, g, m) /\ Id(ms, g, n) \in Int /\ Id(later, g, m) \in Int
<1> DEFINE W == maxWorkerID + 1
           S == maxSequence + 1
           h == (ms - epochMillis) * W + g
           i == (later - epochMillis) * W + g
<1>1. W \in Nat \ {0} /\ S \in Nat \ {0} /\ h \in Int /\ i \in Int /\ epochMillis \in Int /\ n < S
      /\ n \in Nat /\ m \in Nat
  BY SnowflakeAssumption
<1>2. CASE ms = later
  BY <1>1, <1>2 DEF Id
<1>3. CASE ms < later
  <2>1. (ms - epochMillis) * W + W <= (later - epochMillis) * W
    <3> DEFINE a == ms - epochMillis
               c == later - epochMillis
    <3>1. a \in Int /\ c \in Int /\ a + 1 <= c
      BY <1>1, <1>3
    <3> HIDE DEF a, c, W
    <3>2. (a + 1) * W <= c * W /\ (a + 1) * W = a * W + W
      BY <1>1, <3>1
    <3> QED
      BY <3>2 DEF a, c
  <2>2. h + 1 <= i
    BY <1>1, <2>1, SnowflakeAssumption
  <2> HIDE DEF h, i, S
  <2>3. (h + 1) * S <= i * S /\ (h + 1) * S = h * S + S /\ h * S \in Int /\ i * S \in Int
    BY <1>1, <2>2
  <2>4. h * S + n < i * S + m
    BY <1>1, <2>3
  <2> QED
    BY <1>1, <2>3, <2>4 DEF Id, h, i, S
<1> QED
  BY <1>2, <1>3
-----------------------------------------------------------------------------
\* The last identifier process g may have returned: it waits for a later
\* millisecond when all of lastMillis are gone.
Last(g) == Id(lastMillis[g], g, IF call[g] = "spinning" THEN maxSequence ELSE sequence[g])

IdsInv ==
  /\ IdsTypeOK
  /\ \A g \in WorkerIds :
       /\ call[g] # "idle" => lastMillis[g] # -1
       /\ \A id \in IssuedBy(g) : id <= Last(g)
       /\ Cardinality(IssuedBy(g)) = count[g]
  /\ IsFiniteSet(issued)

LEMMA IdInt ==
  ASSUME NEW ms \in Int, NEW g \in WorkerIds, NEW n \in 0..maxSequence
  PROVE  Id(ms, g, n) \in Int
<1>1. /\ ms - epochMillis \in Int /\ maxWorkerID + 1 \in Int /\ g \in Int
      /\ maxSequence + 1 \in Int /\ n \in Int
  BY SnowflakeAssumption
<1>2. (ms - epochMillis) * (maxWorkerID + 1) + g \in Int
  BY <1>1
<1> QED
  BY <1>1, <1>2 DEF Id

LEMMA LastInt ==
  ASSUME NEW g \in WorkerIds
  PROVE  (IdsTypeOK => Last(g) \in Int) /\ (IdsTypeOK' => Last(g)' \in Int)
<1>1. ASSUME IdsTypeOK PROVE Last(g) \in Int
  <2>1. /\ lastMillis[g] \in Int /\ maxSequence \in 0..maxSequence
        /\ sequence[g] \in 0..maxSequence
    BY <1>1, SnowflakeAssumption DEF IdsTypeOK
  <2> QED
    BY <2>1, IdInt DEF Last
<1>2. ASSUME IdsTypeOK' PROVE Last(g)' \in Int
  <2>1. /\ lastMillis'[g] \in Int /\ maxSequence \in 0..maxSequence
        /\ sequence'[g] \in 0..maxSequence
    BY <1>2, SnowflakeAssumption DEF IdsTypeOK
  <2> QED
    BY <2>1, IdInt DEF Last
<1> QED
  BY <1>1, <1>2

LEMMA IdsInitInv == IdsInit => IdsInv
<1> SUFFICES ASSUME IdsInit PROVE IdsInv
  OBVIOUS
<1>1. IdsTypeOK
  BY SnowflakeAssumption DEF IdsInit, IdsTypeOK
<1>2. \A g \in WorkerIds : IssuedBy(g) = {}
  BY DEF IdsInit, IssuedBy
<1> QED
  BY <1>1, <1>2, FS_EmptySet DEF IdsInit, IdsInv

\* Nothing is returned.
LEMMA Waits ==
  ASSUME IdsInv, IdsTypeOK', UNCHANGED <<issued, count>>,
         \A g \in WorkerIds : /\ Last(g) <= Last(g)'
                              /\ call'[g] # "idle" => lastMillis'[g] # -1
  PROVE  IdsInv'
<1>1. ASSUME NEW g \in WorkerIds PROVE IssuedBy(g)' = IssuedBy(g)
  BY DEF IssuedBy
<1>2. ASSUME NEW g \in WorkerIds, NEW id \in IssuedBy(g) PROVE id <= Last(g)'
  <2>1. id \in Int /\ id <= Last(g) /\ Last(g) <= Last(g)'
    <3>1. id \in Int
      BY DEF IssuedBy, IdsInv, IdsTypeOK
    <3> QED
      BY <3>1 DEF IdsInv
  <2>2. Last(g) \in Int /\ Last(g)' \in Int
    BY LastInt DEF IdsInv
  <2> QED
    BY <2>1, <2>2
<1> QED
  BY <1>1, <1>2 DEF IdsInv

\* Process g returns a later identifier.
LEMMA Issues ==
  ASSUME IdsInv, NEW g \in WorkerIds, NEW ms \in epochMillis..MaxClock, NEW n \in 0..maxSequence,
         Issue(g, ms, n), UNCHANGED clock,
         sequence' \in [WorkerIds -> 0..maxSequence], sequence'[g] = n,
         \A h \in WorkerIds \ {g} : sequence'[h] = sequence[h],
         Last(g) < Id(ms, g, n)
  PROVE  IdsInv'
<1> DEFINE new == Id(ms, g, n)
<1>1. IdsTypeOK
  BY DEF IdsInv
<1>2. new \in Nat
  <2>1. /\ ms - epochMillis \in Nat /\ maxWorkerID + 1 \in Nat /\ g \in Nat
        /\ maxSequence + 1 \in Nat /\ n \in Nat
    BY SnowflakeAssumption
  <2>2. (ms - epochMillis) * (maxWorkerID + 1) \in Nat
    BY <2>1
  <2>3. ((ms - epochMillis) * (maxWorkerID + 1) + g) * (maxSequence + 1) \in Nat
    BY <2>1, <2>2
  <2> QED
    BY <2>1, <2>3 DEF Id
<1>3. /\ lastMillis' = [lastMillis EXCEPT ![g] = ms] /\ issued' = issued \cup {new}
      /\ count' = [count EXCEPT ![g] = @ + 1] /\ call' = [call EXCEPT ![g] = "idle"]
  BY DEF Issue
<1>4. IdsTypeOK'
  <2>1. lastMillis' \in [WorkerIds -> (epochMillis..MaxClock) \cup {-1}]
    BY <1>1, <1>3 DEF IdsTypeOK
  <2>2. issued' \subseteq Nat
    BY <1>1, <1>2, <1>3 DEF IdsTypeOK
  <2>3. /\ count' \in [WorkerIds -> Nat]
        /\ call' \in [WorkerIds -> {"idle", "sleeping", "spinning"}]
    BY <1>1, <1>3 DEF IdsTypeOK
  <2> QED
    BY <1>1, <2>1, <2>2, <2>3 DEF IdsTypeOK
<1>5. (new \div (maxSequence + 1)) % (maxWorkerID + 1) = g
  BY IdWorker, SnowflakeAssumption
<1> HIDE DEF new
<1>6. /\ IssuedBy(g)' = IssuedBy(g) \cup {new}
      /\ \A h \in WorkerIds \ {g} : IssuedBy(h)' = IssuedBy(h)
  BY <1>3, <1>5 DEF IssuedBy
<1>7. Last(g)' = new
  BY <1>1, <1>3 DEF Last, new, IdsTypeOK
<1>8. \A h \in WorkerIds \ {g} : Last(h)' = Last(h)
  BY <1>1, <1>3 DEF Last, IdsTypeOK
<1>9. \A id \in IssuedBy(g) : id < new
  <2> SUFFICES ASSUME NEW id \in IssuedBy(g) PROVE id < new
    OBVIOUS
  <2>1. id \in Int /\ id <= Last(g) /\ Last(g) \in Int /\ Last(g) < new
    <3>1. id \in Int
      BY <1>1 DEF IssuedBy, IdsTypeOK
    <3> QED
      BY <1>1, <3>1, LastInt DEF IdsInv, new
  <2> QED
    BY <1>2, <2>1
<1>10. Cardinality(IssuedBy(g)') = count'[g]
  <2>1. IsFiniteSet(IssuedBy(g))
    <3>1. IssuedBy(g) \in SUBSET issued
      BY DEF IssuedBy
    <3> QED
      BY <3>1, FS_Subset DEF IdsInv
  <2>2. new \notin IssuedBy(g)
    BY <1>2, <1>9
  <2>3. Cardinality(IssuedBy(g)') = Cardinality(IssuedBy(g)) + 1
    BY <1>6, <2>1, <2>2, FS_AddElement
  <2> QED
    BY <1>1, <1>3, <2>3 DEF IdsInv, IdsTypeOK
<1>11. \A id \in IssuedBy(g)' : id <= Last(g)'
  <2>1. \A id \in IssuedBy(g) : id \in Nat
    BY <1>1 DEF IssuedBy, IdsTypeOK
  <2> QED
    BY <1>2, <1>6, <1>7, <1>9, <2>1
<1>12. IsFiniteSet(issued')
  BY <1>3, FS_AddElement DEF IdsInv
<1>13. \A h \in WorkerIds \ {g} : count'[h] = count[h] /\ lastMillis'[h] = lastMillis[h] /\ call'[h] = call[h]
  BY <1>1, <1>3 DEF IdsTypeOK
<1>14. call'[g] = "idle"
  BY <1>1, <1>3 DEF IdsTypeOK
<1>15. ASSUME NEW h \in WorkerIds \ {g}
       PROVE  /\ call'[h] # "idle" => lastMillis'[h] # -1
              /\ \A id \in IssuedBy(h)' : id <= Last(h)'
              /\ Cardinality(IssuedBy(h)') = count'[h]
  BY <1>6, <1>8, <1>13 DEF IdsInv
<1> QED
  BY <1>4, <1>10, <1>11, <1>12, <1>14, <1>15 DEF IdsInv

\* What NextID and Wake do when the clock is not behind.
LEMMA Takes ==
  ASSUME IdsInv, NEW g \in WorkerIds, clock[g] >= epochMillis, clock[g] >= lastMillis[g],
         Take(g, clock[g]), UNCHANGED clock, call[g] # "spinning"
  PROVE  IdsInv'
<1> DEFINE now == clock[g]
           n == IF now = lastMillis[g] THEN (sequence[g] + 1) % (maxSequence + 1) ELSE 0
<1>1. IdsTypeOK
  BY DEF IdsInv
<1>2. /\ now \in epochMillis..MaxClock /\ lastMillis[g] \in Int /\ sequence[g] \in 0..maxSequence
      /\ now # -1 /\ maxSequence \in Nat
  BY <1>1, SnowflakeAssumption DEF IdsTypeOK
<1>3. /\ n \in 0..maxSequence
      /\ now = lastMillis[g] => (n = 0 /\ sequence[g] = maxSequence) \/ (n = sequence[g] + 1)
  <2>1. CASE sequence[g] = maxSequence
    <3>1. (maxSequence + 1) % (maxSequence + 1) = 0
      BY <1>2
    <3> QED
      BY <1>2, <2>1, <3>1
  <2>2. CASE sequence[g] # maxSequence
    <3>1. sequence[g] + 1 \in 0..((maxSequence + 1) - 1) /\ maxSequence + 1 \in Nat \ {0}
      BY <1>2, <2>2
    <3>2. (sequence[g] + 1) % (maxSequence + 1) = sequence[g] + 1
      BY <3>1
    <3> QED
      BY <1>2, <3>1, <3>2
  <2> QED
    BY <2>1, <2>2
<1>4. /\ sequence' = [sequence EXCEPT ![g] = n]
      /\ IF now = lastMillis[g] /\ n = 0
         THEN call' = [call EXCEPT ![g] = "spinning"] /\ UNCHANGED <<lastMillis, issued, count>>
         ELSE Issue(g, now, n)
  BY DEF Take
<1> HIDE DEF n
<1>5. CASE now = lastMillis[g] /\ n = 0
  <2>1. call' = [call EXCEPT ![g] = "spinning"] /\ UNCHANGED <<lastMillis, issued, count>>
    BY <1>4, <1>5
  <2>2. IdsTypeOK'
    BY <1>1, <1>3, <1>4, <2>1 DEF IdsTypeOK
  <2>3. Last(g) = Id(now, g, sequence[g]) /\ Last(g)' = Id(now, g, maxSequence)
    BY <1>1, <1>5, <2>1 DEF Last, IdsTypeOK
  <2>4. sequence[g] = maxSequence
    BY <1>2, <1>3, <1>5
  <2>5. \A h \in WorkerIds \ {g} : Last(h)' = Last(h) /\ call'[h] = call[h]
    BY <1>1, <1>4, <2>1 DEF Last, IdsTypeOK
  <2>6. \A h \in WorkerIds : Last(h) <= Last(h)'
    BY <1>1, <2>3, <2>4, <2>5, LastInt
  <2>7. \A h \in WorkerIds : call'[h] # "idle" => lastMillis'[h] # -1
    BY <1>2, <1>5, <2>1, <2>5 DEF IdsInv
  <2> QED
    BY <2>1, <2>2, <2>6, <2>7, Waits
<1>6. CASE ~(now = lastMillis[g] /\ n = 0)
  <2>1. Issue(g, now, n)
    BY <1>4, <1>6
  <2>2. /\ sequence' \in [WorkerIds -> 0..maxSequence] /\ sequence'[g] = n
        /\ \A h \in WorkerIds \ {g} : sequence'[h] = sequence[h]
    BY <1>1, <1>3, <1>4 DEF IdsTypeOK
  <2>3. Last(g) < Id(now, g, n)
    <3>1. Last(g) = Id(lastMillis[g], g, sequence[g])
      BY DEF Last
    <3>2. lastMillis[g] < now \/ (lastMillis[g] = now /\ sequence[g] < n)
      BY <1>2, <1>3, <1>6
    <3> QED
      BY <1>2, <1>3, <3>1, <3>2, IdOrder
  <2> QED
    BY <1>2, <1>3, <2>1, <2>2, <2>3, Issues
<1> QED
  BY <1>5, <1>6

LEMMA IdsStep == IdsInv /\ [IdsNext]_idVars => IdsInv'
<1> SUFFICES ASSUME IdsInv, [IdsNext]_idVars PROVE IdsInv'
  OBVIOUS
<1>1. IdsTypeOK /\ \A g \in WorkerIds : Last(g) \in Int
  BY LastInt DEF IdsInv
<1>2. ASSUME IdsTypeOK', UNCHANGED <<lastMillis, sequence, issued, count>>,
             \A g \in WorkerIds : \/ call'[g] = call[g]
                                  \/ call'[g] = "idle" /\ call[g] = "sleeping"
                                  \/ call'[g] = "sleeping" /\ call[g] = "idle" /\ lastMillis[g] # -1
      PROVE  IdsInv'
  <2>1. \A g \in WorkerIds : Last(g)' = Last(g)
    BY <1>2 DEF Last
  <2> QED
    BY <1>1, <1>2, <2>1, Waits DEF IdsInv
<1>3. ASSUME NEW g \in WorkerIds, NextID(g) PROVE IdsInv'
  <2>1. CASE clock[g] >= lastMillis[g] /\ Take(g, clock[g])
    BY <1>3, <2>1, Takes DEF NextID
  <2>2. CASE lastMillis[g] - clock[g] \in 1..maxClockBackward /\ Sleep(g)
    <3>1. call' = [call EXCEPT ![g] = "sleeping"] /\ UNCHANGED <<clock, lastMillis, sequence, issued, count>>
      BY <1>3, <2>2 DEF NextID, Sleep
    <3>2. IdsTypeOK'
      BY <1>1, <3>1 DEF IdsTypeOK
    <3>3. lastMillis[g] # -1
      BY <1>1, <1>3, <2>2, SnowflakeAssumption DEF NextID, IdsTypeOK
    <3> QED
      BY <1>1, <1>2, <1>3, <3>1, <3>2, <3>3 DEF NextID, IdsTypeOK
  <2> QED
    BY <1>3, <2>1, <2>2 DEF NextID
<1>4. ASSUME NEW g \in WorkerIds, Wake(g) PROVE IdsInv'
  <2>1. CASE clock[g] >= lastMillis[g] /\ Take(g, clock[g])
    <3>1. clock[g] >= epochMillis
      BY <1>1, <1>4, <2>1, SnowflakeAssumption DEF Wake, IdsInv, IdsTypeOK
    <3> QED
      BY <1>4, <2>1, <3>1, Takes DEF Wake
  <2>2. CASE call' = [call EXCEPT ![g] = "idle"] /\ UNCHANGED <<lastMillis, sequence, issued, count>>
    <3>1. IdsTypeOK'
      BY <1>1, <1>4, <2>2 DEF Wake, IdsTypeOK
    <3> QED
      BY <1>1, <1>2, <1>4, <2>2, <3>1 DEF Wake, IdsTypeOK
  <2> QED
    BY <1>4, <2>1, <2>2 DEF Wake
<1>5. ASSUME NEW g \in WorkerIds, NextMillis(g) PROVE IdsInv'
  <2>1. /\ clock[g] \in epochMillis..MaxClock /\ lastMillis[g] \in Int /\ lastMillis[g] < clock[g]
        /\ sequence[g] \in 0..maxSequence /\ maxSequence \in 0..maxSequence
    BY <1>1, <1>5, SnowflakeAssumption DEF NextMillis, IdsInv, IdsTypeOK
  <2>2. Last(g) = Id(lastMillis[g], g, maxSequence)
    BY <1>5 DEF NextMillis, Last
  <2>3. Last(g) < Id(clock[g], g, sequence[g])
    BY <2>1, <2>2, IdOrder
  <2> QED
    BY <1>1, <1>5, <2>1, <2>3, Issues DEF NextMillis, IdsTypeOK
<1>6. ASSUME NEW g \in WorkerIds, ClockMoves(g) PROVE IdsInv'
  <2>1. IdsTypeOK'
    BY <1>1, <1>6 DEF ClockMoves, IdsTypeOK
  <2> QED
    BY <1>2, <1>6, <2>1 DEF ClockMoves
<1>7. CASE UNCHANGED idVars
  BY <1>1, <1>2, <1>7 DEF idVars, IdsTypeOK
<1> QED
  BY <1>3, <1>4, <1>5, <1>6, <1>7 DEF IdsNext

\* No identifier is returned twice, whatever the clocks of the processes do.
THEOREM IdsNeverRepeat == IdsSpec => []IdsUnique
<1>1. IdsInv => IdsUnique
  BY DEF IdsInv, IdsUnique
<1> QED
  BY <1>1, IdsInitInv, IdsStep, PTL DEF IdsSpec
=============================================================================

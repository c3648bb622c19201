--------------------------- MODULE WebClientProofs ---------------------------
(***************************************************************************)
(* The keys in the database name objects, for any number of pages, files   *)
(* and keys: no server sees to it, but a page saves a key only after it    *)
(* has posted the file, and no other page has that key.                    *)
(***************************************************************************)
EXTENDS MCWebClient, TLAPS

\* A page that is to post has a file, and one that has a URL has its key.
PagesHold ==
  \A p \in Pages : /\ page[p].step \in {"ask", "put"} => page[p].file \in Files
                   /\ page[p].step \in {"put", "save"} => page[p].key \in Keys

\* A page that saves has posted.
SavesPosted == \A p \in Pages : page[p].step = "save" => bucket[page[p].key] # NoFile

IInv == TypeOK /\ PagesHold /\ (flow.url # NoRequest => SavesPosted /\ RowsNameObjects)

-----------------------------------------------------------------------------
(* The invariant *)

PageType == [step : {"idle", "ask", "put", "save"}, file : Files \cup {NoFile},
             key : Keys \cup {NoKey}]

LEMMA InitEstablishes == Init => IInv
  BY DEF Init, IInv, TypeOK, PagesHold, SavesPosted, RowsNameObjects, Idle

LEMMA PageSet ==
  ASSUME TypeOK, NEW p \in Pages, NEW r \in PageType, page' = [page EXCEPT ![p] = r]
  PROVE  /\ page' \in [Pages -> PageType] /\ page'[p] = r
         /\ \A q \in Pages : q # p => page'[q] = page[q]
  BY DEF TypeOK, PageType

LEMMA SubmitKeeps == ASSUME IInv, NEW p \in Pages, NEW f \in Files, Submit(p, f) PROVE IInv'
<1> DEFINE r == [step |-> "ask", file |-> f, key |-> NoKey]
<1>1. r \in PageType
  BY DEF PageType
<1>2. /\ page' \in [Pages -> PageType] /\ page'[p] = r
      /\ \A q \in Pages : q # p => page'[q] = page[q]
  BY <1>1, PageSet DEF Submit, IInv
<1> QED
  BY <1>2 DEF Submit, IInv, TypeOK, PagesHold, SavesPosted, RowsNameObjects, PageType

\* The key is fresh: the object that is taken away is named by no row and by no page.
LEMMA AskKeeps == ASSUME IInv, NEW p \in Pages, NEW k \in Keys, Ask(p, k) PROVE IInv'
<1> DEFINE s == IF flow.url = NoRequest THEN "save" ELSE "put"
           r == [page[p] EXCEPT !.step = s, !.key = k]
<1>1. /\ page[p] \in PageType /\ page[p].step = "ask" /\ page[p].file \in Files
      /\ Fresh(k) /\ UNCHANGED <<flow, rows>>
      /\ bucket' = [bucket EXCEPT ![k] = NoFile] /\ late' = late \ {k}
  BY DEF Ask, At, IInv, TypeOK, PagesHold, PageType
<1>2. r \in PageType /\ r.step = s /\ r.key = k /\ r.file \in Files
  BY <1>1 DEF PageType
<1>3. page' = [page EXCEPT ![p] = r]
  BY <1>1 DEF Ask, IInv, TypeOK
<1>4. /\ page' \in [Pages -> PageType] /\ page'[p] = r
      /\ \A q \in Pages : q # p => page'[q] = page[q]
  <2> HIDE DEF r
  <2> QED
    BY <1>2, <1>3, PageSet DEF IInv
<1>5. TypeOK' /\ PagesHold'
  BY <1>1, <1>2, <1>4, ZenonT(60) DEF IInv, TypeOK, PagesHold, PageType
<1>6. ASSUME flow.url # NoRequest PROVE SavesPosted' /\ RowsNameObjects'
  <2>1. page'[p].step = "put" /\ \A q \in Pages : page[q].key # k
    BY <1>1, <1>2, <1>4, <1>6 DEF Fresh
  <2>2. \A j \in Keys : j # k => bucket'[j] = bucket[j]
    BY <1>1 DEF IInv, TypeOK
  <2>3. SavesPosted'
    <3>1. ASSUME NEW q \in Pages, page'[q].step = "save" PROVE bucket'[page'[q].key] # NoFile
      <4>1. q # p /\ page'[q] = page[q] /\ page[q].key \in Keys /\ page[q].key # k
        BY <1>4, <2>1, <3>1 DEF IInv, PagesHold
      <4>2. bucket[page[q].key] # NoFile
        BY <1>6, <3>1, <4>1 DEF IInv, SavesPosted
      <4> QED
        BY <2>2, <4>1, <4>2
    <3> QED
      BY <3>1 DEF SavesPosted
  <2>4. RowsNameObjects'
    BY <1>1, <1>6, <2>2 DEF IInv, TypeOK, RowsNameObjects, Fresh
  <2> QED
    BY <2>3, <2>4
<1> QED
  BY <1>1, <1>5, <1>6 DEF IInv

LEMMA PutKeeps == ASSUME IInv, NEW p \in Pages, Put(p) PROVE IInv'
<1> DEFINE k == page[p].key
           r == [page[p] EXCEPT !.step = "save"]
<1>1. /\ page[p] \in PageType /\ page[p].file \in Files /\ k \in Keys
      /\ UNCHANGED <<flow, rows, late>> /\ bucket' = [bucket EXCEPT ![k] = page[p].file]
  BY DEF Put, At, IInv, TypeOK, PagesHold, PageType
<1>2. r \in PageType /\ r.step = "save" /\ r.key = k
  BY <1>1 DEF PageType
<1>3. page' = [page EXCEPT ![p] = r]
  BY DEF Put
<1>4. /\ page' \in [Pages -> PageType] /\ page'[p] = r
      /\ \A q \in Pages : q # p => page'[q] = page[q]
  <2> HIDE DEF r
  <2> QED
    BY <1>2, <1>3, PageSet DEF IInv
<1>5. TypeOK' /\ PagesHold'
  BY <1>1, <1>2, <1>4 DEF IInv, TypeOK, PagesHold, PageType
<1>6. bucket'[k] # NoFile /\ \A j \in Keys : bucket[j] # NoFile => bucket'[j] # NoFile
  BY <1>1, UploadAssumption DEF IInv, TypeOK
<1>7. ASSUME flow.url # NoRequest PROVE SavesPosted' /\ RowsNameObjects'
  BY <1>1, <1>2, <1>4, <1>6, <1>7 DEF IInv, TypeOK, PagesHold, SavesPosted, RowsNameObjects
<1> QED
  BY <1>1, <1>5, <1>7 DEF IInv

LEMMA EndKeeps == ASSUME IInv, NEW p \in Pages, Save(p) \/ Fail(p) PROVE IInv'
<1>1. /\ UNCHANGED <<flow, bucket, late>> /\ page' = [page EXCEPT ![p] = Idle]
      /\ rows' = rows \/ (page[p].step = "save" /\ rows' = Saved(page[p].key))
  BY DEF Save, Fail, At, Ends
<1>2. Idle \in PageType /\ Idle.step = "idle"
  BY DEF Idle, PageType
<1>3. /\ page' \in [Pages -> PageType] /\ page'[p] = Idle
      /\ \A q \in Pages : q # p => page'[q] = page[q]
  BY <1>1, <1>2, PageSet DEF IInv
<1>4. rows' \subseteq rows \/ (page[p].step = "save" /\ rows' \subseteq rows \cup {page[p].key})
  BY <1>1 DEF Saved
<1>5. TypeOK' /\ PagesHold'
  BY <1>1, <1>2, <1>3, <1>4 DEF IInv, TypeOK, PagesHold, PageType
<1>6. ASSUME flow.url # NoRequest PROVE SavesPosted' /\ RowsNameObjects'
  BY <1>1, <1>2, <1>3, <1>4, <1>6 DEF IInv, SavesPosted, RowsNameObjects
<1> QED
  BY <1>1, <1>5, <1>6 DEF IInv

LEMMA StepKeeps == IInv /\ [Next]_vars => IInv'
<1> SUFFICES ASSUME IInv, [Next]_vars PROVE IInv'
  OBVIOUS
<1>1. CASE UNCHANGED vars \/ \E k \in Keys : Expire(k)
  BY <1>1 DEF vars, Expire, IInv, TypeOK, PagesHold, SavesPosted, RowsNameObjects
<1> QED
  BY <1>1, SubmitKeeps, AskKeeps, PutKeeps, EndKeeps DEF Next

\* However submissions from several pages interleave, fail or are repeated, each key that the
\* database names is one of an object in the bucket (storage.py and the forms that upload).
THEOREM KeysNameObjects == Spec => []RowsNameObjects
<1>1. IInv => RowsNameObjects
  BY DEF IInv, RowsNameObjects
<1> QED
  BY <1>1, InitEstablishes, StepKeeps, PTL DEF Spec
=============================================================================

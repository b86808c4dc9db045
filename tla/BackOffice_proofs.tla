--------------------------- MODULE BackOffice_proofs ------------------------
(***************************************************************************)
(* What the admin's pages do: ProductImport, ProductForms, AdjustmentLog   *)
(* and BarcodeLookup, for every value of their constants; and all that     *)
(* goes on behind the counter side by side, whose behaviours are those of  *)
(* each of its parts (Server_proofs has the server's).                     *)
(***************************************************************************)
EXTENDS MCBackOffice, Server_proofs

-----------------------------------------------------------------------------
(***************************************************************************)
(* Bulk import: for any files, catalogue, requests, mishaps and admins.    *)
(***************************************************************************)

\* A dry run or an import in progress.
Sent == [kind : {"check", "import"}, text : Text, step : {"find", "update", "gone", "create"},
         seen : SUBSET Barcode, results : Seq(Result), foretold : Seq(Result), here : BOOLEAN, calm : BOOLEAN]

\* The rows of its file, and how many of them are done.
Rows(q)   == RowsOf[q.text]
Passed(q) == Len(q.results)

\* What is said of row i when rows up to n are done and B are the barcodes there are.
Verdict(t, n, B, i) ==
    IF ~RowsOf[t][i].valid THEN "error"
    ELSE IF \/ RowsOf[t][i].bar \in B
            \/ /\ RowsOf[t][i].bar # NoBarcode
               /\ \E j \in (n + 1) .. (i - 1) : RowsOf[t][j].valid /\ RowsOf[t][j].bar = RowsOf[t][i].bar
         THEN "updated" ELSE "created"

\* A dry run has said of the rows so far what they would do to the catalogue.
CheckGoes(q) ==
    /\ q.step = "find"
    /\ q.seen = {Rows(q)[j].bar : j \in {k \in 1 .. Passed(q) : Rows(q)[k].valid}} \ {NoBarcode}
    /\ q.calm => \A i \in 1 .. Passed(q) : q.results[i] = Verdict(q.text, 0, barcodes, i)

\* An import has done to the rows so far what was foretold, and the rest of what
\* was foretold is still what the other rows would do.
ImportGoes(q) ==
    /\ Len(q.foretold) = Len(Rows(q))
    /\ q.step # "find" => Passed(q) < Len(Rows(q)) /\ Rows(q)[Passed(q) + 1].valid
    /\ q.calm =>
          /\ \A i \in 1 .. Passed(q) : q.results[i] = q.foretold[i]
          /\ \A i \in Passed(q) + 1 .. Len(Rows(q)) : q.foretold[i] = Verdict(q.text, Passed(q), barcodes, i)
          /\ q.step = "update" => Rows(q)[Passed(q) + 1].bar \in barcodes
          /\ q.step = "create" => Rows(q)[Passed(q) + 1].bar \notin barcodes
          /\ q.step # "gone"

\* What a request has said so far is true.
RequestGoes(q) ==
    /\ q.kind = "check" => CheckGoes(q)
    /\ q.kind = "import" => ImportGoes(q)

\* The preview says what the rows would do to the catalogue.
PreviewFits ==
    preview.text # Nothing =>
        /\ Len(preview.results) = Len(RowsOf[preview.text])
        /\ preview.calm => \A i \in 1 .. Len(preview.results) : preview.results[i] = Verdict(preview.text, 0, barcodes, i)

\* The page waits for this import; and for no other.
Awaited(r) == request[r] # Free /\ request[r].kind = "import" /\ request[r].here
OneAwaited == \A r, s \in Request : Awaited(r) /\ Awaited(s) => r = s

\* A request in progress is a dry run or an import.
LEMMA RequestKinds == ASSUME NEW q \in ApiRequest
    PROVE /\ q # Free => q \in Sent
          /\ q.kind \in {"check", "import"} => q # Free
          /\ q = Free => q.kind = "free"
  BY DEF ApiRequest, Sent, Free

\* What is in progress is not free.
LEMMA SentIs == ASSUME NEW q \in Sent PROVE q \in ApiRequest /\ q # Free
  BY DEF ApiRequest, Sent, Free

\* A text has rows.
LEMMA RowsTyped == ASSUME NEW t \in Text
    PROVE /\ RowsOf[t] \in Seq(FileRow) /\ Len(RowsOf[t]) \in Nat /\ DOMAIN RowsOf[t] = 1 .. Len(RowsOf[t])
          /\ \A i \in 1 .. Len(RowsOf[t]) : /\ RowsOf[t][i] \in FileRow /\ RowsOf[t][i].bar \in Barcode \cup {NoBarcode}
                                            /\ RowsOf[t][i].valid \in BOOLEAN
  <1>1. RowsOf[t] \in Seq(FileRow)
    BY ImportAssumption
  <1>2. \A i \in 1 .. Len(RowsOf[t]) : RowsOf[t][i] \in FileRow
    BY <1>1
  <1>3. \A row \in FileRow : row.bar \in Barcode \cup {NoBarcode} /\ row.valid \in BOOLEAN
    BY DEF FileRow
  <1> QED BY <1>1, <1>2, <1>3

\* An answered row is one more result, and leaves the rest of the request.
LEMMA RowAnswered == ASSUME NEW q \in Sent, NEW res \in Result, NEW c \in BOOLEAN
    PROVE LET a == RowAnswer(q, res, c)
          IN /\ a \in Sent /\ a.kind = q.kind /\ a.text = q.text /\ a.step = "find" /\ a.seen = q.seen
             /\ a.foretold = q.foretold /\ a.here = q.here /\ (a.calm <=> q.calm /\ c)
             /\ Passed(a) = Passed(q) + 1 /\ Passed(q) \in Nat
             /\ a.results[Passed(q) + 1] = res /\ \A i \in 1 .. Passed(q) : a.results[i] = q.results[i]
  <1> DEFINE b == q.calm /\ c
             s == Append(q.results, res)
  <1>1. q.calm \in BOOLEAN /\ b \in BOOLEAN /\ (b <=> q.calm /\ c)
    BY Zenon DEF Sent
  <1>2. q.results \in Seq(Result) /\ s \in Seq(Result) /\ Len(s) = Len(q.results) + 1 /\ Len(q.results) \in Nat
        /\ s[Len(q.results) + 1] = res /\ \A i \in 1 .. Len(q.results) : s[i] = q.results[i]
    BY AppendProperties DEF Sent
  <1> HIDE DEF b, s
  <1>3. LET a == [q EXCEPT !.results = s, !.step = "find", !.calm = b]
        IN /\ a \in Sent /\ a.kind = q.kind /\ a.text = q.text /\ a.step = "find" /\ a.seen = q.seen
           /\ a.foretold = q.foretold /\ a.here = q.here /\ a.calm = b /\ a.results = s
    BY <1>1, <1>2 DEF Sent
  <1>4. RowAnswer(q, res, c) = [q EXCEPT !.results = s, !.step = "find", !.calm = b]
    BY DEF RowAnswer, b, s
  <1> QED BY <1>1, <1>2, <1>3, <1>4 DEF Passed

\* The same, of a row that met no mishap.
LEMMA AnsweredSurely == ASSUME NEW q \in Sent, NEW res \in Result
    PROVE LET a == RowAnswer(q, res, TRUE)
          IN a \in Sent /\ a.kind = q.kind /\ a.text = q.text /\ a.here = q.here /\ Passed(a) = Passed(q) + 1
  <1> DEFINE a(c) == RowAnswer(q, res, c)
  <1>1. \A c \in BOOLEAN : /\ a(c) \in Sent /\ a(c).kind = q.kind /\ a(c).text = q.text /\ a(c).here = q.here
                           /\ Passed(a(c)) = Passed(q) + 1
    BY RowAnswered
  <1> HIDE DEF a
  <1>2. TRUE \in BOOLEAN
    OBVIOUS
  <1>3. /\ a(TRUE) \in Sent /\ a(TRUE).kind = q.kind /\ a(TRUE).text = q.text /\ a(TRUE).here = q.here
        /\ Passed(a(TRUE)) = Passed(q) + 1
    BY <1>1, <1>2, Zenon
  <1> QED BY <1>3 DEF a

\* A request that is disturbed is what it was, but no longer calm.
LEMMA Disturbed == ASSUME NEW q \in ApiRequest
    PROVE /\ q = Free => Disturb(q) = Free
          /\ q # Free => /\ Disturb(q) \in Sent /\ Disturb(q).kind = q.kind /\ Disturb(q).text = q.text
                         /\ Disturb(q).step = q.step /\ Disturb(q).seen = q.seen /\ Disturb(q).foretold = q.foretold
                         /\ Disturb(q).here = q.here /\ Disturb(q).results = q.results /\ Disturb(q).calm = FALSE
  BY RequestKinds DEF Disturb, Sent

\* A request has not gone past the end of its file.
InItsFile(q) == q # Free => q.text \in Text /\ Passed(q) <= Len(Rows(q))

\* What the types of the requests rest on.
ImportKept ==
    /\ ImportTypeOK /\ created = [t \in Text |-> created[t]]
    /\ toCheck => box # Nothing
    /\ \A r \in Request : InItsFile(request[r])
    /\ OneAwaited

\* A request goes on, or ends when nobody waits for it or it has no effects.
Continues(p, q) ==
    /\ q # Free => /\ p # Free /\ q.kind = p.kind /\ q.text = p.text /\ (q.here <=> p.here)
                   /\ Passed(p) <= Passed(q) /\ Passed(q) <= Len(Rows(q))
    /\ q = Free => p = Free \/ p.kind = "check" \/ ~p.here

\* The page is empty, and no request is in progress.
LEMMA ImportKeptInit == ImportInit => ImportKept
  <1> SUFFICES ASSUME ImportInit PROVE ImportKept
    OBVIOUS
  <1>1. /\ barcodes \subseteq Barcode /\ box = Nothing /\ converting = {} /\ toCheck = FALSE
        /\ previewError = Nothing /\ importing = FALSE /\ importedText = Nothing
        /\ choices = 0 /\ others = 0 /\ mishaps = 0 /\ forgotten \in [Text -> Nat]
    BY DEF ImportInit, EmptyPage
  <1>2. preview \in Checked
    BY EmptySeq DEF ImportInit, EmptyPage, NoFile, Checked
  <1>3. request \in [Request -> ApiRequest] /\ \A r \in Request : request[r] = Free
    BY DEF ImportInit, ApiRequest
  <1>4. /\ created = [t \in Text |-> created[t]]
        /\ \A t \in Text : created[t] \in [DOMAIN RowsOf[t] -> Nat]
    BY DEF ImportInit
  <1>5. choices \in 0 .. MaxChoices /\ others \in 0 .. MaxOthers /\ mishaps \in 0 .. MaxMishaps
    BY <1>1, ImportAssumption
  <1> QED BY <1>1, <1>2, <1>3, <1>4, <1>5 DEF ImportKept, ImportTypeOK, InItsFile, OneAwaited, Awaited

\* One request changes.
LEMMA OneRequest == ASSUME request \in [Request -> ApiRequest], NEW r \in Request, NEW v \in ApiRequest,
                           request' = [request EXCEPT ![r] = v]
    PROVE /\ request' \in [Request -> ApiRequest] /\ request'[r] = v
          /\ \A x \in Request : x # r => request'[x] = request[x]
  OBVIOUS

\* Requests that go on, or end, are what they were.
LEMMA RequestsContinue ==
    ASSUME ImportKept, request' \in [Request -> ApiRequest],
           \A x \in Request : Continues(request[x], request'[x]) \/ request'[x] = request[x],
           box' = box \/ \A x \in Request : request'[x].kind # "check",
           importing' = importing
    PROVE /\ \A r \in Request : request'[r] # Free /\ request'[r].here =>
                IF request'[r].kind = "check" THEN request'[r].text = box' ELSE importing'
          /\ \A r \in Request : InItsFile(request'[r])
          /\ OneAwaited'
  <1>1. \A x \in Request : Continues(request[x], request'[x])
    <2> TAKE x \in Request
    <2>1. CASE Continues(request[x], request'[x])
      BY <2>1
    <2>2. CASE request'[x] = request[x]
      <3>1. request[x] \in ApiRequest /\ InItsFile(request[x])
        BY DEF ImportKept, ImportTypeOK
      <3>2. request[x] # Free => Passed(request[x]) \in Nat
        BY <3>1, RequestKinds DEF Sent, Passed
      <3> QED BY <2>2, <3>1, <3>2 DEF InItsFile, Continues
    <2> QED BY <2>1, <2>2
  <1>2. \A r \in Request : InItsFile(request'[r])
    BY <1>1 DEF ImportKept, InItsFile, Continues, Passed
  <1>3. \A x \in Request : Awaited(x)' => Awaited(x)
    BY <1>1 DEF Continues, Awaited
  <1>4. OneAwaited'
    BY <1>3 DEF ImportKept, OneAwaited
  <1>5. ASSUME NEW r \in Request, request'[r] # Free, request'[r].here
        PROVE  IF request'[r].kind = "check" THEN request'[r].text = box' ELSE importing'
    <2>1. request[r] # Free /\ request[r].here /\ request'[r].kind = request[r].kind /\ request'[r].text = request[r].text
      BY <1>1, <1>5 DEF Continues
    <2>2. IF request[r].kind = "check" THEN request[r].text = box ELSE importing
      BY <2>1 DEF ImportKept, ImportTypeOK
    <2>3. CASE request'[r].kind = "check"
      BY <2>1, <2>2, <2>3
    <2>4. CASE request'[r].kind # "check"
      BY <2>1, <2>2, <2>4
    <2> QED BY <2>3, <2>4
  <1> QED BY <1>2, <1>4, <1>5

\* The request that is at a row, and the row.
LEMMA AtItsRow == ASSUME ImportKept, NEW r \in Request, request[r] # Free, ~Done(r)
    PROVE LET q == request[r] IN
          /\ q \in Sent /\ q.text \in Text /\ Passed(q) \in Nat /\ Passed(q) + 1 \in 1 .. Len(Rows(q))
          /\ Rows(q)[Passed(q) + 1] \in FileRow /\ Row(q) = Rows(q)[Passed(q) + 1]
          /\ Row(q).bar \in Barcode \cup {NoBarcode} /\ Row(q).valid \in BOOLEAN
  <1> DEFINE q == request[r]
  <1>1. q \in Sent /\ q.text \in Text
    BY RequestKinds, Zenon DEF ImportKept, ImportTypeOK, Sent, InItsFile
  <1>2. q.results \in Seq(Result)
    BY <1>1 DEF Sent
  <1>3. Passed(q) \in Nat /\ Passed(q) <= Len(Rows(q)) /\ Passed(q) # Len(Rows(q))
    BY <1>2 DEF ImportKept, InItsFile, Done, Passed, Rows
  <1>4. Passed(q) + 1 \in 1 .. Len(Rows(q))
    BY <1>1, <1>3, RowsTyped DEF Rows
  <1>5. Row(q) = Rows(q)[Passed(q) + 1]
    BY DEF Row, Rows, Passed
  <1>6. Rows(q)[Passed(q) + 1] \in FileRow /\ Row(q).bar \in Barcode \cup {NoBarcode} /\ Row(q).valid \in BOOLEAN
    BY <1>1, <1>4, <1>5, RowsTyped DEF Rows
  <1> QED BY <1>1, <1>3, <1>4, <1>5, <1>6

\* It answers the row: it goes on with the next one.
LEMMA RowDone == ASSUME ImportKept, NEW r \in Request, request[r] # Free, ~Done(r), NEW res \in Result, NEW c \in BOOLEAN
    PROVE /\ RowAnswer(request[r], res, c) \in ApiRequest
          /\ Continues(request[r], RowAnswer(request[r], res, c))
  <1> DEFINE q == request[r]
             a == RowAnswer(q, res, c)
  <1>1. /\ q \in Sent /\ Passed(q) \in Nat /\ Passed(q) + 1 \in 1 .. Len(Rows(q))
    BY AtItsRow
  <1>2. /\ a \in Sent /\ a.kind = q.kind /\ a.text = q.text /\ a.here = q.here /\ Passed(a) = Passed(q) + 1
    BY <1>1, RowAnswered
  <1>3. a \in ApiRequest /\ a # Free /\ Passed(a) <= Len(Rows(a)) /\ Passed(q) <= Passed(a)
    BY <1>1, <1>2, SentIs DEF Rows
  <1> QED BY <1>2, <1>3 DEF Continues

\* The preview is what it was, but no longer calm.
LEMMA PreviewDisturbed == ASSUME preview \in Checked, CatalogueChanges
    PROVE /\ preview' \in Checked /\ preview'.calm = FALSE /\ preview'.text = preview.text /\ preview'.results = preview.results
  BY DEF Checked, CatalogueChanges

\* A request that is disturbed goes on.
LEMMA DisturbContinues == ASSUME ImportKept, NEW r \in Request
    PROVE Disturb(request[r]) \in ApiRequest /\ Continues(request[r], Disturb(request[r]))
  <1> DEFINE p == request[r]
             d == Disturb(p)
  <1>1. p \in ApiRequest /\ InItsFile(p)
    BY DEF ImportKept, ImportTypeOK
  <1>2. p = Free => d = Free
    BY <1>1, Disturbed
  <1>3. ASSUME p # Free PROVE d \in Sent /\ d.kind = p.kind /\ d.text = p.text /\ d.here = p.here /\ d.results = p.results
    BY <1>1, <1>3, Disturbed
  <1> HIDE DEF d
  <1>4. p # Free => Passed(p) \in Nat
    BY <1>1, RequestKinds DEF Sent, Passed
  <1>5. d \in ApiRequest /\ Continues(p, d)
    BY <1>1, <1>2, <1>3, <1>4, SentIs DEF Continues, InItsFile, Passed, Rows
  <1> QED BY <1>5 DEF d

\* A row that is saved creates one product, and every request goes on.
LEMMA SaveKeeps ==
    ASSUME ImportKept, NEW r \in Request, request[r] # Free, ~Done(r), NEW res \in Result, NEW c \in BOOLEAN, Save(r, res, c)
    PROVE /\ barcodes' \subseteq Barcode /\ preview' \in Checked
          /\ created' = [t \in Text |-> created'[t]]
          /\ \A t \in Text : created'[t] \in [DOMAIN RowsOf[t] -> Nat]
          /\ request' \in [Request -> ApiRequest]
          /\ \A x \in Request : Continues(request[x], request'[x]) \/ request'[x] = request[x]
  <1> DEFINE q == request[r]
             n == Len(q.results) + 1
  <1>1. /\ q \in Sent /\ q.text \in Text /\ n \in 1 .. Len(RowsOf[q.text]) /\ Row(q).bar \in Barcode \cup {NoBarcode}
    BY AtItsRow DEF Passed, Rows
  <1>2. barcodes' \subseteq Barcode
    BY <1>1 DEF Save, ImportKept, ImportTypeOK
  <1>3. preview' \in Checked
    BY PreviewDisturbed DEF Save, ImportKept, ImportTypeOK
  <1>4. n \in DOMAIN RowsOf[q.text]
    BY <1>1, RowsTyped
  <1>5. created' = [t \in Text |-> created'[t]] /\ \A t \in Text : created'[t] \in [DOMAIN RowsOf[t] -> Nat]
    <2>1. created' = [created EXCEPT ![q.text][n] = @ + 1]
      BY DEF Save
    <2>2. created = [t \in Text |-> created[t]] /\ \A t \in Text : created[t] \in [DOMAIN RowsOf[t] -> Nat]
      BY DEF ImportKept, ImportTypeOK
    <2>3. /\ created'[q.text] = [created[q.text] EXCEPT ![n] = @ + 1]
          /\ \A t \in Text : t # q.text => created'[t] = created[t]
          /\ created' = [t \in Text |-> created'[t]]
      BY <1>1, <2>1, <2>2
    <2>4. created'[q.text] \in [DOMAIN RowsOf[q.text] -> Nat]
      BY <1>1, <1>4, <2>2, <2>3
    <2> QED BY <2>2, <2>3, <2>4
  <1>6. \A x \in Request : /\ request'[x] \in ApiRequest
                           /\ Continues(request[x], request'[x]) \/ request'[x] = request[x]
    <2> TAKE x \in Request
    <2>1. request' = [y \in Request |-> IF y = r THEN RowAnswer(q, res, c)
                                        ELSE IF Row(q).bar = NoBarcode THEN request[y] ELSE Disturb(request[y])]
      BY DEF Save
    <2>2. CASE x = r
      BY <2>1, <2>2, RowDone
    <2>3. CASE x # r /\ Row(q).bar = NoBarcode
      BY <2>1, <2>3 DEF ImportKept, ImportTypeOK
    <2>4. CASE x # r /\ Row(q).bar # NoBarcode
      BY <2>1, <2>4, DisturbContinues
    <2> QED BY <2>2, <2>3, <2>4
  <1>7. request' \in [Request -> ApiRequest]
    BY <1>6 DEF Save
  <1> QED BY <1>2, <1>3, <1>5, <1>6, <1>7

\* A request that has looked for its row goes on.
LEMMA FindsRow == ASSUME ImportKept, NEW r \in Request, FindRow(r)
    PROVE request'[r] \in ApiRequest /\ Continues(request[r], request'[r]) /\ request' = [request EXCEPT ![r] = request'[r]]
  <1> DEFINE q        == request[r]
             existing == Row(q).bar \in barcodes
             s        == q.seen \cup ({Row(q).bar} \ {NoBarcode})
             looked   == [q EXCEPT !.seen = @ \cup ({Row(q).bar} \ {NoBarcode})]
             v        == IF ~Row(q).valid THEN RowAnswer(q, "error", TRUE)
                         ELSE IF q.kind = "check"
                              THEN RowAnswer(looked, IF IsUpdate(q, existing) THEN "updated" ELSE "created", TRUE)
                              ELSE [looked EXCEPT !.step = IF existing THEN "update" ELSE "create"]
  <1>1. q # Free /\ ~Done(r) /\ request' = [request EXCEPT ![r] = v]
    BY DEF FindRow, AtRow
  <1>2. /\ q \in Sent /\ q.text \in Text /\ Passed(q) \in Nat /\ Passed(q) + 1 \in 1 .. Len(Rows(q))
        /\ Row(q).bar \in Barcode \cup {NoBarcode}
    BY <1>1, AtItsRow
  <1>3. s \in SUBSET Barcode
    BY <1>2 DEF Sent
  <1>4. /\ looked \in Sent /\ looked.kind = q.kind /\ looked.text = q.text /\ looked.here = q.here /\ looked.results = q.results
    <2> HIDE DEF s
    <2>1. LET l == [q EXCEPT !.seen = s]
          IN l \in Sent /\ l.kind = q.kind /\ l.text = q.text /\ l.here = q.here /\ l.results = q.results
      BY <1>2, <1>3 DEF Sent
    <2>2. looked = [q EXCEPT !.seen = s]
      BY DEF s
    <2> QED BY <2>1, <2>2
  <1>5. v \in ApiRequest /\ Continues(q, v)
    <2>1. CASE ~Row(q).valid
      BY <1>1, <2>1, RowDone, Zenon DEF Result
    <2>2. CASE Row(q).valid /\ q.kind = "check"
      <3> DEFINE res == IF IsUpdate(q, existing) THEN "updated" ELSE "created"
                 a   == RowAnswer(looked, res, TRUE)
      <3>1. res \in Result /\ v = a
        BY <2>2 DEF Result
      <3> HIDE DEF res, looked, v
      <3>2. a \in Sent /\ a.kind = looked.kind /\ a.text = looked.text /\ a.here = looked.here /\ Passed(a) = Passed(looked) + 1
        <4>1. \A l \in Sent, rs \in Result : LET b == RowAnswer(l, rs, TRUE) IN
                 b \in Sent /\ b.kind = l.kind /\ b.text = l.text /\ b.here = l.here /\ Passed(b) = Passed(l) + 1
          BY AnsweredSurely
        <4>2. looked \in Sent /\ res \in Result
          BY <1>4, <3>1
        <4> QED BY <4>1, <4>2
      <3> HIDE DEF a
      <3>3. Passed(a) = Passed(q) + 1 /\ a.kind = q.kind /\ a.text = q.text /\ a.here = q.here
        BY <1>4, <3>2 DEF Passed
      <3> QED BY <1>1, <1>2, <3>1, <3>2, <3>3, SentIs DEF Continues, Rows
    <2>3. CASE Row(q).valid /\ q.kind # "check"
      <3> DEFINE st == IF existing THEN "update" ELSE "create"
                 a  == [looked EXCEPT !.step = st]
      <3>1. st \in {"find", "update", "gone", "create"} /\ v = a
        BY <2>3
      <3> HIDE DEF st, looked, v
      <3>2. a \in Sent /\ a.kind = looked.kind /\ a.text = looked.text /\ a.here = looked.here /\ a.results = looked.results
        BY <1>4, <3>1 DEF Sent
      <3> HIDE DEF a
      <3> QED BY <1>1, <1>2, <1>4, <3>1, <3>2, SentIs DEF Continues, Rows, Passed
    <2>4. Row(q).valid \in BOOLEAN
      BY <1>1, AtItsRow
    <2> QED BY <2>1, <2>2, <2>3, <2>4
  <1> HIDE DEF v
  <1>6. request'[r] = v
    BY <1>1, <1>5, OneRequest DEF ImportKept, ImportTypeOK
  <1> QED BY <1>1, <1>5, <1>6

\* Whatever the requests do, if they only go on or end.
LEMMA ImportContinues ==
    ASSUME ImportKept,
           barcodes' \subseteq Barcode, box' \in Text \cup {Nothing}, converting' \subseteq Excel,
           toCheck' \in BOOLEAN, toCheck' => box' # Nothing,
           preview' \in Checked, previewError' \in Text \cup {Nothing},
           importing' = importing, importedText' \in Text \cup {Nothing},
           request' \in [Request -> ApiRequest],
           \A x \in Request : Continues(request[x], request'[x]) \/ request'[x] = request[x],
           box' = box \/ \A x \in Request : request'[x].kind # "check",
           created' = [t \in Text |-> created'[t]],
           \A t \in Text : created'[t] \in [DOMAIN RowsOf[t] -> Nat],
           forgotten' \in [Text -> Nat],
           choices' \in 0 .. MaxChoices, others' \in 0 .. MaxOthers, mishaps' \in 0 .. MaxMishaps
    PROVE ImportKept'
  <1>1. importing' \in BOOLEAN
    BY DEF ImportKept, ImportTypeOK
  <1>2. /\ \A r \in Request : request'[r] # Free /\ request'[r].here =>
                IF request'[r].kind = "check" THEN request'[r].text = box' ELSE importing'
        /\ \A r \in Request : InItsFile(request'[r])
        /\ OneAwaited'
    BY RequestsContinue
  <1>3. ImportTypeOK'
    BY <1>1, <1>2 DEF ImportTypeOK
  <1>4. \A r \in Request : InItsFile(request[r])'
    BY <1>2 DEF InItsFile, Passed, Rows
  <1> QED BY <1>2, <1>3, <1>4 DEF ImportKept

\* The types, as the steps need them.
LEMMA ImportTypes == ASSUME ImportKept
    PROVE /\ barcodes \subseteq Barcode /\ box \in Text \cup {Nothing} /\ converting \subseteq Excel
          /\ toCheck \in BOOLEAN /\ (toCheck => box # Nothing)
          /\ preview \in Checked /\ previewError \in Text \cup {Nothing} /\ importedText \in Text \cup {Nothing}
          /\ request \in [Request -> ApiRequest]
          /\ created = [t \in Text |-> created[t]]
          /\ \A t \in Text : created[t] \in [DOMAIN RowsOf[t] -> Nat]
          /\ forgotten \in [Text -> Nat]
          /\ choices \in 0 .. MaxChoices /\ others \in 0 .. MaxOthers /\ mishaps \in 0 .. MaxMishaps
          /\ MaxChoices \in Nat /\ MaxOthers \in Nat /\ MaxMishaps \in Nat
  BY ImportAssumption DEF ImportKept, ImportTypeOK

\* What is put into the box ends the checks of what was there.
LEMMA BoxSet == ASSUME ImportKept, NEW t \in Text \cup {Nothing}, SetBox(t)
    PROVE /\ box' \in Text \cup {Nothing} /\ toCheck' \in BOOLEAN /\ (toCheck' => box' # Nothing)
          /\ request' \in [Request -> ApiRequest]
          /\ \A x \in Request : Continues(request[x], request'[x]) \/ request'[x] = request[x]
          /\ box' = box \/ \A x \in Request : request'[x].kind # "check"
  <1>1. Free \in ApiRequest /\ Free.kind # "check"
    BY DEF ApiRequest, Free
  <1>2. CASE t = box
    BY <1>2, ImportTypes DEF SetBox
  <1>3. CASE t # box
    <2>1. request' = [r \in Request |-> IF request[r].kind = "check" THEN Free ELSE request[r]]
      BY <1>3 DEF SetBox
    <2>2. request' \in [Request -> ApiRequest]
      BY <1>1, <2>1, ImportTypes
    <2>3. \A x \in Request : request'[x].kind # "check" /\ (Continues(request[x], request'[x]) \/ request'[x] = request[x])
      BY <1>1, <2>1 DEF Continues
    <2> QED BY <1>3, <2>2, <2>3 DEF SetBox
  <1> QED BY <1>2, <1>3

\* A request that was free begins.
LEMMA NewOne == ASSUME ImportKept, NEW kind \in {"check", "import"}, box # Nothing, NEW f \in Seq(Result), NEW c \in BOOLEAN
    PROVE LET v == NewRequest(kind, box, f, c)
          IN /\ v \in Sent /\ v.kind = kind /\ v.text = box /\ v.text \in Text /\ v.step = "find" /\ v.seen = {}
             /\ v.results = << >> /\ Passed(v) = 0 /\ v.foretold = f /\ v.here /\ (v.calm <=> c)
             /\ Passed(v) <= Len(Rows(v))
  <1>1. box \in Text /\ << >> \in Seq(Result) /\ Len(<< >>) = 0 /\ {} \in SUBSET Barcode
    BY EmptySeq DEF ImportKept, ImportTypeOK
  <1>2. Len(RowsOf[box]) \in Nat
    BY <1>1, RowsTyped
  <1> DEFINE v == NewRequest(kind, box, f, c)
  <1>3. v \in Sent /\ v.kind = kind /\ v.text = box /\ v.step = "find" /\ v.seen = {}
        /\ v.results = << >> /\ v.foretold = f /\ v.here
    BY <1>1 DEF NewRequest, Sent
  <1>4. v.calm = c
    BY DEF NewRequest
  <1> HIDE DEF v
  <1>5. Passed(v) = 0 /\ Passed(v) <= Len(Rows(v))
    BY <1>1, <1>2, <1>3 DEF Passed, Rows
  <1>6. v.calm <=> c
    BY <1>4
  <1> QED BY <1>1, <1>3, <1>5, <1>6, Zenon DEF v

\* A request that is disturbed: it goes on, at a row whose product may be gone.
GoesGone(p, q) ==
    /\ q \in ApiRequest /\ Continues(p, q) /\ (q = Free <=> p = Free)
    /\ p # Free => /\ q \in Sent /\ q.seen = p.seen /\ q.foretold = p.foretold /\ q.here = p.here /\ q.results = p.results
                   /\ q.calm = FALSE
                   /\ q.step = p.step \/ (p.step = "update" /\ q.step = "gone")

\* A change of the catalogue by another admin disturbs every request.
LEMMA OthersDisturb == ASSUME ImportKept, NEW b \in Barcode, OtherTakesBarcode(b) \/ OtherFreesBarcode(b), NEW x \in Request
    PROVE GoesGone(request[x], request'[x])
  <1> DEFINE d == Disturb(request[x])
             g == [d EXCEPT !.step = "gone"]
  <1>1. request[x] \in ApiRequest /\ InItsFile(request[x])
    BY DEF ImportKept, ImportTypeOK
  <1>2. GoesGone(request[x], d)
    BY <1>1, Disturbed, DisturbContinues, SentIs, RequestKinds, Zenon DEF GoesGone
  <1> HIDE DEF d
  <1>3. ASSUME request[x] # Free, request[x].step = "update" PROVE GoesGone(request[x], g)
    <2>1. d \in Sent
      BY <1>2, <1>3 DEF GoesGone
    <2>2. /\ g \in Sent /\ g.kind = d.kind /\ g.text = d.text /\ g.here = d.here /\ g.seen = d.seen /\ g.results = d.results
          /\ g.foretold = d.foretold /\ g.calm = d.calm /\ g.step = "gone"
      BY <2>1 DEF Sent
    <2> HIDE DEF g
    <2>3. g \in ApiRequest /\ g # Free /\ d # Free
      BY <2>1, <2>2, SentIs
    <2> QED BY <1>2, <1>3, <2>2, <2>3 DEF GoesGone, Continues, Passed, Rows
  <1>4. request'[x] = d \/ (request[x] # Free /\ request[x].step = "update" /\ request'[x] = g)
    <2>1. CASE OtherTakesBarcode(b)
      BY <2>1 DEF OtherTakesBarcode, d
    <2>2. CASE OtherFreesBarcode(b)
      <3>1. PICK deleted \in BOOLEAN :
          request' = [r \in Request |->
              IF deleted /\ AtRow(r, "update") /\ Row(request[r]).bar = b
              THEN [Disturb(request[r]) EXCEPT !.step = "gone"] ELSE Disturb(request[r])]
        BY <2>2, Zenon DEF OtherFreesBarcode
      <3>2. request'[x] = IF deleted /\ AtRow(x, "update") /\ Row(request[x]).bar = b THEN g ELSE d
        BY <3>1 DEF d
      <3>3. AtRow(x, "update") => request[x] # Free /\ request[x].step = "update"
        BY DEF AtRow
      <3> QED BY <3>2, <3>3
    <2> QED BY <2>1, <2>2
  <1> QED BY <1>2, <1>3, <1>4

\* Every step leaves page, requests and history their types.
LEMMA ImportKeptStep == ImportKept /\ [ImportNext]_importVars => ImportKept'
  <1> SUFFICES ASSUME ImportKept, [ImportNext]_importVars PROVE ImportKept'
    OBVIOUS
  <1> USE ImportTypes
  <1>1. ASSUME NEW t \in Text \cup {Nothing}, PutInBox(t) PROVE ImportKept'
    <2>1. SetBox(t)
      BY <1>1 DEF PutInBox
    <2>2. choices' \in 0 .. MaxChoices
      BY <1>1 DEF PutInBox, Choice
    <2> QED BY <1>1, <2>1, <2>2, BoxSet, ImportContinues DEF PutInBox, atApi, bounds
  <1>2. ASSUME NEW t \in Excel, ChooseExcel(t) PROVE ImportKept'
    <2>1. choices' \in 0 .. MaxChoices
      BY <1>2 DEF ChooseExcel, Choice
    <2> QED BY <1>2, <2>1, ImportContinues DEF ChooseExcel, atApi, shown, bounds
  <1>3. ASSUME NEW t \in Excel, Converted(t) PROVE ImportKept'
    <2>1. SetBox(t) /\ t \in Text
      BY <1>3, ImportAssumption DEF Converted
    <2> QED BY <1>3, <2>1, BoxSet, ImportContinues DEF Converted, atApi, bounds
  <1>4. ASSUME NEW t \in Excel, NotConverted(t) PROVE ImportKept'
    <2>1. mishaps' \in 0 .. MaxMishaps
      BY <1>4 DEF NotConverted, Mishap
    <2> QED BY <1>4, <2>1, ImportContinues DEF NotConverted, atApi, shown
  <1>5. ASSUME NEW r \in Request, CheckBox(r) \/ handleImport(r) PROVE ImportKept'
    <2> PICK kind \in {"check", "import"}, f \in Seq(Result), c \in BOOLEAN :
          /\ request' = [request EXCEPT ![r] = NewRequest(kind, box, f, c)]
          /\ IF kind = "check" THEN CheckBox(r) ELSE handleImport(r)
      <3>1. CASE CheckBox(r)
        BY <3>1, EmptySeq DEF CheckBox
      <3>2. CASE handleImport(r)
        BY <3>2 DEF handleImport, Checked
      <3> QED BY <1>5, <3>1, <3>2
    <2> DEFINE v == NewRequest(kind, box, f, c)
    <2>1. box # Nothing /\ request[r] = Free
      BY DEF CheckBox, handleImport, FreePlace
    <2>2. v \in Sent /\ v.kind = kind /\ v.text = box /\ v.text \in Text /\ v.here /\ Passed(v) <= Len(Rows(v))
      BY <2>1, NewOne
    <2> HIDE DEF v
    <2>3. v \in ApiRequest /\ v # Free
      BY <2>2, SentIs
    <2>4. /\ request' \in [Request -> ApiRequest] /\ request'[r] = v
          /\ \A x \in Request : x # r => request'[x] = request[x]
      BY <2>3, OneRequest DEF v
    <2>5. /\ barcodes' = barcodes /\ box' = box /\ converting' = converting /\ preview' = preview
          /\ previewError' = previewError /\ importedText' = importedText /\ created' = created /\ forgotten' = forgotten
          /\ choices' = choices /\ others' = others /\ mishaps' = mishaps
      BY DEF CheckBox, handleImport, atApi, chosen, bounds
    <2>6. /\ toCheck' \in BOOLEAN /\ importing' \in BOOLEAN /\ (importing => importing')
          /\ kind = "import" => importing' /\ ~importing
      BY DEF CheckBox, handleImport, canImport, ImportKept, ImportTypeOK
    <2>7. \A x \in Request : InItsFile(request'[x])
      BY <2>2, <2>4 DEF ImportKept, InItsFile
    <2>8. \A x \in Request : request'[x] # Free /\ request'[x].here =>
                IF request'[x].kind = "check" THEN request'[x].text = box' ELSE importing'
      BY <2>2, <2>4, <2>5, <2>6 DEF ImportKept, ImportTypeOK
    <2>9. OneAwaited'
      <3>1. CASE kind = "check"
        BY <3>1, <2>2, <2>4 DEF ImportKept, OneAwaited, Awaited
      <3>2. CASE kind = "import"
        <4>1. \A x \in Request : ~Awaited(x)
          BY <3>2, <2>6 DEF ImportKept, ImportTypeOK, Awaited
        <4>2. \A x \in Request : Awaited(x)' => x = r
          BY <4>1, <2>4 DEF Awaited
        <4> QED BY <4>2 DEF OneAwaited
      <3> QED BY <3>1, <3>2
    <2>10. ImportTypeOK'
      BY <2>4, <2>5, <2>6, <2>8 DEF ImportTypeOK
    <2>11. \A x \in Request : InItsFile(request[x])'
      BY <2>7 DEF InItsFile, Passed, Rows
    <2> QED BY <2>1, <2>5, <2>9, <2>10, <2>11 DEF ImportKept
  <1>6. ASSUME NEW r \in Request, CheckAnswered(r) \/ CheckFails(r) \/ NobodyWaits(r) PROVE ImportKept'
    <2>1. Free \in ApiRequest /\ Continues(request[r], Free)
      BY <1>6 DEF ApiRequest, Continues, CheckAnswered, CheckFails, NobodyWaits
    <2>2. request' = [request EXCEPT ![r] = Free]
      BY <1>6 DEF CheckAnswered, CheckFails, NobodyWaits
    <2>3. /\ request' \in [Request -> ApiRequest] /\ request'[r] = Free
          /\ \A x \in Request : x # r => request'[x] = request[x]
      BY <2>1, <2>2, OneRequest
    <2>4. \A x \in Request : Continues(request[x], request'[x]) \/ request'[x] = request[x]
      BY <2>1, <2>3
    <2>5. CASE CheckAnswered(r)
      <3>1. request[r] \in Sent
        BY <2>5, RequestKinds DEF CheckAnswered, Done
      <3>2. preview' \in Checked
        BY <2>5, <3>1 DEF CheckAnswered, Checked, Sent
      <3> QED BY <2>5, <2>3, <2>4, <3>2, ImportContinues DEF CheckAnswered, atApi, chosen, bounds
    <2>6. CASE CheckFails(r)
      <3>1. request[r] \in Sent
        BY <2>6, RequestKinds DEF CheckFails
      <3>2. previewError' \in Text /\ mishaps' \in 0 .. MaxMishaps
        BY <2>6, <3>1 DEF CheckFails, Sent, Mishap
      <3> QED BY <2>6, <2>3, <2>4, <3>2, ImportContinues DEF CheckFails, atApi, chosen
    <2>7. CASE NobodyWaits(r)
      BY <2>7, <2>3, <2>4, ImportContinues DEF NobodyWaits, atApi, chosen, shown, bounds
    <2> QED BY <1>6, <2>5, <2>6, <2>7
  <1>7. ASSUME NEW r \in Request, ImportAnswered(r) \/ ImportUnanswered(r) PROVE ImportKept'
    <2> DEFINE q == request[r]
               h == [q EXCEPT !.here = FALSE]
    <2>1. q \in Sent /\ q.kind = "import" /\ q.here
      BY <1>7, RequestKinds DEF ImportAnswered, ImportUnanswered, Done
    <2>2. Free \in ApiRequest /\ h \in ApiRequest /\ h # Free /\ h.kind = q.kind /\ h.text = q.text /\ h.results = q.results /\ ~h.here
      <3>1. h \in Sent /\ h.kind = q.kind /\ h.text = q.text /\ h.results = q.results /\ h.here = FALSE
        BY <2>1 DEF Sent
      <3> QED BY <3>1, SentIs DEF ApiRequest
    <2>3. PICK v \in {Free, h} : request' = [request EXCEPT ![r] = v]
      BY <1>7 DEF ImportAnswered, ImportUnanswered
    <2> HIDE DEF h
    <2>4. /\ request' \in [Request -> ApiRequest] /\ request'[r] = v
          /\ \A x \in Request : x # r => request'[x] = request[x]
      BY <2>2, <2>3, OneRequest
    <2>5. /\ box' = box /\ toCheck' = toCheck /\ barcodes' = barcodes /\ converting' = converting /\ preview' = preview
          /\ previewError' = previewError /\ created' = created /\ choices' = choices /\ others' = others
          /\ mishaps' \in 0 .. MaxMishaps /\ importing' = FALSE
      BY <1>7 DEF ImportAnswered, ImportUnanswered, atApi, chosen, bounds, Mishap
    <2>6. importedText' \in Text \cup {Nothing} /\ q.text \in Text
      BY <1>7, <2>1 DEF ImportAnswered, ImportUnanswered, Sent
    <2>7. forgotten' \in [Text -> Nat]
      BY <1>7 DEF ImportAnswered, ImportUnanswered, Forget
    <2>8. \A x \in Request : InItsFile(request'[x])
      <3>1. InItsFile(q) /\ q # Free
        BY <2>1, RequestKinds DEF ImportKept
      <3>2. InItsFile(v)
        BY <2>2, <3>1 DEF InItsFile, Passed, Rows
      <3>3. \A x \in Request : InItsFile(request[x])
        BY DEF ImportKept
      <3> QED BY <2>4, <3>2, <3>3
    <2>9. \A x \in Request : request'[x] # Free /\ request'[x].here => x # r /\ request[x].kind = "check" /\ request[x].text = box
      <3> TAKE x \in Request
      <3> HAVE request'[x] # Free /\ request'[x].here
      <3>1. x # r /\ request'[x] = request[x]
        BY <2>2, <2>4
      <3>2. request[x].kind # "import"
        BY <2>1, <3>1, RequestKinds DEF ImportKept, OneAwaited, Awaited
      <3>3. request[x] \in Sent
        BY <3>1, RequestKinds
      <3> QED BY <3>1, <3>2, <3>3 DEF ImportKept, ImportTypeOK, Sent
    <2>10. OneAwaited'
      BY <2>9, <2>4 DEF OneAwaited, Awaited
    <2>11. \A x \in Request : request'[x] # Free /\ request'[x].here =>
                IF request'[x].kind = "check" THEN request'[x].text = box' ELSE importing'
      BY <2>4, <2>5, <2>9
    <2>12. ImportTypeOK'
      BY <2>4, <2>5, <2>6, <2>7, <2>11 DEF ImportTypeOK
    <2>13. \A x \in Request : InItsFile(request[x])'
      BY <2>8 DEF InItsFile, Passed, Rows
    <2> QED BY <2>5, <2>10, <2>12, <2>13 DEF ImportKept
  <1>8. ASSUME NEW r \in Request, FindRow(r) PROVE ImportKept'
    <2>1. /\ request' \in [Request -> ApiRequest]
          /\ \A x \in Request : Continues(request[x], request'[x]) \/ request'[x] = request[x]
      BY <1>8, FindsRow, OneRequest
    <2> QED BY <1>8, <2>1, ImportContinues DEF FindRow, atApi, chosen, shown, bounds
  <1>9. ASSUME NEW r \in Request, UpdateRow(r) PROVE ImportKept'
    <2>1. PICK res \in Result : request' = [request EXCEPT ![r] = RowAnswer(request[r], res, TRUE)]
      BY <1>9 DEF UpdateRow, Result
    <2>2. request[r] # Free /\ ~Done(r)
      BY <1>9 DEF UpdateRow, AtRow
    <2>3. RowAnswer(request[r], res, TRUE) \in ApiRequest /\ Continues(request[r], RowAnswer(request[r], res, TRUE))
      BY <2>2, RowDone, Zenon
    <2>4. /\ request' \in [Request -> ApiRequest]
          /\ \A x \in Request : Continues(request[x], request'[x]) \/ request'[x] = request[x]
      BY <2>1, <2>3, OneRequest
    <2> QED BY <1>9, <2>4, ImportContinues DEF UpdateRow, atApi, chosen, shown, bounds
  <1>10. ASSUME NEW r \in Request, CreateRow(r) \/ RowFails(r) PROVE ImportKept'
    <2>1. request[r] # Free /\ ~Done(r)
      BY <1>10 DEF CreateRow, RowFails, AtRow
    <2>2. /\ UNCHANGED <<chosen, toCheck, previewError, importing, importedText, forgotten, others>>
          /\ mishaps' \in 0 .. MaxMishaps
      <3>1. CASE CreateRow(r)
        BY <3>1, Zenon, ImportTypes DEF CreateRow, bounds
      <3>2. CASE RowFails(r)
        <4>1. mishaps' \in 0 .. MaxMishaps
          BY <3>2, SMT DEF RowFails, Mishap
        <4> QED BY <3>2, <4>1, Zenon DEF RowFails
      <3> QED BY <1>10, <3>1, <3>2
    <2>3. \E res \in Result, c \in BOOLEAN :
             \/ request' = [request EXCEPT ![r] = RowAnswer(request[r], res, c)] /\ UNCHANGED <<atApi, preview>>
             \/ Save(r, res, c)
      <3>1. CASE CreateRow(r)
        <4>1. "created" \in Result /\ "error" \in Result /\ TRUE \in BOOLEAN
          BY DEF Result
        <4> QED BY <3>1, <4>1, Zenon DEF CreateRow
      <3>2. CASE RowFails(r)
        <4>1. "error" \in Result /\ FALSE \in BOOLEAN
          BY DEF Result
        <4> QED BY <3>2, <4>1, Zenon DEF RowFails
      <3> QED BY <1>10, <3>1, <3>2
    <2>4. PICK res \in Result, c \in BOOLEAN :
             \/ request' = [request EXCEPT ![r] = RowAnswer(request[r], res, c)] /\ UNCHANGED <<atApi, preview>>
             \/ Save(r, res, c)
      BY <2>3, Zenon
    <2>5. CASE request' = [request EXCEPT ![r] = RowAnswer(request[r], res, c)] /\ UNCHANGED <<atApi, preview>>
      <3>1. /\ request' \in [Request -> ApiRequest]
            /\ \A x \in Request : Continues(request[x], request'[x]) \/ request'[x] = request[x]
        BY <2>1, <2>5, RowDone, OneRequest
      <3> QED BY <2>2, <2>5, <3>1, ImportContinues DEF atApi, chosen
    <2>6. CASE Save(r, res, c)
      BY <2>1, <2>2, <2>6, SaveKeeps, ImportContinues DEF chosen
    <2> QED BY <2>4, <2>5, <2>6
  <1>11. ASSUME ReloadPage PROVE ImportKept'
    <2> DEFINE h(x) == [request[x] EXCEPT !.here = FALSE]
    <2>1. request' = [x \in Request |-> IF request[x].kind = "import" THEN h(x) ELSE Free]
      BY <1>11 DEF ReloadPage
    <2>2. /\ box' = Nothing /\ toCheck' = FALSE /\ barcodes' = barcodes /\ converting' = {} /\ preview' = NoFile
          /\ previewError' = Nothing /\ importedText' = Nothing /\ created' = created /\ others' = others
          /\ mishaps' = mishaps /\ choices' \in 0 .. MaxChoices /\ importing' = FALSE
      BY <1>11 DEF ReloadPage, atApi, bounds, Choice
    <2>3. forgotten' \in [Text -> Nat]
      BY <1>11 DEF ReloadPage
    <2>4. preview' \in Checked
      BY <2>2, EmptySeq DEF NoFile, Checked
    <2>5. \A x \in Request : /\ request'[x] \in ApiRequest /\ InItsFile(request'[x])
                             /\ request'[x] # Free => ~request'[x].here
      <3> TAKE x \in Request
      <3>1. CASE request[x].kind = "import"
        <4>1. request[x] \in Sent /\ InItsFile(request[x])
          BY <3>1, RequestKinds DEF ImportKept
        <4>2. h(x) \in Sent /\ h(x).text = request[x].text /\ h(x).results = request[x].results /\ h(x).here = FALSE
          BY <4>1 DEF Sent
        <4> HIDE DEF h
        <4>3. request'[x] = h(x)
          BY <2>1, <3>1
        <4> QED BY <4>1, <4>2, <4>3, SentIs DEF InItsFile, Passed, Rows
      <3>2. CASE request[x].kind # "import"
        BY <2>1, <3>2 DEF ApiRequest, InItsFile
      <3> QED BY <3>1, <3>2
    <2>6. request' \in [Request -> ApiRequest]
      BY <2>1, <2>5
    <2>7. OneAwaited'
      BY <2>5 DEF OneAwaited, Awaited
    <2>8. ImportTypeOK'
      BY <2>2, <2>3, <2>4, <2>5, <2>6 DEF ImportTypeOK
    <2>9. \A x \in Request : InItsFile(request[x])'
      BY <2>5 DEF InItsFile, Passed, Rows
    <2> QED BY <2>2, <2>7, <2>8, <2>9 DEF ImportKept
  <1>12. ASSUME NEW b \in Barcode, OtherTakesBarcode(b) \/ OtherFreesBarcode(b) PROVE ImportKept'
    <2>1. /\ barcodes' \subseteq Barcode /\ others' \in 0 .. MaxOthers
          /\ UNCHANGED <<chosen, toCheck, previewError, importing, importedText, created, forgotten, mishaps>>
      BY <1>12 DEF OtherTakesBarcode, OtherFreesBarcode
    <2>2. preview' \in Checked
      BY <1>12, PreviewDisturbed DEF OtherTakesBarcode, OtherFreesBarcode
    <2>3. \A x \in Request : request'[x] \in ApiRequest /\ Continues(request[x], request'[x])
      BY <1>12, OthersDisturb DEF GoesGone
    <2>4. request' \in [Request -> ApiRequest]
      <3>1. CASE OtherTakesBarcode(b)
        BY <2>3, <3>1 DEF OtherTakesBarcode
      <3>2. CASE OtherFreesBarcode(b)
        BY <2>3, <3>2 DEF OtherFreesBarcode
      <3> QED BY <1>12, <3>1, <3>2
    <2> QED BY <2>1, <2>2, <2>3, <2>4, ImportContinues DEF chosen
  <1>13. CASE UNCHANGED importVars
    BY <1>13, ImportContinues DEF importVars
  <1> QED BY <1>1, <1>2, <1>3, <1>5, <1>4, <1>6, <1>7, <1>8, <1>9, <1>10, <1>11, <1>12, <1>13 DEF ImportNext

\* The inductive invariant of the preview.
PreviewInv ==
    /\ ImportKept /\ PreviewFits
    /\ \A r \in Request : request[r] # Free => RequestGoes(request[r])

\* A row that is done takes its barcode, and the rows after it do what they would have done.
LEMMA NextRow ==
    ASSUME NEW t \in Text, NEW n \in Nat, n + 1 <= Len(RowsOf[t]), NEW B, NEW C,
           C = IF RowsOf[t][n + 1].valid THEN B \cup ({RowsOf[t][n + 1].bar} \ {NoBarcode}) ELSE B,
           NEW i \in n + 2 .. Len(RowsOf[t])
    PROVE Verdict(t, n + 1, C, i) = Verdict(t, n, B, i)
  <1> DEFINE row == RowsOf[t][n + 1]
             mine == RowsOf[t][i]
             Comes(m) == \E j \in (m + 1) .. (i - 1) : RowsOf[t][j].valid /\ RowsOf[t][j].bar = mine.bar
  <1>1. Len(RowsOf[t]) \in Nat /\ i \in Int /\ n + 1 \in (n + 1) .. (i - 1)
    BY RowsTyped
  <1>2. (n + 1) .. (i - 1) = {n + 1} \cup (n + 2) .. (i - 1) /\ (n + 1) + 1 = n + 2
    BY <1>1
  <1>3. Comes(n) <=> (row.valid /\ row.bar = mine.bar) \/ Comes(n + 1)
    BY <1>2
  <1> HIDE DEF Comes
  <1>4. mine.bar \in C \/ (mine.bar # NoBarcode /\ Comes(n + 1)) <=> mine.bar \in B \/ (mine.bar # NoBarcode /\ Comes(n))
    BY <1>3
  <1>5. \A m, S : Verdict(t, m, S, i) = IF ~mine.valid THEN "error"
                                       ELSE IF mine.bar \in S \/ (mine.bar # NoBarcode /\ Comes(m)) THEN "updated" ELSE "created"
    BY DEF Verdict, Comes
  <1> QED BY <1>4, <1>5

\* What the next row does.
LEMMA ThisRow ==
    ASSUME NEW t \in Text, NEW n \in Nat, NEW B
    PROVE Verdict(t, n, B, n + 1) = IF ~RowsOf[t][n + 1].valid THEN "error"
                                    ELSE IF RowsOf[t][n + 1].bar \in B THEN "updated" ELSE "created"
  <1>1. (n + 1) .. ((n + 1) - 1) = {}
    OBVIOUS
  <1> QED BY <1>1 DEF Verdict

\* While the catalogue stays, what was said of it stays true.
LEMMA NobodyChanges == ASSUME PreviewFits, NEW q, RequestGoes(q), barcodes' = barcodes
    PROVE RequestGoes(q)' /\ (preview' = preview => PreviewFits')
  BY DEF PreviewFits, RequestGoes, CheckGoes, ImportGoes, Passed, Rows

\* A request that is disturbed claims nothing any more.
LEMMA DisturbedGoes == ASSUME NEW p \in Sent, NEW q, GoesGone(p, q), RequestGoes(p), NEW u, u = q
    PROVE RequestGoes(u)'
  <1>1. /\ q.kind = p.kind /\ q.text = p.text /\ q.seen = p.seen /\ q.foretold = p.foretold /\ q.results = p.results
        /\ q.calm = FALSE
        /\ q.step = p.step \/ (p.step = "update" /\ q.step = "gone")
    BY SentIs DEF GoesGone, Continues
  <1>2. Rows(q) = Rows(p) /\ Passed(q) = Passed(p)
    BY <1>1 DEF Rows, Passed
  <1>3. CheckGoes(p) => CheckGoes(q)'
    BY <1>1, <1>2 DEF CheckGoes, Rows, Passed
  <1>4. ImportGoes(p) => ImportGoes(q)'
    <2> SUFFICES ASSUME ImportGoes(p) PROVE ImportGoes(q)'
      OBVIOUS
    <2>1. Len(q.foretold) = Len(Rows(q)) /\ (q.step # "find" => Passed(q) < Len(Rows(q)) /\ Rows(q)[Passed(q) + 1].valid)
      BY <1>1, <1>2 DEF ImportGoes
    <2>2. ~q.calm
      <3>1. q.calm = FALSE
        BY <1>1
      <3> QED BY <3>1, Zenon
    <2> QED BY <2>1, <2>2 DEF ImportGoes, Rows, Passed
  <1> QED BY <1>1, <1>3, <1>4 DEF RequestGoes

\* So does one disturbed by a row of another.
LEMMA DisturbGoes == ASSUME ImportKept, NEW r \in Request
    PROVE GoesGone(request[r], Disturb(request[r]))
  BY Disturbed, DisturbContinues, RequestKinds, SentIs, Zenon DEF GoesGone, ImportKept, ImportTypeOK

\* Nor does the preview.
LEMMA PreviewChanges == ASSUME ImportKept, PreviewFits, CatalogueChanges
    PROVE PreviewFits'
  <1>1. preview'.calm = FALSE /\ preview'.text = preview.text /\ preview'.results = preview.results
    BY PreviewDisturbed, ImportTypes
  <1> QED BY <1>1 DEF PreviewFits

\* A row that met a mishap, or was not saved: nothing is claimed of the rest.
LEMMA AnsweredGoes == ASSUME NEW q \in Sent, q.kind = "import", RequestGoes(q), NEW res \in Result,
                            NEW u, u = RowAnswer(q, res, FALSE)
    PROVE RequestGoes(u)'
  <1> DEFINE b(c) == RowAnswer(q, res, c)
             a == b(FALSE)
  <1>0. \A c \in BOOLEAN : /\ b(c).kind = q.kind /\ b(c).text = q.text /\ b(c).step = "find" /\ b(c).foretold = q.foretold
                           /\ b(c).calm => c
    BY RowAnswered
  <1> HIDE DEF b
  <1>1. a.kind = q.kind /\ a.text = q.text /\ a.step = "find" /\ a.foretold = q.foretold /\ ~a.calm
    BY <1>0, Zenon
  <1> HIDE DEF a
  <1>2. u = a
    BY DEF a, b
  <1>3. ImportGoes(q)
    BY DEF RequestGoes
  <1>4. ImportGoes(u)'
    BY <1>1, <1>2, <1>3 DEF ImportGoes, Rows, Passed
  <1> QED BY <1>1, <1>2, <1>4 DEF RequestGoes

\* What a dry run has seen, with one more row.
SeenUpTo(t, n) == {RowsOf[t][j].bar : j \in {k \in 1 .. n : RowsOf[t][k].valid}} \ {NoBarcode}

\* The barcodes seen, one row later.
LEMMA SeenNext == ASSUME NEW t, NEW n \in Nat
    PROVE SeenUpTo(t, n + 1) = IF RowsOf[t][n + 1].valid THEN SeenUpTo(t, n) \cup ({RowsOf[t][n + 1].bar} \ {NoBarcode})
                               ELSE SeenUpTo(t, n)
  <1>1. 1 .. (n + 1) = 1 .. n \cup {n + 1}
    OBVIOUS
  <1> QED BY <1>1 DEF SeenUpTo

\* An import has done its next row as was foretold.
LEMMA ImportRowDone ==
    ASSUME NEW q \in Sent, q.kind = "import", q.text \in Text, Passed(q) + 1 <= Len(Rows(q)), RequestGoes(q),
           NEW res \in Result,
           q.calm => /\ res = Verdict(q.text, Passed(q), barcodes, Passed(q) + 1)
                     /\ barcodes' = IF Rows(q)[Passed(q) + 1].valid
                                    THEN barcodes \cup ({Rows(q)[Passed(q) + 1].bar} \ {NoBarcode}) ELSE barcodes,
           NEW u, u = RowAnswer(q, res, TRUE)
    PROVE RequestGoes(u)'
  <1> DEFINE b(c) == RowAnswer(q, res, c)
             a == b(TRUE)
             n == Passed(q)
             t == q.text
  <1>0. \A c \in BOOLEAN : /\ b(c).kind = q.kind /\ b(c).text = q.text /\ b(c).step = "find" /\ b(c).foretold = q.foretold
                           /\ b(c).calm => q.calm
                           /\ Passed(b(c)) = n + 1 /\ n \in Nat
                           /\ b(c).results[n + 1] = res /\ \A i \in 1 .. n : b(c).results[i] = q.results[i]
    BY RowAnswered
  <1> HIDE DEF b
  <1>1. /\ a.kind = q.kind /\ a.text = t /\ a.step = "find" /\ a.foretold = q.foretold
        /\ a.calm => q.calm
        /\ Passed(a) = n + 1 /\ n \in Nat
        /\ a.results[n + 1] = res /\ \A i \in 1 .. n : a.results[i] = q.results[i]
    BY <1>0, Zenon
  <1> HIDE DEF a
  <1>2. Len(a.foretold) = Len(Rows(a)) /\ Rows(a) = RowsOf[t]
    BY <1>1 DEF RequestGoes, ImportGoes, Rows
  <1>3. Len(RowsOf[t]) \in Nat /\ n + 1 <= Len(RowsOf[t])
    BY RowsTyped DEF Rows
  <1>4. ASSUME a.calm
        PROVE  /\ \A i \in 1 .. n + 1 : a.results[i] = a.foretold[i]
               /\ \A i \in n + 2 .. Len(RowsOf[t]) : a.foretold[i] = Verdict(t, n + 1, barcodes', i)
    <2>1. q.calm
      BY <1>1, <1>4
    <2>2. /\ \A i \in 1 .. n : q.results[i] = q.foretold[i]
          /\ \A i \in n + 1 .. Len(RowsOf[t]) : q.foretold[i] = Verdict(t, n, barcodes, i)
      BY <2>1 DEF RequestGoes, ImportGoes, Rows
    <2>3. q.foretold[n + 1] = res
      BY <1>1, <1>3, <2>1, <2>2
    <2>4. \A i \in 1 .. n + 1 : a.results[i] = a.foretold[i]
      BY <1>1, <2>2, <2>3
    <2>5. \A i \in n + 2 .. Len(RowsOf[t]) : Verdict(t, n + 1, barcodes', i) = Verdict(t, n, barcodes, i)
      BY <1>1, <2>1, NextRow DEF Rows
    <2>6. \A i \in n + 2 .. Len(RowsOf[t]) : i \in n + 1 .. Len(RowsOf[t])
      BY <1>1, <1>3
    <2> QED BY <1>1, <2>2, <2>4, <2>5, <2>6
  <1>6. ImportGoes(u)'
    <2>1. u = a
      BY DEF a, b
    <2>2. Passed(a) + 1 = n + 2
      BY <1>1
    <2> QED BY <1>1, <1>2, <1>4, <2>1, <2>2 DEF ImportGoes, Rows, Passed
  <1>7. u.kind = "import"
    BY <1>1 DEF a, b
  <1> QED BY <1>6, <1>7 DEF RequestGoes

\* What is said of the row looked for is true.
LEMMA FindsGoes == ASSUME PreviewInv, NEW r \in Request, FindRow(r), NEW u, u = request'[r]
    PROVE RequestGoes(u)'
  <1> DEFINE q        == request[r]
             t        == q.text
             n        == Passed(q)
             row      == RowsOf[t][n + 1]
             existing == row.bar \in barcodes
             s        == q.seen \cup ({row.bar} \ {NoBarcode})
             looked   == [q EXCEPT !.seen = s]
             res      == IF IsUpdate(q, existing) THEN "updated" ELSE "created"
             v        == IF ~row.valid THEN RowAnswer(q, "error", TRUE)
                         ELSE IF q.kind = "check" THEN RowAnswer(looked, res, TRUE)
                              ELSE [looked EXCEPT !.step = IF existing THEN "update" ELSE "create"]
  <1>0. ImportKept
    BY DEF PreviewInv
  <1>1. q # Free /\ ~Done(r) /\ q.step = "find" /\ barcodes' = barcodes
    BY DEF FindRow, AtRow, atApi
  <1>2. /\ q \in Sent /\ t \in Text /\ n \in Nat /\ n + 1 \in 1 .. Len(RowsOf[t]) /\ Rows(q) = RowsOf[t]
        /\ Row(q) = row /\ row.bar \in Barcode \cup {NoBarcode} /\ row.valid \in BOOLEAN
    BY <1>0, <1>1, AtItsRow DEF Rows
  <1>3. u = v /\ v \in ApiRequest
    <2>1. request' = [request EXCEPT ![r] = v]
      BY <1>2 DEF FindRow
    <2> HIDE DEF v
    <2>2. request'[r] = v
      BY <2>1, <1>0, ImportTypes
    <2>3. request'[r] \in ApiRequest
      BY <1>0, FindsRow
    <2> QED BY <2>2, <2>3
  <1>4. RequestGoes(q) /\ q.kind \in {"check", "import"}
    BY <1>1, <1>2 DEF PreviewInv, Sent
  <1>5. CASE ~row.valid /\ q.kind = "import"
    <2>1. "error" \in Result /\ v = RowAnswer(q, "error", TRUE)
      BY <1>5 DEF Result
    <2>2. Verdict(t, n, barcodes, n + 1) = "error"
      BY <1>2, <1>5, ThisRow
    <2>3. u = RowAnswer(q, "error", TRUE)
      BY <1>3, <2>1
    <2>4. barcodes' = IF Rows(q)[Passed(q) + 1].valid
                      THEN barcodes \cup ({Rows(q)[Passed(q) + 1].bar} \ {NoBarcode}) ELSE barcodes
      BY <1>1, <1>2, <1>5
    <2>5. Passed(q) + 1 <= Len(Rows(q))
      BY <1>2
    <2> HIDE DEF v
    <2> QED BY <1>2, <1>4, <1>5, <2>1, <2>2, <2>3, <2>4, <2>5, ImportRowDone
  <1>6. CASE row.valid /\ q.kind = "import"
    <2> DEFINE st == IF existing THEN "update" ELSE "create"
               w  == [looked EXCEPT !.step = st]
    <2>1. v = w /\ st \in {"find", "update", "gone", "create"}
      BY <1>6
    <2>2. /\ w.kind = "import" /\ w.text = t /\ w.step = st /\ w.foretold = q.foretold /\ w.results = q.results
          /\ w.calm = q.calm
      <3> HIDE DEF s, st
      <3> QED BY <1>2, <1>6 DEF Sent
    <2> HIDE DEF w, v
    <2>3. w.calm => q.calm
      BY <2>2
    <2>4. Passed(w) = n /\ Rows(w) = RowsOf[t] /\ n + 1 <= Len(RowsOf[t]) /\ n < Len(RowsOf[t])
      BY <1>2, <2>2, RowsTyped DEF Passed, Rows
    <2>5. ImportGoes(q)
      BY <1>4, <1>6 DEF RequestGoes
    <2>6. ImportGoes(w)
      BY <1>2, <1>6, <2>2, <2>3, <2>4, <2>5 DEF ImportGoes
    <2>7. ImportGoes(u)'
      BY <1>1, <1>3, <2>1, <2>6 DEF ImportGoes, Passed, Rows
    <2>8. u.kind = "import"
      BY <1>3, <2>1, <2>2
    <2> QED BY <2>7, <2>8 DEF RequestGoes
  <1>7. CASE q.kind = "check"
    <2> DEFINE p   == IF row.valid THEN looked ELSE q
               ans == IF row.valid THEN res ELSE "error"
               b(c) == RowAnswer(p, ans, c)
               a    == b(TRUE)
               seen == SeenUpTo(t, n)
    <2>1. CheckGoes(q) /\ q.seen = seen
      BY <1>2, <1>4, <1>7 DEF RequestGoes, CheckGoes, SeenUpTo
    <2>2. p \in Sent /\ p.kind = "check" /\ p.text = t /\ p.results = q.results /\ (p.calm => q.calm) /\ p.seen = SeenUpTo(t, n + 1)
      <3>1. SeenUpTo(t, n + 1) = IF row.valid THEN s ELSE q.seen
        BY <1>2, <2>1, SeenNext
      <3>2. s \in SUBSET Barcode
        BY <1>2 DEF Sent
      <3>3. looked \in Sent /\ looked.kind = "check" /\ looked.text = t /\ looked.results = q.results /\ looked.calm = q.calm /\ looked.seen = s
        <4> HIDE DEF s
        <4> QED BY <1>2, <1>7, <3>2 DEF Sent
      <3>4. looked.calm => q.calm
        BY <3>3
      <3> HIDE DEF s, looked
      <3>5. CASE row.valid
        BY <3>1, <3>3, <3>4, <3>5
      <3>6. CASE ~row.valid
        BY <1>2, <1>7, <3>1, <3>6
      <3> QED BY <3>5, <3>6
    <2>3. ans \in Result /\ v = a
      BY <1>7 DEF Result
    <2>4. ans = Verdict(t, 0, barcodes, n + 1)
      <3>1. row.bar \in seen \ {NoBarcode} <=>
               row.bar # NoBarcode /\ \E j \in 1 .. n : RowsOf[t][j].valid /\ RowsOf[t][j].bar = row.bar
        BY DEF SeenUpTo
      <3>2. 0 + 1 = 1 /\ (n + 1) - 1 = n
        BY <1>2
      <3>3. IsUpdate(q, existing) <=> existing \/ row.bar \in seen \ {NoBarcode}
        BY <1>2, <2>1 DEF IsUpdate
      <3> HIDE DEF seen
      <3> QED BY <3>1, <3>2, <3>3 DEF Verdict
    <2> HIDE DEF p, ans, v
    <2>5. \A c \in BOOLEAN : /\ b(c).kind = p.kind /\ b(c).text = p.text /\ b(c).step = "find" /\ b(c).seen = p.seen
                             /\ b(c).calm => p.calm
                             /\ Passed(b(c)) = Passed(p) + 1
                             /\ b(c).results[Passed(p) + 1] = ans /\ \A i \in 1 .. Passed(p) : b(c).results[i] = p.results[i]
      BY <2>2, <2>3, RowAnswered
    <2> HIDE DEF b
    <2>6. /\ a.kind = p.kind /\ a.text = p.text /\ a.step = "find" /\ a.seen = p.seen
          /\ a.calm => p.calm
          /\ Passed(a) = Passed(p) + 1
          /\ a.results[Passed(p) + 1] = ans /\ \A i \in 1 .. Passed(p) : a.results[i] = p.results[i]
      BY <2>5, Zenon
    <2> HIDE DEF a
    <2>7. Passed(p) = n /\ Rows(a) = RowsOf[t] /\ Passed(a) = n + 1
      BY <2>2, <2>6 DEF Passed, Rows
    <2>8. a.calm => \A i \in 1 .. n : q.results[i] = Verdict(t, 0, barcodes, i)
      BY <2>1, <2>2, <2>6 DEF CheckGoes
    <2>9. a.calm => \A i \in 1 .. n + 1 : a.results[i] = Verdict(t, 0, barcodes, i)
      <3> SUFFICES ASSUME a.calm, NEW i \in 1 .. n + 1 PROVE a.results[i] = Verdict(t, 0, barcodes, i)
        OBVIOUS
      <3>1. CASE i = n + 1
        BY <2>4, <2>6, <2>7, <3>1
      <3>2. CASE i \in 1 .. n
        BY <2>2, <2>6, <2>7, <2>8, <3>2
      <3>3. i = n + 1 \/ i \in 1 .. n
        BY <1>2
      <3> QED BY <3>1, <3>2, <3>3
    <2>10. a.seen = {Rows(a)[j].bar : j \in {k \in 1 .. Passed(a) : Rows(a)[k].valid}} \ {NoBarcode}
      BY <2>2, <2>6, <2>7 DEF SeenUpTo
    <2>11. CheckGoes(a)
      BY <2>2, <2>6, <2>7, <2>9, <2>10 DEF CheckGoes
    <2>12. CheckGoes(u)'
      BY <1>1, <1>3, <2>3, <2>11 DEF CheckGoes, Passed, Rows
    <2>13. u.kind = "check"
      BY <1>3, <2>2, <2>3, <2>6
    <2> QED BY <2>12, <2>13 DEF RequestGoes
  <1> QED BY <1>2, <1>4, <1>5, <1>6, <1>7

\* What is done to a row is what was foretold, or the import is no longer calm.
LEMMA RowGoes == ASSUME PreviewInv, NEW r \in Request, UpdateRow(r) \/ CreateRow(r) \/ RowFails(r)
    PROVE PreviewFits' /\ \A x \in Request : request'[x] # Free => RequestGoes(request[x])'
  <1> DEFINE q   == request[r]
             t   == q.text
             n   == Passed(q)
             row == RowsOf[t][n + 1]
  <1>0. ImportKept /\ PreviewFits
    BY DEF PreviewInv
  <1>1. q # Free /\ ~Done(r) /\ q.step # "find"
    BY DEF UpdateRow, CreateRow, RowFails, AtRow
  <1>2. /\ q \in Sent /\ t \in Text /\ n \in Nat /\ n + 1 \in 1 .. Len(RowsOf[t]) /\ Rows(q) = RowsOf[t]
        /\ Row(q) = row /\ row.bar \in Barcode \cup {NoBarcode}
    BY <1>0, <1>1, AtItsRow DEF Rows
  <1>3. /\ RequestGoes(q) /\ q.kind = "import" /\ ImportGoes(q) /\ row.valid /\ n + 1 <= Len(Rows(q))
    <2>1. RequestGoes(q) /\ q.kind \in {"check", "import"}
      BY <1>1, <1>2 DEF PreviewInv, Sent
    <2>2. q.kind = "import"
      BY <1>1, <2>1 DEF RequestGoes, CheckGoes
    <2>3. ImportGoes(q)
      BY <2>1, <2>2 DEF RequestGoes
    <2> QED BY <1>1, <1>2, <2>1, <2>2, <2>3 DEF ImportGoes
  <1>4. request \in [Request -> ApiRequest] /\ \A x \in Request : request[x] # Free => RequestGoes(request[x])
    BY <1>0, ImportTypes DEF PreviewInv
  <1>5. \A res \in Result, c \in BOOLEAN : RowAnswer(q, res, c) \in ApiRequest
    BY <1>0, <1>1, RowDone
  \* Only this request moves.
  <1>6. ASSUME NEW v \in ApiRequest, request' = [request EXCEPT ![r] = v], UNCHANGED <<barcodes, preview>>,
               \A u : u = v => RequestGoes(u)'
        PROVE  PreviewFits' /\ \A x \in Request : request'[x] # Free => RequestGoes(request[x])'
    <2>1. request'[r] = v /\ \A x \in Request : x # r => request'[x] = request[x]
      BY <1>4, <1>6, OneRequest
    <2>2. PreviewFits'
      BY <1>0, <1>6 DEF PreviewFits
    <2>3. ASSUME NEW x \in Request, request'[x] # Free, NEW u, u = request'[x] PROVE RequestGoes(u)'
      <3>1. CASE x = r
        BY <1>6, <2>1, <2>3, <3>1
      <3>2. CASE x # r
        <4>1. RequestGoes(u)
          BY <1>4, <2>1, <2>3, <3>2
        <4> QED BY <1>0, <1>6, <4>1, NobodyChanges
      <3> QED BY <3>1, <3>2
    <2>4. ASSUME NEW x \in Request, request'[x] # Free PROVE RequestGoes(request[x])'
      <3>1. \A u : u = request'[x] => RequestGoes(u)'
        BY <2>3, <2>4
      <3> QED BY <3>1 DEF RequestGoes, CheckGoes, ImportGoes, Passed, Rows
    <2> QED BY <2>2, <2>4
  \* The row is saved.
  <1>7. ASSUME NEW v \in ApiRequest, NEW res \in Result, NEW c \in BOOLEAN, Save(r, res, c), v = RowAnswer(q, res, c),
               \A u : u = v => RequestGoes(u)'
        PROVE  PreviewFits' /\ \A x \in Request : request'[x] # Free => RequestGoes(request[x])'
    <2>1. /\ request' = [x \in Request |-> IF x = r THEN RowAnswer(q, res, c)
                                           ELSE IF row.bar = NoBarcode THEN request[x] ELSE Disturb(request[x])]
          /\ barcodes' = barcodes \cup ({row.bar} \ {NoBarcode})
          /\ IF row.bar = NoBarcode THEN UNCHANGED preview ELSE CatalogueChanges
      BY <1>2, <1>7 DEF Save
    <2>2. PreviewFits'
      <3>1. CASE row.bar = NoBarcode
        <4>1. barcodes' = barcodes /\ preview' = preview
          BY <2>1, <3>1
        <4> QED BY <1>0, <4>1 DEF PreviewFits
      <3>2. CASE row.bar # NoBarcode
        BY <1>0, <2>1, <3>2, PreviewChanges
      <3> QED BY <3>1, <3>2
    <2>3. ASSUME NEW x \in Request, request'[x] # Free, NEW u, u = request'[x] PROVE RequestGoes(u)'
      <3>1. CASE x = r
        BY <1>7, <2>1, <2>3, <3>1
      <3>2. CASE x # r /\ row.bar = NoBarcode
        <4>1. u = request[x] /\ barcodes' = barcodes
          BY <2>1, <2>3, <3>2
        <4>2. RequestGoes(u)
          BY <1>4, <2>3, <4>1
        <4> QED BY <1>0, <4>1, <4>2, NobodyChanges
      <3>3. CASE x # r /\ row.bar # NoBarcode
        <4>1. u = Disturb(request[x])
          BY <2>1, <2>3, <3>3
        <4>2. GoesGone(request[x], u)
          BY <1>0, <4>1, DisturbGoes
        <4>3. request[x] # Free
          BY <2>3, <4>2 DEF GoesGone
        <4>4. request[x] \in Sent /\ RequestGoes(request[x])
          BY <1>4, <4>3, RequestKinds
        <4> QED BY <4>2, <4>4, DisturbedGoes
      <3> QED BY <3>1, <3>2, <3>3
    <2>4. ASSUME NEW x \in Request, request'[x] # Free PROVE RequestGoes(request[x])'
      <3>1. \A u : u = request'[x] => RequestGoes(u)'
        BY <2>3, <2>4
      <3> QED BY <3>1 DEF RequestGoes, CheckGoes, ImportGoes, Passed, Rows
    <2> QED BY <2>2, <2>4
  <1>8. "created" \in Result /\ "updated" \in Result /\ "error" \in Result /\ TRUE \in BOOLEAN /\ FALSE \in BOOLEAN
    BY DEF Result
  <1>9. CASE UpdateRow(r)
    <2>1. PICK res \in {"updated", "error"} : /\ request' = [request EXCEPT ![r] = RowAnswer(q, res, TRUE)]
                                              /\ q.step = IF res = "updated" THEN "update" ELSE "gone"
      BY <1>9 DEF UpdateRow, AtRow
    <2>2. UNCHANGED <<barcodes, preview>>
      BY <1>9 DEF UpdateRow, atApi, shown
    <2>3. q.calm => /\ res = Verdict(t, n, barcodes, n + 1)
                    /\ barcodes' = IF row.valid THEN barcodes \cup ({row.bar} \ {NoBarcode}) ELSE barcodes
      <3> SUFFICES ASSUME q.calm PROVE res = Verdict(t, n, barcodes, n + 1) /\ barcodes' = barcodes \cup ({row.bar} \ {NoBarcode})
        BY <1>3
      <3>1. res = "updated" /\ row.bar \in barcodes
        BY <1>2, <1>3, <2>1 DEF ImportGoes
      <3> QED BY <1>2, <1>3, <2>2, <3>1, ThisRow
    <2>4. \A u : u = RowAnswer(q, res, TRUE) => RequestGoes(u)'
      BY <1>2, <1>3, <1>8, <2>1, <2>3, ImportRowDone
    <2>5. RowAnswer(q, res, TRUE) \in ApiRequest
      BY <1>5, <1>8, <2>1, Zenon
    <2> DEFINE v == RowAnswer(q, res, TRUE)
    <2>6. v \in ApiRequest /\ request' = [request EXCEPT ![r] = v] /\ \A u : u = v => RequestGoes(u)'
      BY <2>1, <2>4, <2>5
    <2> HIDE DEF v
    <2> QED BY <1>6, <2>2, <2>6
  <1>10. CASE CreateRow(r) /\ row.bar \in barcodes
    <2> DEFINE v == RowAnswer(q, "error", TRUE)
    <2>1. request' = [request EXCEPT ![r] = v] /\ UNCHANGED <<barcodes, preview>> /\ q.step = "create"
      BY <1>2, <1>10 DEF CreateRow, AtRow, atApi
    <2>2. ~q.calm
      BY <1>2, <1>3, <1>10, <2>1 DEF ImportGoes
    <2>3. \A u : u = v => RequestGoes(u)'
      BY <1>2, <1>3, <1>8, <2>2, ImportRowDone
    <2>4. v \in ApiRequest
      BY <1>5, <1>8, Zenon
    <2> HIDE DEF v
    <2> QED BY <1>6, <2>1, <2>3, <2>4
  <1>11. CASE CreateRow(r) /\ row.bar \notin barcodes
    <2> DEFINE v == RowAnswer(q, "created", TRUE)
    <2>1. Save(r, "created", TRUE) /\ q.step = "create"
      BY <1>2, <1>11, Zenon DEF CreateRow, AtRow
    <2>2. barcodes' = barcodes \cup ({row.bar} \ {NoBarcode})
      BY <1>2, <2>1 DEF Save
    <2>3. Verdict(t, n, barcodes, n + 1) = "created"
      BY <1>2, <1>3, <1>11, ThisRow
    <2>4. \A u : u = v => RequestGoes(u)'
      BY <1>2, <1>3, <1>8, <2>2, <2>3, ImportRowDone
    <2>5. v \in ApiRequest
      BY <1>5, <1>8, Zenon
    <2> HIDE DEF v
    <2>6. v = RowAnswer(q, "created", TRUE)
      BY DEF v
    <2> QED BY <1>7, <1>8, <2>1, <2>4, <2>5, <2>6, Zenon
  <1>12. CASE RowFails(r)
    <2> DEFINE v == RowAnswer(q, "error", FALSE)
    <2>1. \A u : u = v => RequestGoes(u)'
      BY <1>2, <1>3, <1>8, AnsweredGoes
    <2>2. v \in ApiRequest
      BY <1>5, <1>8, Zenon
    <2>3. \/ request' = [request EXCEPT ![r] = v] /\ UNCHANGED <<barcodes, preview>>
          \/ Save(r, "error", FALSE)
      BY <1>12, Zenon DEF RowFails, atApi
    <2> HIDE DEF v
    <2>4. CASE request' = [request EXCEPT ![r] = v] /\ UNCHANGED <<barcodes, preview>>
      BY <1>6, <2>1, <2>2, <2>4
    <2>5. CASE Save(r, "error", FALSE)
      <3>1. v = RowAnswer(q, "error", FALSE)
        BY DEF v
      <3> QED BY <1>7, <1>8, <2>1, <2>2, <2>5, <3>1, Zenon
    <2> QED BY <2>3, <2>4, <2>5
  <1> QED BY <1>9, <1>10, <1>11, <1>12

\* Every step keeps the invariant.
LEMMA PreviewStep == PreviewInv /\ [ImportNext]_importVars => PreviewInv'
  <1> SUFFICES ASSUME PreviewInv, [ImportNext]_importVars
               PROVE  PreviewFits' /\ \A x \in Request : request'[x] # Free => RequestGoes(request[x])'
    BY ImportKeptStep DEF PreviewInv
  <1>0. ImportKept /\ PreviewFits
    BY DEF PreviewInv
  \* Nothing is said by the requests that go on, and some end or begin.
  <1>1. ASSUME barcodes' = barcodes,
               \A x \in Request : request'[x] # Free =>
                   \/ request'[x] = request[x]
                   \/ \A u : u = request'[x] => RequestGoes(u)'
        PROVE  \A x \in Request : request'[x] # Free => RequestGoes(request[x])'
    <2> SUFFICES ASSUME NEW x \in Request, request'[x] # Free PROVE RequestGoes(request[x])'
      OBVIOUS
    <2>1. ASSUME NEW u, u = request'[x] PROVE RequestGoes(u)'
      <3>1. CASE request'[x] = request[x]
        <4>1. RequestGoes(u)
          BY <2>1, <3>1 DEF PreviewInv
        <4> QED BY <1>0, <1>1, <4>1, NobodyChanges
      <3>2. CASE \A w : w = request'[x] => RequestGoes(w)'
        BY <2>1, <3>2
      <3> QED BY <1>1, <3>1, <3>2
    <2>2. \A u : u = request'[x] => RequestGoes(u)'
      BY <2>1
    <2> QED BY <2>2 DEF RequestGoes, CheckGoes, ImportGoes, Passed, Rows
  <1>2. ASSUME barcodes' = barcodes, preview' = preview PROVE PreviewFits'
    BY <1>0, <1>2 DEF PreviewFits
  <1>3. ASSUME NEW t \in Text \cup {Nothing}, SetBox(t), barcodes' = barcodes, preview' = preview
        PROVE  PreviewFits' /\ \A x \in Request : request'[x] # Free => RequestGoes(request[x])'
    <2>1. \A x \in Request : request'[x] # Free => request'[x] = request[x]
      BY <1>3 DEF SetBox
    <2> QED BY <1>1, <1>2, <1>3, <2>1
  <1>4. ASSUME NEW r \in Request, CheckBox(r) \/ handleImport(r)
        PROVE  PreviewFits' /\ \A x \in Request : request'[x] # Free => RequestGoes(request[x])'
    <2>1. barcodes' = barcodes /\ PreviewFits'
      BY <1>2, <1>4, Zenon DEF CheckBox, handleImport, atApi
    <2>2. box # Nothing /\ box \in Text
      BY <1>0, <1>4 DEF CheckBox, handleImport, ImportKept, ImportTypeOK
    <2>3. ASSUME NEW f \in Seq(Result), NEW c \in BOOLEAN, NEW kind \in {"check", "import"},
                 request' = [request EXCEPT ![r] = NewRequest(kind, box, f, c)],
                 kind = "import" => /\ Len(f) = Len(RowsOf[box])
                                    /\ c => \A i \in 1 .. Len(f) : f[i] = Verdict(box, 0, barcodes, i)
          PROVE  \A x \in Request : request'[x] # Free => RequestGoes(request[x])'
      <3> DEFINE v == NewRequest(kind, box, f, c)
      <3>1. /\ v \in Sent /\ v.kind = kind /\ v.text = box /\ v.step = "find" /\ v.seen = {}
            /\ v.results = << >> /\ Passed(v) = 0 /\ v.foretold = f /\ (v.calm => c)
        BY <1>0, <2>2, NewOne
      <3> HIDE DEF v
      <3>2. v \in ApiRequest
        BY <3>1, SentIs
      <3>3. request'[r] = v /\ \A x \in Request : x # r => request'[x] = request[x]
        BY <1>0, <2>3, <3>2, ImportTypes DEF v
      <3>4. ASSUME NEW u, u = v PROVE RequestGoes(u)'
        <4>1. kind = "check" => CheckGoes(u)'
          BY <3>1, <3>4 DEF CheckGoes, Passed, Rows
        <4>2. ASSUME kind = "import" PROVE ImportGoes(u)'
          <5>1. Len(f) = Len(RowsOf[box]) /\ (c => \A i \in 1 .. Len(f) : f[i] = Verdict(box, 0, barcodes, i))
            BY <2>3, <4>2
          <5>2. 0 + 1 = 1
            OBVIOUS
          <5> QED BY <2>1, <3>1, <3>4, <5>1, <5>2 DEF ImportGoes, Passed, Rows
        <4> QED BY <3>1, <3>4, <4>1, <4>2 DEF RequestGoes
      <3>5. \A x \in Request : request'[x] # Free =>
                   \/ request'[x] = request[x]
                   \/ \A u : u = request'[x] => RequestGoes(u)'
        BY <3>3, <3>4
      <3> QED BY <1>1, <2>1, <3>5
    <2>4. CASE CheckBox(r)
      <3>1. request' = [request EXCEPT ![r] = NewRequest("check", box, << >>, TRUE)]
        BY <2>4 DEF CheckBox
      <3>2. << >> \in Seq(Result) /\ TRUE \in BOOLEAN
        BY EmptySeq
      <3>3. \A f \in Seq(Result), c \in BOOLEAN : request' = [request EXCEPT ![r] = NewRequest("check", box, f, c)] =>
                 \A x \in Request : request'[x] # Free => RequestGoes(request[x])'
        BY <2>3
      <3>4. \A x \in Request : request'[x] # Free => RequestGoes(request[x])'
        BY <3>1, <3>2, <3>3, Zenon
      <3> QED BY <2>1, <3>4
    <2>5. CASE handleImport(r)
      <3>1. request' = [request EXCEPT ![r] = NewRequest("import", box, preview.results, preview.calm)]
            /\ preview.text = box
        BY <2>5 DEF handleImport, canImport
      <3>2. preview.results \in Seq(Result) /\ preview.calm \in BOOLEAN
        BY <1>0, ImportTypes, Zenon DEF Checked
      <3>3. /\ Len(preview.results) = Len(RowsOf[box])
            /\ preview.calm => \A i \in 1 .. Len(preview.results) : preview.results[i] = Verdict(box, 0, barcodes, i)
        BY <1>0, <2>2, <3>1 DEF PreviewFits
      <3>4. \A x \in Request : request'[x] # Free => RequestGoes(request[x])'
        BY <2>3, <3>1, <3>2, <3>3
      <3> QED BY <2>1, <3>4
    <2> QED BY <1>4, <2>4, <2>5
  <1>5. ASSUME NEW r \in Request, CheckAnswered(r)
        PROVE  PreviewFits' /\ \A x \in Request : request'[x] # Free => RequestGoes(request[x])'
    <2> DEFINE q == request[r]
    <2>1. /\ q # Free /\ q.kind = "check" /\ Len(q.results) = Len(RowsOf[q.text]) /\ barcodes' = barcodes
          /\ preview' = [text |-> q.text, results |-> q.results, calm |-> q.calm]
          /\ request' = [request EXCEPT ![r] = Free]
      BY <1>5 DEF CheckAnswered, Done, atApi
    <2>2. CheckGoes(q)
      BY <2>1 DEF PreviewInv, RequestGoes
    <2>3. preview'.text = q.text /\ preview'.results = q.results /\ preview'.calm = q.calm
      BY <2>1
    <2>4. preview'.calm => q.calm
      BY <2>3
    <2>5. PreviewFits'
      BY <2>1, <2>2, <2>3, <2>4 DEF PreviewFits, CheckGoes, Passed
    <2>6. \A x \in Request : request'[x] # Free => request'[x] = request[x]
      BY <1>0, <2>1, ImportTypes
    <2> QED BY <1>1, <2>1, <2>5, <2>6
  <1>6. ASSUME NEW r \in Request, CheckFails(r) \/ ImportAnswered(r) \/ NobodyWaits(r)
        PROVE  PreviewFits' /\ \A x \in Request : request'[x] # Free => RequestGoes(request[x])'
    <2>1. request' = [request EXCEPT ![r] = Free] /\ barcodes' = barcodes /\ preview' = preview
      BY <1>6 DEF CheckFails, ImportAnswered, NobodyWaits, atApi, shown
    <2>2. \A x \in Request : request'[x] # Free => request'[x] = request[x]
      BY <1>0, <2>1, ImportTypes
    <2> QED BY <1>1, <1>2, <2>1, <2>2
  \* The page does not wait for the import any more.
  <1>7. ASSUME NEW x \in Request, request[x] # Free, NEW u, u = [request[x] EXCEPT !.here = FALSE], barcodes' = barcodes
        PROVE  RequestGoes(u)'
    <2>1. request[x] \in Sent /\ RequestGoes(request[x])
      BY <1>0, <1>7, RequestKinds, ImportTypes DEF PreviewInv
    <2>2. /\ u.kind = request[x].kind /\ u.text = request[x].text /\ u.results = request[x].results
          /\ u.step = request[x].step /\ u.seen = request[x].seen /\ u.foretold = request[x].foretold
          /\ u.calm = request[x].calm
      BY <1>7, <2>1 DEF Sent
    <2>3. u.calm <=> request[x].calm
      BY <2>2
    <2> HIDE <1>7
    <2>4. RequestGoes(u)
      BY <2>1, <2>2, <2>3 DEF RequestGoes, CheckGoes, ImportGoes, Passed, Rows
    <2> QED BY <1>0, <1>7, <2>4, NobodyChanges
  <1>8. ASSUME NEW r \in Request, ImportUnanswered(r)
        PROVE  PreviewFits' /\ \A x \in Request : request'[x] # Free => RequestGoes(request[x])'
    <2> DEFINE h == [request[r] EXCEPT !.here = FALSE]
    <2>1. barcodes' = barcodes /\ preview' = preview /\ request[r] # Free
          /\ (request' = [request EXCEPT ![r] = h] \/ request' = [request EXCEPT ![r] = Free])
      BY <1>0, <1>8, RequestKinds, ImportTypes DEF ImportUnanswered, atApi
    <2>2. \A u : u = h => RequestGoes(u)'
      BY <1>7, <2>1
    <2> HIDE DEF h
    <2>3. \A x \in Request : request'[x] # Free =>
                   \/ request'[x] = request[x]
                   \/ \A u : u = request'[x] => RequestGoes(u)'
      BY <1>0, <2>1, <2>2, ImportTypes
    <2> QED BY <1>1, <1>2, <2>1, <2>3
  <1>9. ASSUME NEW r \in Request, FindRow(r)
        PROVE  PreviewFits' /\ \A x \in Request : request'[x] # Free => RequestGoes(request[x])'
    <2>1. barcodes' = barcodes /\ preview' = preview
      BY <1>9 DEF FindRow, atApi, shown
    <2>2. \A u : u = request'[r] => RequestGoes(u)'
      BY <1>9, FindsGoes
    <2>3. \A x \in Request : x # r => request'[x] = request[x]
      BY <1>0, <1>9, FindsRow, OneRequest, ImportTypes
    <2>4. \A x \in Request : request'[x] # Free =>
                   \/ request'[x] = request[x]
                   \/ \A u : u = request'[x] => RequestGoes(u)'
      BY <2>2, <2>3
    <2> QED BY <1>1, <1>2, <2>1, <2>4
  <1>10. ASSUME ReloadPage
         PROVE  PreviewFits' /\ \A x \in Request : request'[x] # Free => RequestGoes(request[x])'
    <2> DEFINE h(x) == [request[x] EXCEPT !.here = FALSE]
    <2>1. barcodes' = barcodes /\ preview' = NoFile
          /\ request' = [x \in Request |-> IF request[x].kind = "import" THEN h(x) ELSE Free]
      BY <1>10 DEF ReloadPage, atApi
    <2>2. PreviewFits'
      BY <2>1 DEF PreviewFits, NoFile
    <2>3. ASSUME NEW x \in Request, request'[x] # Free PROVE \A u : u = request'[x] => RequestGoes(u)'
      <3>1. request[x].kind = "import" /\ request'[x] = h(x)
        BY <2>1, <2>3
      <3>2. request[x] # Free
        BY <1>0, <3>1, RequestKinds, ImportTypes
      <3>3. \A u : u = h(x) => RequestGoes(u)'
        BY <1>7, <2>1, <3>2
      <3> HIDE DEF h
      <3> QED BY <3>1, <3>3
    <2>4. \A x \in Request : request'[x] # Free =>
                   \/ request'[x] = request[x]
                   \/ \A u : u = request'[x] => RequestGoes(u)'
      BY <2>3
    <2> QED BY <1>1, <2>1, <2>2, <2>4
  <1>11. ASSUME NEW b \in Barcode, OtherTakesBarcode(b) \/ OtherFreesBarcode(b)
         PROVE  PreviewFits' /\ \A x \in Request : request'[x] # Free => RequestGoes(request[x])'
    <2>1. PreviewFits'
      BY <1>0, <1>11, PreviewChanges DEF OtherTakesBarcode, OtherFreesBarcode
    <2>2. ASSUME NEW x \in Request, request'[x] # Free PROVE RequestGoes(request[x])'
      <3>1. GoesGone(request[x], request'[x])
        BY <1>0, <1>11, OthersDisturb
      <3>2. request[x] # Free
        BY <2>2, <3>1 DEF GoesGone
      <3>3. request[x] \in Sent /\ RequestGoes(request[x])
        BY <1>0, <3>2, RequestKinds, ImportTypes DEF PreviewInv
      <3>4. \A u : u = request'[x] => RequestGoes(u)'
        BY <3>1, <3>3, DisturbedGoes
      <3> QED BY <3>4 DEF RequestGoes, CheckGoes, ImportGoes, Passed, Rows
    <2> QED BY <2>1, <2>2
  <1>12. ASSUME UNCHANGED <<barcodes, preview, request>>
         PROVE  PreviewFits' /\ \A x \in Request : request'[x] # Free => RequestGoes(request[x])'
    BY <1>1, <1>2, <1>12
  <1>13. ASSUME NEW t \in Text \cup {Nothing}, PutInBox(t)
         PROVE  PreviewFits' /\ \A x \in Request : request'[x] # Free => RequestGoes(request[x])'
    <2>1. SetBox(t) /\ barcodes' = barcodes /\ preview' = preview
      BY <1>13 DEF PutInBox, atApi
    <2> QED BY <1>3, <2>1
  <1>14. ASSUME NEW t \in Excel, Converted(t)
         PROVE  PreviewFits' /\ \A x \in Request : request'[x] # Free => RequestGoes(request[x])'
    <2>1. SetBox(t) /\ barcodes' = barcodes /\ preview' = preview /\ t \in Text
      BY <1>14, ImportAssumption DEF Converted, atApi
    <2> QED BY <1>3, <2>1
  <1>15. ASSUME NEW t \in Excel, ChooseExcel(t) \/ NotConverted(t)
         PROVE  PreviewFits' /\ \A x \in Request : request'[x] # Free => RequestGoes(request[x])'
    <2>1. UNCHANGED <<barcodes, preview, request>>
      BY <1>15 DEF ChooseExcel, NotConverted, atApi, shown
    <2> QED BY <1>12, <2>1
  <1>16. CASE UNCHANGED importVars
    <2>1. UNCHANGED <<barcodes, preview, request>>
      BY <1>16 DEF importVars
    <2> QED BY <1>12, <2>1
  <1>17. ASSUME NEW r \in Request, UpdateRow(r) \/ CreateRow(r) \/ RowFails(r)
         PROVE  PreviewFits' /\ \A x \in Request : request'[x] # Free => RequestGoes(request[x])'
    BY <1>17, RowGoes
  <1> QED BY <1>4, <1>5, <1>6, <1>8, <1>9, <1>10, <1>11, <1>13, <1>14, <1>15, <1>16, <1>17, Zenon DEF ImportNext

\* At first nothing has been said.
LEMMA PreviewInit == ImportInit => PreviewInv
  <1> SUFFICES ASSUME ImportInit PROVE PreviewInv
    OBVIOUS
  <1>1. preview.text = Nothing /\ \A r \in Request : request[r] = Free
    BY DEF ImportInit, EmptyPage, NoFile
  <1> QED BY <1>1, ImportKeptInit DEF PreviewInv, PreviewFits

\* For any catalogue, any files, any number of requests, other admins and mishaps.
THEOREM ImportInvariant == ImportSpec => []PreviewInv
  BY PreviewInit, PreviewStep, PTL DEF ImportSpec

\* Page, requests and history hold values of their types; one import is awaited at
\* most, and one check, of what is in the box.
THEOREM ImportTyped == ImportSpec => []ImportTypeOK
  <1>1. PreviewInv => ImportTypeOK
    BY DEF PreviewInv, ImportKept
  <1> QED BY <1>1, ImportInvariant, PTL

\* However requests, other admins and mishaps overlap: a dry run and the import of
\* its text agree on every row, unless the catalogue changed or a row met a mishap
\* (bulkImport.ts: "so they always agree").
THEOREM PreviewTrue == ImportSpec => []PreviewIsTrue
  <1>1. PreviewInv => PreviewIsTrue
    <2> SUFFICES ASSUME PreviewInv, NEW r \in Request, Done(r), request[r].kind = "import", request[r].calm
                 PROVE  request[r].results = request[r].foretold
      BY DEF PreviewIsTrue
    <2> DEFINE q == request[r]
    <2>1. q # Free /\ Len(q.results) = Len(Rows(q))
      BY DEF Done, Rows
    <2>2. q \in Sent /\ ImportGoes(q)
      BY <2>1, RequestKinds, ImportTypes DEF PreviewInv, RequestGoes
    <2>3. q.results \in Seq(Result) /\ q.foretold \in Seq(Result) /\ Len(q.foretold) = Len(q.results)
      BY <2>1, <2>2 DEF Sent, ImportGoes
    <2>4. \A i \in 1 .. Len(q.results) : q.results[i] = q.foretold[i]
      BY <2>2 DEF ImportGoes, Passed
    <2> HIDE DEF q
    <2>5. q.results = q.foretold
      BY <2>3, <2>4, SeqEqual
    <2> QED BY <2>5 DEF q
  <1> QED BY <1>1, ImportInvariant, PTL

(* How often a row creates a product. *)

\* Imports of a text that have not come to row i.
Pend(t, i) == {r \in Request : request[r] # Free /\ request[r].kind = "import" /\ request[r].text = t /\ Passed(request[r]) < i}

\* The page knows of an import of the text.
Sight(t) == IF importedText = t \/ \E r \in Request : Awaited(r) /\ request[r].text = t THEN 1 ELSE 0

\* A row has created as many products as imports of it that the page forgot, and one
\* for the import it knows of; imports that have not come to the row count as well.
Counted(t, i) == created[t][i] + Cardinality(Pend(t, i)) <= forgotten[t] + Sight(t)

\* The inductive invariant of what has been created.
AgainInv == ImportKept /\ \A t \in Text : \A i \in DOMAIN RowsOf[t] : Counted(t, i)

\* Requests can be counted.
LEMMA PendIsFinite == ASSUME NEW P, P \subseteq Request
    PROVE IsFiniteSet(P) /\ Cardinality(P) \in Nat
  BY ImportAssumption, FS_Subset, FS_CardinalityType

\* A part has no more.
LEMMA Fewer == ASSUME NEW P, NEW Q, Q \subseteq Request, P \subseteq Q
    PROVE Cardinality(P) \in Nat /\ Cardinality(Q) \in Nat /\ Cardinality(P) <= Cardinality(Q)
  BY PendIsFinite, FS_Subset

\* Without one of them there is one less.
LEMMA OneLess == ASSUME NEW P, NEW Q, Q \subseteq Request, NEW r \in Q, P \subseteq Q \ {r}
    PROVE Cardinality(P) \in Nat /\ Cardinality(Q) \in Nat /\ Cardinality(P) + 1 <= Cardinality(Q)
  <1>1. Cardinality(Q \ {r}) = Cardinality(Q) - 1
    BY PendIsFinite, FS_RemoveElement
  <1>2. Cardinality(P) <= Cardinality(Q \ {r}) /\ Cardinality(P) \in Nat /\ Cardinality(Q) \in Nat
    BY Fewer, PendIsFinite
  <1> QED BY <1>1, <1>2

\* With another one there is one more at most.
LEMMA OneMore == ASSUME NEW P, NEW Q, Q \subseteq Request, NEW r \in Request, P \subseteq Q \cup {r}
    PROVE Cardinality(P) \in Nat /\ Cardinality(Q) \in Nat /\ Cardinality(P) <= Cardinality(Q) + 1
  <1>1. Q \cup {r} \subseteq Request
    OBVIOUS
  <1>2. Cardinality(P) <= Cardinality(Q \cup {r}) /\ Cardinality(P) \in Nat
    BY <1>1, Fewer
  <1>3. IsFiniteSet(Q) /\ Cardinality(Q) \in Nat
    BY PendIsFinite
  <1>4. Cardinality(Q \cup {r}) = IF r \in Q THEN Cardinality(Q) ELSE Cardinality(Q) + 1
    BY <1>3, FS_AddElement
  <1> QED BY <1>2, <1>3, <1>4

\* Nothing is created, and the page knows of what it knew of, or has lost sight of it.
LEMMA CountKept ==
    ASSUME ImportKept, ImportKept', NEW t \in Text, NEW i \in DOMAIN RowsOf[t], Counted(t, i),
           created'[t][i] <= created[t][i], Pend(t, i)' \subseteq Pend(t, i),
           forgotten'[t] + Sight(t)' >= forgotten[t] + Sight(t)
    PROVE Counted(t, i)'
  <1>1. Pend(t, i) \subseteq Request
    BY DEF Pend
  <1>2. /\ Cardinality(Pend(t, i)') \in Nat /\ Cardinality(Pend(t, i)) \in Nat
        /\ Cardinality(Pend(t, i)') <= Cardinality(Pend(t, i))
    BY <1>1, Fewer
  <1>3. /\ created[t][i] \in Nat /\ forgotten[t] \in Nat
        /\ created'[t][i] \in Nat /\ forgotten'[t] \in Nat
    BY DEF ImportKept, ImportTypeOK
  <1>4. Sight(t) \in {0, 1} /\ Sight(t)' \in {0, 1}
    BY DEF Sight
  <1>5. created[t][i] + Cardinality(Pend(t, i)) <= forgotten[t] + Sight(t)
    BY DEF Counted
  <1>6. created'[t][i] + Cardinality(Pend(t, i)') <= forgotten'[t] + Sight(t)'
    BY <1>2, <1>3, <1>4, <1>5
  <1> QED BY <1>6 DEF Counted

\* Requests that go on: nobody's import comes back to a row, or out of sight.
LEMMA PendContinues ==
    ASSUME ImportKept, ImportKept', importedText' = importedText, NEW t \in Text, NEW i \in DOMAIN RowsOf[t],
           \A x \in Request : Continues(request[x], request'[x]) \/ request'[x] = request[x]
    PROVE Pend(t, i)' \subseteq Pend(t, i) /\ Sight(t)' = Sight(t)
  <1>1. i \in Nat
    BY RowsTyped
  <1>2. ASSUME NEW x \in Pend(t, i)' PROVE x \in Pend(t, i)
    <2>1. x \in Request /\ request'[x] # Free /\ request'[x].kind = "import" /\ request'[x].text = t /\ Passed(request'[x]) < i
      BY <1>2 DEF Pend, Passed
    <2>2. CASE Continues(request[x], request'[x])
      <3>1. /\ request[x] # Free /\ request[x].kind = "import" /\ request[x].text = t
            /\ Passed(request[x]) <= Passed(request'[x])
        BY <2>1, <2>2 DEF Continues
      <3>2. Passed(request[x]) \in Nat /\ Passed(request'[x]) \in Nat
        <4>1. request[x] \in ApiRequest /\ request'[x] \in ApiRequest
          BY <2>1 DEF ImportKept, ImportTypeOK
        <4>2. \A q \in ApiRequest : q # Free => Passed(q) \in Nat
          BY RequestKinds DEF Sent, Passed
        <4> QED BY <2>1, <3>1, <4>1, <4>2
      <3> QED BY <1>1, <2>1, <3>1, <3>2 DEF Pend
    <2>3. CASE request'[x] = request[x]
      BY <2>1, <2>3 DEF Pend
    <2> QED BY <2>1, <2>2, <2>3
  <1>3. \A x \in Request : Awaited(x)' /\ request'[x].text = t <=> Awaited(x) /\ request[x].text = t
    BY DEF Continues, Awaited
  <1> QED BY <1>2, <1>3 DEF Sight

\* No step but these three forgets an import, begins one or creates a product.
LEMMA CountContinues ==
    ASSUME AgainInv, ImportKept', importedText' = importedText, created' = created, forgotten' = forgotten,
           \A x \in Request : Continues(request[x], request'[x]) \/ request'[x] = request[x],
           NEW t \in Text, NEW i \in DOMAIN RowsOf[t]
    PROVE Counted(t, i)'
  <1>1. ImportKept /\ Counted(t, i)
    BY DEF AgainInv
  <1>2. Pend(t, i)' \subseteq Pend(t, i) /\ Sight(t)' = Sight(t)
    BY <1>1, PendContinues
  <1>3. /\ created'[t][i] = created[t][i] /\ created[t][i] \in Nat
        /\ forgotten'[t] = forgotten[t] /\ forgotten[t] \in Nat /\ Sight(t) \in {0, 1}
    BY <1>1 DEF ImportKept, ImportTypeOK, Sight
  <1>4. created'[t][i] <= created[t][i] /\ forgotten'[t] + Sight(t)' >= forgotten[t] + Sight(t)
    BY <1>2, <1>3
  <1> QED BY <1>1, <1>2, <1>4, CountKept

\* A row that creates a product has been come to.
LEMMA RowCounted ==
    ASSUME AgainInv, ImportKept', NEW r \in Request, AtRow(r, "create"), request[r].kind = "import",
           NEW res \in Result, NEW c \in BOOLEAN, Save(r, res, c),
           importedText' = importedText, forgotten' = forgotten,
           NEW t \in Text, NEW i \in DOMAIN RowsOf[t]
    PROVE Counted(t, i)'
  <1> DEFINE q == request[r]
             n == Len(q.results) + 1
  <1>1. ImportKept /\ Counted(t, i) /\ q # Free /\ ~Done(r)
    BY DEF AgainInv, AtRow
  <1>2. \A x \in Request : Continues(request[x], request'[x]) \/ request'[x] = request[x]
    BY <1>1, SaveKeeps
  <1>3. Pend(t, i)' \subseteq Pend(t, i) /\ Sight(t)' = Sight(t)
    BY <1>1, <1>2, PendContinues
  <1>4. q \in Sent /\ q.text \in Text /\ Passed(q) \in Nat /\ n \in 1 .. Len(RowsOf[q.text]) /\ n = Passed(q) + 1
    BY <1>1, AtItsRow DEF Passed, Rows
  <1>5. created' = [created EXCEPT ![q.text][n] = @ + 1]
    BY DEF Save
  <1>6. /\ created = [u \in Text |-> created[u]] /\ created[t] \in [DOMAIN RowsOf[t] -> Nat]
        /\ forgotten[t] \in Nat /\ Sight(t) \in {0, 1}
    BY <1>1 DEF ImportKept, ImportTypeOK, Sight
  <1>7. forgotten'[t] + Sight(t)' >= forgotten[t] + Sight(t)
    BY <1>3, <1>6
  <1>8. CASE t = q.text /\ i = n
    <2>1. created'[t][i] = created[t][i] + 1 /\ created[t][i] \in Nat
      BY <1>4, <1>5, <1>6, <1>8
    <2>2. r \in Pend(t, i)
      BY <1>1, <1>4, <1>8 DEF Pend
    <2>3. r \notin Pend(t, i)'
      <3>1. request' = [x \in Request |-> IF x = r THEN RowAnswer(q, res, c)
                                          ELSE IF Row(q).bar = NoBarcode THEN request[x] ELSE Disturb(request[x])]
        BY DEF Save
      <3>2. request'[r] = RowAnswer(q, res, c)
        BY <3>1
      <3>3. Passed(request'[r]) = n
        BY <1>4, <3>2, RowAnswered
      <3>4. ~(Passed(request'[r]) < i)
        BY <1>4, <1>8, <3>3
      <3> QED BY <3>4 DEF Pend, Passed
    <2>4. Pend(t, i)' \subseteq Pend(t, i) \ {r} /\ Pend(t, i) \subseteq Request
      BY <1>3, <2>3 DEF Pend
    <2>5. /\ Cardinality(Pend(t, i)') \in Nat /\ Cardinality(Pend(t, i)) \in Nat
          /\ Cardinality(Pend(t, i)') + 1 <= Cardinality(Pend(t, i))
      BY <2>2, <2>4, OneLess
    <2>6. created[t][i] + Cardinality(Pend(t, i)) <= forgotten[t] + Sight(t)
      BY <1>1 DEF Counted
    <2>7. created'[t][i] + Cardinality(Pend(t, i)') <= forgotten'[t] + Sight(t)'
      BY <1>6, <1>7, <1>3, <2>1, <2>5, <2>6
    <2> QED BY <2>7 DEF Counted
  <1>9. CASE ~(t = q.text /\ i = n)
    <2>1. created'[t][i] = created[t][i] /\ created[t][i] \in Nat
      <3>1. created[q.text] \in [DOMAIN RowsOf[q.text] -> Nat]
        BY <1>1, <1>4 DEF ImportKept, ImportTypeOK
      <3>2. created'[q.text] = [created[q.text] EXCEPT ![n] = @ + 1] /\ (t # q.text => created'[t] = created[t])
        BY <1>4, <1>5, <1>6
      <3>3. CASE t # q.text
        BY <1>6, <3>2, <3>3
      <3>4. CASE t = q.text /\ i # n
        BY <1>6, <3>1, <3>2, <3>4
      <3> QED BY <1>9, <3>3, <3>4
    <2>2. created'[t][i] <= created[t][i]
      BY <2>1
    <2> QED BY <1>1, <1>3, <1>7, <2>2, CountKept
  <1> QED BY <1>8, <1>9

\* An import begins: the page knew of none of its text.
LEMMA CountBegins ==
    ASSUME AgainInv, ImportKept', NEW r \in Request, handleImport(r), NEW t \in Text, NEW i \in DOMAIN RowsOf[t]
    PROVE Counted(t, i)'
  <1> DEFINE v == NewRequest("import", box, preview.results, preview.calm)
  <1>1. ImportKept /\ Counted(t, i) /\ i \in Nat /\ i > 0
    BY RowsTyped DEF AgainInv
  <1>2. box # Nothing /\ box \in Text /\ importedText # box /\ ~importing /\ request[r] = Free /\ importedText' = importedText
        /\ created' = created /\ forgotten' = forgotten
    BY <1>1 DEF handleImport, canImport, FreePlace, atApi, ImportKept, ImportTypeOK
  <1>3. /\ v \in Sent /\ v.kind = "import" /\ v.text = box /\ Passed(v) = 0 /\ v.here
    <2>1. preview.results \in Seq(Result) /\ preview.calm \in BOOLEAN
      BY <1>1, ImportTypes, Zenon DEF Checked
    <2>2. \A f \in Seq(Result), c \in BOOLEAN : LET w == NewRequest("import", box, f, c)
             IN w \in Sent /\ w.kind = "import" /\ w.text = box /\ Passed(w) = 0 /\ w.here
      BY <1>1, <1>2, NewOne
    <2> QED BY <2>1, <2>2, Zenon
  <1>4. request' = [request EXCEPT ![r] = v] /\ request \in [Request -> ApiRequest]
    BY <1>1, ImportTypes DEF handleImport
  <1> HIDE DEF v
  <1>5. request'[r] = v /\ v # Free /\ \A x \in Request : x # r => request'[x] = request[x]
    BY <1>3, <1>4, SentIs
  <1>6. \A x \in Request : ~Awaited(x)
    BY <1>1, <1>2 DEF ImportKept, ImportTypeOK, Awaited
  <1>7. /\ created'[t][i] = created[t][i] /\ created[t][i] \in Nat
        /\ forgotten'[t] = forgotten[t] /\ forgotten[t] \in Nat /\ Sight(t) \in {0, 1} /\ Sight(t)' \in {0, 1}
    BY <1>1, <1>2 DEF ImportKept, ImportTypeOK, Sight
  <1>8. CASE t = box
    <2>1. Sight(t) = 0
      BY <1>2, <1>6, <1>8 DEF Sight
    <2>2. Sight(t)' = 1
      BY <1>3, <1>5, <1>8 DEF Sight, Awaited
    <2>3. Pend(t, i)' \subseteq Pend(t, i) \cup {r} /\ Pend(t, i) \subseteq Request
      BY <1>5 DEF Pend, Passed
    <2>4. /\ Cardinality(Pend(t, i)') \in Nat /\ Cardinality(Pend(t, i)) \in Nat
          /\ Cardinality(Pend(t, i)') <= Cardinality(Pend(t, i)) + 1
      BY <2>3, OneMore
    <2>5. created[t][i] + Cardinality(Pend(t, i)) <= forgotten[t] + Sight(t)
      BY <1>1 DEF Counted
    <2>6. created'[t][i] + Cardinality(Pend(t, i)') <= forgotten'[t] + Sight(t)'
      BY <1>7, <2>1, <2>2, <2>4, <2>5
    <2> QED BY <2>6 DEF Counted
  <1>9. CASE t # box
    <2>1. Pend(t, i)' \subseteq Pend(t, i)
      BY <1>3, <1>5, <1>9 DEF Pend, Passed
    <2>2. Sight(t)' = Sight(t)
      BY <1>2, <1>3, <1>5, <1>6, <1>9 DEF Sight, Awaited
    <2>3. created'[t][i] <= created[t][i] /\ forgotten'[t] + Sight(t)' >= forgotten[t] + Sight(t)
      BY <1>7, <2>2
    <2> QED BY <1>1, <2>1, <2>3, CountKept
  <1> QED BY <1>8, <1>9

\* The page is told of an import, loses sight of it, or is loaded again.
LEMMA CountForgets ==
    ASSUME AgainInv, ImportKept', (\E r \in Request : ImportAnswered(r) \/ ImportUnanswered(r)) \/ ReloadPage,
           NEW t \in Text, NEW i \in DOMAIN RowsOf[t]
    PROVE Counted(t, i)'
  <1>1. ImportKept /\ Counted(t, i)
    BY DEF AgainInv
  <1>2. /\ created'[t][i] = created[t][i] /\ created[t][i] \in Nat
        /\ forgotten[t] \in Nat /\ Sight(t) \in {0, 1} /\ Sight(t)' \in {0, 1}
        /\ request \in [Request -> ApiRequest] /\ forgotten \in [Text -> Nat]
    BY <1>1 DEF ImportKept, ImportTypeOK, Sight, ImportAnswered, ImportUnanswered, ReloadPage, atApi
  <1> SUFFICES Pend(t, i)' \subseteq Pend(t, i) /\ forgotten'[t] + Sight(t)' >= forgotten[t] + Sight(t)
    <2>1. created'[t][i] <= created[t][i]
      BY <1>2
    <2> QED BY <1>1, <2>1, CountKept
  <1> DEFINE h(x) == [request[x] EXCEPT !.here = FALSE]
  <1>3. ASSUME NEW x \in Request, request[x] # Free
        PROVE  h(x).kind = request[x].kind /\ h(x).text = request[x].text /\ Passed(h(x)) = Passed(request[x])
    <2>1. request[x] \in Sent
      BY <1>2, <1>3, RequestKinds
    <2> QED BY <2>1 DEF Sent, Passed
  <1>4. ASSUME NEW r \in Request, ImportAnswered(r)
        PROVE  Pend(t, i)' \subseteq Pend(t, i) /\ forgotten'[t] + Sight(t)' >= forgotten[t] + Sight(t)
    <2> DEFINE q == request[r]
    <2>1. /\ q # Free /\ q.kind = "import" /\ q.here /\ importedText' = q.text
          /\ request' = [request EXCEPT ![r] = Free]
          /\ Forget(IF importedText = q.text THEN Nothing ELSE importedText)
      BY <1>4 DEF ImportAnswered, Done
    <2>2. request'[r] = Free /\ \A x \in Request : x # r => request'[x] = request[x]
      BY <1>2, <2>1
    <2>3. Pend(t, i)' \subseteq Pend(t, i)
      BY <2>2 DEF Pend, Passed
    <2>4. \A x \in Request : Awaited(x) => x = r
      BY <1>1, <2>1 DEF ImportKept, OneAwaited, Awaited
    <2>5. CASE t = q.text
      <3>1. Sight(t)' = 1
        BY <2>1, <2>5 DEF Sight
      <3>2. forgotten'[t] >= forgotten[t] /\ forgotten'[t] \in Nat
        BY <1>2, <2>1, ImportAssumption DEF Forget
      <3> QED BY <1>2, <2>3, <3>1, <3>2
    <2>6. CASE t # q.text /\ importedText = t
      <3>1. forgotten'[t] = forgotten[t] + 1
        BY <1>2, <2>1, <2>6 DEF Forget
      <3> QED BY <1>2, <2>3, <3>1
    <2>7. CASE t # q.text /\ importedText # t
      <3>1. Sight(t) = 0
        BY <2>4, <2>7 DEF Sight
      <3>2. forgotten'[t] = forgotten[t]
        <4> DEFINE u == IF importedText = q.text THEN Nothing ELSE importedText
        <4>1. u # t
          BY <2>7, ImportAssumption
        <4>2. Forget(u)
          BY <2>1
        <4> HIDE DEF u
        <4> QED BY <1>2, <4>1, <4>2 DEF Forget
      <3> QED BY <1>2, <2>3, <3>1, <3>2
    <2> QED BY <2>3, <2>5, <2>6, <2>7
  <1>5. ASSUME NEW r \in Request, ImportUnanswered(r)
        PROVE  Pend(t, i)' \subseteq Pend(t, i) /\ forgotten'[t] + Sight(t)' >= forgotten[t] + Sight(t)
    <2> DEFINE q == request[r]
    <2>1. /\ q.kind = "import" /\ q.here /\ importedText' = importedText /\ Forget(q.text)
          /\ request' = [request EXCEPT ![r] = h(r)] \/ request' = [request EXCEPT ![r] = Free]
      BY <1>5 DEF ImportUnanswered
    <2>2. q # Free /\ q.text \in Text
      <3>1. q \in Sent
        BY <1>2, <2>1, RequestKinds
      <3> QED BY <3>1, SentIs DEF Sent
    <2>3. /\ request'[r] \in {h(r), Free}
          /\ \A x \in Request : x # r => request'[x] = request[x]
      <3> HIDE DEF h
      <3> QED BY <1>2, <2>1
    <2>4. Pend(t, i)' \subseteq Pend(t, i)
      <3>1. \A x \in Pend(t, i)' : x \in Request /\ request'[x] # Free /\ request'[x].kind = "import"
                                   /\ request'[x].text = t /\ Passed(request'[x]) < i
        BY DEF Pend, Passed
      <3>2. /\ h(r).kind = request[r].kind /\ h(r).text = request[r].text /\ Passed(h(r)) = Passed(request[r])
        BY <1>3, <2>2
      <3> HIDE DEF h
      <3> QED BY <2>2, <2>3, <3>1, <3>2 DEF Pend
    <2>5. CASE t = q.text
      <3>1. forgotten'[t] = forgotten[t] + 1
        BY <1>2, <2>1, <2>5 DEF Forget
      <3> QED BY <1>2, <2>4, <3>1
    <2>6. CASE t # q.text
      <3>1. forgotten'[t] = forgotten[t]
        BY <1>2, <2>1, <2>2, <2>6 DEF Forget
      <3>2. \A x \in Request : Awaited(x) => x = r
        BY <1>1, <2>1, <2>2 DEF ImportKept, OneAwaited, Awaited
      <3>3. Sight(t)' >= Sight(t)
        <4>1. Sight(t) = IF importedText = t THEN 1 ELSE 0
          BY <3>2, <2>6 DEF Sight
        <4> QED BY <1>2, <2>1, <4>1 DEF Sight
      <3> QED BY <1>2, <2>4, <3>1, <3>3
    <2> QED BY <2>5, <2>6
  <1>6. ASSUME ReloadPage
        PROVE  Pend(t, i)' \subseteq Pend(t, i) /\ forgotten'[t] + Sight(t)' >= forgotten[t] + Sight(t)
    <2> DEFINE A == {request[r].text : r \in {q \in Request : request[q].kind = "import" /\ request[q].here}}
    <2>1. /\ forgotten' = [u \in Text |-> IF u = importedText \/ u \in A THEN forgotten[u] + 1 ELSE forgotten[u]]
          /\ request' = [r \in Request |-> IF request[r].kind = "import" THEN h(r) ELSE Free]
      BY <1>6 DEF ReloadPage
    <2>2. Pend(t, i)' \subseteq Pend(t, i)
      <3> SUFFICES ASSUME NEW x \in Pend(t, i)' PROVE x \in Pend(t, i)
        OBVIOUS
      <3>1. x \in Request /\ request'[x] # Free /\ request'[x].kind = "import"
            /\ request'[x].text = t /\ Passed(request'[x]) < i
        BY DEF Pend, Passed
      <3>2. request[x].kind = "import" /\ request'[x] = h(x)
        BY <2>1, <3>1
      <3>3. request[x] # Free
        BY <1>2, <3>1, <3>2, RequestKinds
      <3>4. /\ h(x).kind = request[x].kind /\ h(x).text = request[x].text /\ Passed(h(x)) = Passed(request[x])
        BY <1>3, <3>1, <3>3
      <3> HIDE DEF h
      <3> QED BY <3>1, <3>2, <3>3, <3>4 DEF Pend
    <2>3. CASE Sight(t) = 0
      <3>1. forgotten'[t] >= forgotten[t]
        BY <1>2, <2>1
      <3>2. forgotten'[t] \in Nat
        BY <1>2, <2>1
      <3> QED BY <1>2, <2>2, <2>3, <3>1, <3>2
    <2>4. CASE Sight(t) = 1
      <3>1. t = importedText \/ t \in A
        BY <2>4 DEF Sight, Awaited
      <3>2. forgotten'[t] = forgotten[t] + 1
        BY <2>1, <3>1
      <3> QED BY <1>2, <2>2, <3>2
    <2> QED BY <1>2, <2>3, <2>4
  <1> QED BY <1>4, <1>5, <1>6

\* At first nothing has been created.
LEMMA AgainInit == ImportInit => AgainInv
  <1> SUFFICES ASSUME ImportInit, NEW t \in Text, NEW i \in DOMAIN RowsOf[t] PROVE Counted(t, i)
    BY ImportKeptInit DEF AgainInv
  <1>1. created[t][i] = 0 /\ forgotten[t] = 0
    BY DEF ImportInit
  <1>2. Pend(t, i) = {}
    BY DEF ImportInit, Pend
  <1>3. Cardinality(Pend(t, i)) = 0
    BY <1>2, FS_EmptySet, Zenon
  <1>4. Sight(t) \in {0, 1}
    BY DEF Sight
  <1>5. created[t][i] + Cardinality(Pend(t, i)) <= forgotten[t] + Sight(t)
    BY <1>1, <1>3, <1>4
  <1> QED BY <1>5 DEF Counted

\* Every step keeps the count.
LEMMA AgainStep == PreviewInv /\ AgainInv /\ [ImportNext]_importVars => AgainInv'
  <1> SUFFICES ASSUME PreviewInv, AgainInv, [ImportNext]_importVars, NEW t \in Text, NEW i \in DOMAIN RowsOf[t]
               PROVE  Counted(t, i)'
    BY ImportKeptStep DEF AgainInv
  <1>1. ImportKept /\ ImportKept'
    BY ImportKeptStep DEF AgainInv
  <1> DEFINE Calm == importedText' = importedText /\ created' = created /\ forgotten' = forgotten
             On   == \A x \in Request : Continues(request[x], request'[x]) \/ request'[x] = request[x]
  <1>2. Calm /\ On => Counted(t, i)'
    BY <1>1, CountContinues
  <1> HIDE DEF Calm, On
  <1>3. ASSUME NEW u \in Text \cup {Nothing}, PutInBox(u) PROVE Counted(t, i)'
    <2>1. Calm /\ On
      BY <1>1, <1>3, BoxSet DEF PutInBox, atApi, Calm, On
    <2> QED BY <1>2, <2>1
  <1>4. ASSUME NEW u \in Excel, ChooseExcel(u) \/ NotConverted(u) PROVE Counted(t, i)'
    <2>1. Calm /\ On
      BY <1>4 DEF ChooseExcel, NotConverted, atApi, shown, Calm, On
    <2> QED BY <1>2, <2>1
  <1>5. ASSUME NEW u \in Excel, Converted(u) PROVE Counted(t, i)'
    <2>1. u \in Text \cup {Nothing}
      BY ImportAssumption
    <2>2. Calm /\ On
      BY <1>1, <1>5, <2>1, BoxSet DEF Converted, atApi, Calm, On
    <2> QED BY <1>2, <2>2
  <1>6. ASSUME NEW r \in Request, CheckBox(r) PROVE Counted(t, i)'
    <2> DEFINE v == NewRequest("check", box, << >>, TRUE)
    <2>1. /\ v.kind = "check" /\ request[r] = Free /\ importedText' = importedText /\ created' = created
          /\ forgotten' = forgotten /\ request' = [request EXCEPT ![r] = v]
      BY <1>6 DEF CheckBox, FreePlace, atApi, NewRequest
    <2> HIDE DEF v
    <2>2. request'[r] = v /\ \A x \in Request : x # r => request'[x] = request[x]
      BY <1>1, <2>1, ImportTypes
    <2>3. Pend(t, i)' \subseteq Pend(t, i)
      BY <2>1, <2>2 DEF Pend, Passed
    <2>4. \A x \in Request : Awaited(x)' /\ request'[x].text = t <=> Awaited(x) /\ request[x].text = t
      BY <2>1, <2>2 DEF Awaited
    <2>5. Sight(t)' = Sight(t) /\ Sight(t) \in {0, 1}
      BY <2>1, <2>4 DEF Sight
    <2>6. created[t][i] \in Nat /\ forgotten[t] \in Nat
      BY <1>1 DEF ImportKept, ImportTypeOK
    <2>7. created'[t][i] <= created[t][i] /\ forgotten'[t] + Sight(t)' >= forgotten[t] + Sight(t)
      BY <2>1, <2>5, <2>6
    <2>8. Counted(t, i)
      BY DEF AgainInv
    <2> QED BY <1>1, <2>3, <2>7, <2>8, CountKept
  <1>7. ASSUME NEW r \in Request, CheckAnswered(r) \/ CheckFails(r) \/ NobodyWaits(r) PROVE Counted(t, i)'
    <2>1. request' = [request EXCEPT ![r] = Free] /\ Continues(request[r], Free)
      BY <1>7 DEF CheckAnswered, CheckFails, NobodyWaits, Continues
    <2>2. On
      BY <1>1, <2>1, ImportTypes DEF On
    <2>3. Calm
      BY <1>7 DEF CheckAnswered, CheckFails, NobodyWaits, atApi, shown, Calm
    <2> QED BY <1>2, <2>2, <2>3
  <1>8. ASSUME NEW r \in Request, FindRow(r) PROVE Counted(t, i)'
    <2>1. On
      BY <1>1, <1>8, FindsRow, OneRequest, ImportTypes DEF On
    <2>2. Calm
      BY <1>8 DEF FindRow, atApi, shown, Calm
    <2> QED BY <1>2, <2>1, <2>2
  <1>9. ASSUME NEW r \in Request, UpdateRow(r) \/ CreateRow(r) \/ RowFails(r) PROVE Counted(t, i)'
    <2>1. request[r] # Free /\ ~Done(r) /\ request[r].step # "find"
      BY <1>9 DEF UpdateRow, CreateRow, RowFails, AtRow
    <2>2. request[r].kind = "import"
      <3>1. RequestGoes(request[r]) /\ request[r].kind \in {"check", "import"}
        BY <1>1, <2>1, RequestKinds, ImportTypes DEF PreviewInv, Sent
      <3> QED BY <2>1, <3>1 DEF RequestGoes, CheckGoes
    <2>3. importedText' = importedText /\ forgotten' = forgotten
      BY <1>9 DEF UpdateRow, CreateRow, RowFails, shown
    <2>4. "created" \in Result /\ "updated" \in Result /\ "error" \in Result /\ TRUE \in BOOLEAN /\ FALSE \in BOOLEAN
      BY DEF Result
    <2>5. \E res \in Result, c \in BOOLEAN :
             \/ request' = [request EXCEPT ![r] = RowAnswer(request[r], res, c)] /\ created' = created
             \/ AtRow(r, "create") /\ Save(r, res, c)
      <3>1. CASE UpdateRow(r)
        BY <2>4, <3>1, Zenon DEF UpdateRow, atApi
      <3>2. CASE CreateRow(r)
        BY <2>4, <3>2, Zenon DEF CreateRow, atApi
      <3>3. CASE RowFails(r)
        <4>1. \/ request' = [request EXCEPT ![r] = RowAnswer(request[r], "error", FALSE)] /\ UNCHANGED <<atApi, preview>>
              \/ request[r].step = "create" /\ Save(r, "error", FALSE)
          BY <3>3, Zenon DEF RowFails
        <4> QED BY <2>1, <2>4, <4>1, Zenon DEF AtRow, atApi
      <3> QED BY <1>9, <3>1, <3>2, <3>3
    <2>6. PICK res \in Result, c \in BOOLEAN :
             \/ request' = [request EXCEPT ![r] = RowAnswer(request[r], res, c)] /\ created' = created
             \/ AtRow(r, "create") /\ Save(r, res, c)
      BY <2>5, Zenon
    <2>7. CASE request' = [request EXCEPT ![r] = RowAnswer(request[r], res, c)] /\ created' = created
      <3>1. On
        BY <1>1, <2>1, <2>7, RowDone, OneRequest, ImportTypes DEF On
      <3> QED BY <1>2, <2>3, <2>7, <3>1 DEF Calm
    <2>8. CASE AtRow(r, "create") /\ Save(r, res, c)
      BY <1>1, <2>2, <2>3, <2>8, RowCounted
    <2> QED BY <2>6, <2>7, <2>8
  <1>10. ASSUME NEW b \in Barcode, OtherTakesBarcode(b) \/ OtherFreesBarcode(b) PROVE Counted(t, i)'
    <2>1. On
      BY <1>1, <1>10, OthersDisturb DEF On, GoesGone
    <2>2. Calm
      BY <1>10 DEF OtherTakesBarcode, OtherFreesBarcode, Calm
    <2> QED BY <1>2, <2>1, <2>2
  <1>11. ASSUME NEW r \in Request, handleImport(r) PROVE Counted(t, i)'
    BY <1>1, <1>11, CountBegins
  <1>12. ASSUME (\E r \in Request : ImportAnswered(r) \/ ImportUnanswered(r)) \/ ReloadPage PROVE Counted(t, i)'
    BY <1>1, <1>12, CountForgets
  <1>13. CASE UNCHANGED importVars
    <2>1. Calm /\ On
      BY <1>13 DEF importVars, Calm, On
    <2> QED BY <1>2, <2>1
  <1> QED BY <1>3, <1>4, <1>5, <1>6, <1>7, <1>8, <1>9, <1>10, <1>11, <1>12, <1>13, Zenon DEF ImportNext

\* However answers are lost, pages reloaded and imports repeated: a row creates a
\* product once, and once more for each time the page lost sight of an import of its
\* text (page.tsx: alreadyImported).
THEOREM ImportedAgain == ImportSpec => []ImportedAgainIsExplained
  <1>1. AgainInv => ImportedAgainIsExplained
    <2> SUFFICES ASSUME AgainInv, NEW t \in Text, NEW i \in DOMAIN RowsOf[t] PROVE created[t][i] <= 1 + forgotten[t]
      BY DEF ImportedAgainIsExplained
    <2>1. created[t][i] + Cardinality(Pend(t, i)) <= forgotten[t] + Sight(t)
      BY DEF AgainInv, Counted
    <2>2. Cardinality(Pend(t, i)) \in Nat
      BY PendIsFinite DEF Pend
    <2>3. created[t][i] \in Nat /\ forgotten[t] \in Nat /\ Sight(t) \in {0, 1}
      BY DEF AgainInv, ImportKept, ImportTypeOK, Sight
    <2> QED BY <2>1, <2>2, <2>3
  <1>2. ImportInit => PreviewInv /\ AgainInv
    BY PreviewInit, AgainInit
  <1>3. (PreviewInv /\ AgainInv) /\ [ImportNext]_importVars => (PreviewInv /\ AgainInv)'
    BY PreviewStep, AgainStep
  <1>4. ImportSpec => [](PreviewInv /\ AgainInv)
    BY <1>2, <1>3, PTL DEF ImportSpec
  <1> QED BY <1>1, <1>4, PTL

-----------------------------------------------------------------------------
(***************************************************************************)
(* Product forms: for any number of products, forms and saves.             *)
(***************************************************************************)

\* A form whose save is under way.
Saving == [at : Steps, saved : Product \cup {None}, about : Product \cup {None}, sent : Fillings,
           was : Tracking \cup {None}, willBe : BOOLEAN]

\* The product a form heard of.
Heard(f) == made[f] \ unheard[f]

\* What a form has heard of is the product it is about.
FormKnows(f) ==
    /\ form[f] # Closed => /\ form[f].saved = None => Heard(f) = {}
                           /\ form[f].saved # None => Heard(f) \subseteq {form[f].saved}
    /\ form[f] = Closed => \E p \in Product \cup {None} : Heard(f) \subseteq {p}
    /\ form[f].at \in Steps =>
          /\ form[f].at = "create" => form[f].saved = None
          /\ form[f].at # "create" => form[f].about \in Product
          /\ form[f].saved # None => form[f].about = form[f].saved
          /\ form[f].at = "write" => form[f].was \in Tracking

\* The inductive invariant of the product forms.
FormsInv == FormsTypeOK /\ (\A f \in Form : FormKnows(f)) /\ RecipesAreWhole /\ AvailabilityIsSettled

\* What a form is filled in with.
LEMMA FillingsTyped == ASSUME NEW s \in Fillings
    PROVE s.tracking \in Tracking /\ s.stockQty \in 0 .. MaxCounted /\ s.barcode \in FormBarcode \cup {None}
  BY FormsAssumption DEF Tracking

\* A product there is has a row.
LEMMA ProductExists == ASSUME FormsTypeOK, NEW p \in Product, Exists(p) PROVE product[p] \in ProductRow
  BY DEF FormsTypeOK, Exists

\* A row is a product there is.
LEMMA RowExists == ASSUME NEW row \in ProductRow PROVE row # Absent /\ row # Deleted
  BY DEF ProductRow, Absent, Deleted, Tracking

\* A form at a step is saving.
LEMMA SavingTyped == ASSUME FormsTypeOK, NEW f \in Form, form[f].at \in Steps
    PROVE form[f] \in Saving /\ form[f] # Closed
  BY DEF FormsTypeOK, Open, Closed, Saving, Steps

\* One form changes.
LEMMA FormGoes == ASSUME FormsTypeOK, NEW f \in Form, NEW c \in Open \cup {Closed}, Goes(f, c)
    PROVE form' \in [Form -> Open \cup {Closed}] /\ form'[f] = c /\ \A g \in Form : g # f => form'[g] = form[g]
  BY DEF Goes, FormsTypeOK

\* One form goes on to its next request.
LEMMA FormSteps == ASSUME FormsTypeOK, NEW f \in Form, form[f].at \in Steps, NEW s \in Steps, Step(f, s)
    PROVE /\ form' \in [Form -> Open \cup {Closed}] /\ \A g \in Form : g # f => form'[g] = form[g]
          /\ form'[f] # Closed /\ form'[f].at = s /\ form'[f].saved = form[f].saved /\ form'[f].about = form[f].about
          /\ form'[f].was = form[f].was /\ form'[f].sent = form[f].sent /\ form'[f].willBe = form[f].willBe
  <1> DEFINE c == [form[f] EXCEPT !.at = s]
  <1>1. form[f] \in Saving
    BY SavingTyped
  <1>2. c \in Saving /\ c.at = s /\ c.saved = form[f].saved /\ c.about = form[f].about
        /\ c.was = form[f].was /\ c.sent = form[f].sent /\ c.willBe = form[f].willBe
    BY <1>1 DEF Saving
  <1>3. c \in Open /\ c # Closed
    BY <1>2 DEF Open, Saving, Closed, Steps
  <1>4. Goes(f, c)
    BY DEF Step
  <1> HIDE DEF c
  <1> QED BY <1>2, <1>3, <1>4, FormGoes

\* One form is told that its save failed.
LEMMA RefusedForm == ASSUME FormsTypeOK, NEW f \in Form, form[f].at \in Steps, FormRefused(f)
    PROVE /\ form' \in [Form -> Open \cup {Closed}] /\ \A g \in Form : g # f => form'[g] = form[g]
          /\ form'[f] # Closed /\ form'[f].at = "open" /\ form'[f].saved = form[f].saved
  <1> DEFINE c == [at |-> "open", saved |-> form[f].saved]
  <1>1. form[f] \in Saving
    BY SavingTyped
  <1>2. c \in Open /\ c # Closed /\ c.at = "open" /\ c.saved = form[f].saved /\ Goes(f, c)
    BY <1>1 DEF Open, Saving, Closed, FormRefused
  <1> HIDE DEF c
  <1> QED BY <1>2, FormGoes

\* At first every form is closed.
LEMMA FormsInvInit == FormsInit => FormsInv
  <1> SUFFICES ASSUME FormsInit PROVE FormsInv
    OBVIOUS
  <1>1. PICK first \in {Absent} \cup
              {[tracking |-> t, rows |-> t = "recipe", stockQty |-> IF t = "unit" THEN MaxCounted ELSE 0,
                isAvailable |-> TRUE, barcode |-> None, photo |-> FALSE] : t \in Tracking} :
              product = [p \in Product |-> IF p = 1 THEN first ELSE Absent]
    BY DEF FormsInit
  <1>2. first = Absent \/ (/\ first \in ProductRow /\ (first.tracking = "recipe" => first.rows)
                           /\ (first.tracking = "unit" => ~first.rows) /\ first.isAvailable = Servable(first))
    <2>1. CASE first = Absent
      BY <2>1
    <2>2. CASE first # Absent
      <3>1. PICK t \in Tracking : first = [tracking |-> t, rows |-> t = "recipe", stockQty |-> IF t = "unit" THEN MaxCounted ELSE 0,
                isAvailable |-> TRUE, barcode |-> None, photo |-> FALSE]
        BY <1>1, <2>2
      <3>2. (t = "recipe") \in BOOLEAN
        OBVIOUS
      <3> DEFINE b == t = "recipe"
                 n == IF t = "unit" THEN MaxCounted ELSE 0
      <3>3. n \in 0 .. MaxCounted /\ (t = "unit" => n > 0) /\ b \in BOOLEAN /\ (b <=> t = "recipe")
        BY <3>2, FormsAssumption
      <3>4. first = [tracking |-> t, rows |-> b, stockQty |-> n, isAvailable |-> TRUE, barcode |-> None, photo |-> FALSE]
        BY <3>1
      <3> HIDE DEF b, n
      <3>5. first \in ProductRow /\ first.tracking = t /\ first.stockQty = n /\ first.isAvailable = TRUE /\ first.rows = b
        BY <3>3, <3>4 DEF ProductRow
      <3>6. Servable(first)
        BY <3>3, <3>5 DEF Servable, Tracking
      <3> QED BY <3>3, <3>5, <3>6
    <2> QED BY <2>1, <2>2
  <1>3. FormsTypeOK
    BY <1>1, <1>2, FormsAssumption DEF FormsInit, FormsTypeOK
  <1>4. \A f \in Form : FormKnows(f)
    BY DEF FormsInit, FormKnows, Heard, Closed, Steps
  <1>5. \A p \in Product : Exists(p) => product[p] = first /\ first # Absent
    BY <1>1 DEF Exists
  <1>6. RecipesAreWhole /\ AvailabilityIsSettled
    BY <1>2, <1>5 DEF RecipesAreWhole, AvailabilityIsSettled
  <1> QED BY <1>3, <1>4, <1>6 DEF FormsInv

\* One product changes.
LEMMA RowPut == ASSUME FormsTypeOK, NEW p \in Product, NEW row \in ProductRow \cup {Deleted}, Put(p, row)
    PROVE /\ product' \in [Product -> ProductRow \cup {Absent, Deleted}] /\ product'[p] = row
          /\ \A q \in Product : q # p => product'[q] = product[q]
  BY DEF Put, FormsTypeOK

\* A product that is created.
LEMMA NewRow == ASSUME NEW s \in Fillings
    PROVE LET row == [tracking |-> s.tracking, rows |-> s.tracking = "recipe", stockQty |-> s.stockQty,
                      isAvailable |-> TRUE, barcode |-> s.barcode, photo |-> FALSE]
          IN /\ row \in ProductRow /\ row.tracking = s.tracking /\ (row.rows <=> s.tracking = "recipe")
             /\ row.stockQty = s.stockQty /\ row.isAvailable = TRUE
  <1> DEFINE b == s.tracking = "recipe"
  <1>1. b \in BOOLEAN /\ (b <=> s.tracking = "recipe")
    OBVIOUS
  <1> HIDE DEF b
  <1>2. LET row == [tracking |-> s.tracking, rows |-> b, stockQty |-> s.stockQty,
                      isAvailable |-> TRUE, barcode |-> s.barcode, photo |-> FALSE]
          IN /\ row \in ProductRow /\ row.tracking = s.tracking /\ row.rows = b
             /\ row.stockQty = s.stockQty /\ row.isAvailable = TRUE
    BY <1>1, FillingsTyped DEF ProductRow
  <1> QED BY <1>1, <1>2 DEF b

\* A product that is updated.
LEMMA SwitchedRow == ASSUME NEW row \in ProductRow, NEW s \in Fillings, NEW was \in Tracking
    PROVE LET kept == [row EXCEPT !.tracking = s.tracking, !.rows = RowsKept(row, s, was),
                       !.barcode = IF s.barcode = None THEN @ ELSE s.barcode]
          IN /\ kept \in ProductRow /\ kept.tracking = s.tracking /\ (kept.rows <=> RowsKept(row, s, was))
             /\ kept.isAvailable = row.isAvailable /\ kept.stockQty = row.stockQty
  <1> DEFINE b == RowsKept(row, s, was)
             c == IF s.barcode = None THEN row.barcode ELSE s.barcode
  <1>1. b \in BOOLEAN /\ (b <=> RowsKept(row, s, was))
    <2>1. row.rows \in BOOLEAN
      BY Zenon DEF ProductRow
    <2> QED BY <2>1, Zenon DEF RowsKept
  <1>2. c \in FormBarcode \cup {None}
    BY FillingsTyped DEF ProductRow
  <1> HIDE DEF b
  <1>3. LET kept == [row EXCEPT !.tracking = s.tracking, !.rows = b, !.barcode = c]
          IN /\ kept \in ProductRow /\ kept.tracking = s.tracking /\ kept.rows = b
             /\ kept.isAvailable = row.isAvailable /\ kept.stockQty = row.stockQty
    BY <1>1, <1>2, FillingsTyped DEF ProductRow
  <1> QED BY <1>1, <1>3 DEF b

\* A product whose stock is set.
LEMMA CountedRow == ASSUME NEW row \in ProductRow, NEW s \in Fillings
    PROVE LET kept == [row EXCEPT !.stockQty = s.stockQty, !.isAvailable = (s.stockQty > 0)]
          IN /\ kept \in ProductRow /\ kept.tracking = row.tracking /\ kept.rows = row.rows
             /\ kept.stockQty = s.stockQty /\ (kept.isAvailable <=> s.stockQty > 0) /\ kept.isAvailable \in BOOLEAN
  <1> DEFINE b == s.stockQty > 0
  <1>1. b \in BOOLEAN /\ (b <=> s.stockQty > 0)
    OBVIOUS
  <1> HIDE DEF b
  <1>2. LET kept == [row EXCEPT !.stockQty = s.stockQty, !.isAvailable = b]
          IN /\ kept \in ProductRow /\ kept.tracking = row.tracking /\ kept.rows = row.rows
             /\ kept.stockQty = s.stockQty /\ kept.isAvailable = b
    BY <1>1, FillingsTyped DEF ProductRow
  <1> QED BY <1>1, <1>2 DEF b

\* A product whose availability is set.
LEMMA AvailableRow == ASSUME NEW row \in ProductRow, NEW b \in BOOLEAN
    PROVE LET kept == [row EXCEPT !.isAvailable = b]
          IN /\ kept \in ProductRow /\ kept.tracking = row.tracking /\ kept.rows = row.rows
             /\ kept.stockQty = row.stockQty /\ kept.isAvailable = b
  BY DEF ProductRow

\* A product whose photo is set.
LEMMA PhotoRow == ASSUME NEW row \in ProductRow, NEW b \in BOOLEAN
    PROVE LET kept == [row EXCEPT !.photo = b]
          IN /\ kept \in ProductRow /\ kept.tracking = row.tracking /\ kept.rows = row.rows
             /\ kept.stockQty = row.stockQty /\ kept.isAvailable = row.isAvailable
  BY DEF ProductRow

\* A product can be served or not.
LEMMA ServableIs == ASSUME NEW row \in ProductRow PROVE Servable(row) \in BOOLEAN
  BY Zenon DEF Servable

\* What is said of a product.
RowIsRight(p) ==
    Exists(p) => /\ product[p].tracking = "recipe" => product[p].rows
                 /\ product[p].tracking = "unit" /\ p \notin crossed => ~product[p].rows
                 /\ p \notin unsettled => product[p].isAvailable = Servable(product[p])

\* The products, and what is said of them.
ProductsOK ==
    /\ product \in [Product -> ProductRow \cup {Absent, Deleted}]
    /\ made \in [Form -> SUBSET Product] /\ unheard \in [Form -> SUBSET Product]
    /\ unsettled \subseteq Product /\ crossed \subseteq Product
    /\ \A p \in Product : RowIsRight(p)

\* The invariant is what is said of products and of forms.
LEMMA ProductsAre == FormsInv <=> ProductsOK /\ FormsTypeOK /\ \A f \in Form : FormKnows(f)
  BY DEF FormsInv, FormsTypeOK, ProductsOK, RowIsRight, RecipesAreWhole, AvailabilityIsSettled

\* Every step keeps what is said of the products.
LEMMA ProductsStep == ASSUME FormsInv, FormsNext PROVE ProductsOK'
  <1>0. ProductsOK /\ FormsTypeOK /\ \A f \in Form : FormKnows(f)
    BY ProductsAre
  <1>1. ASSUME UNCHANGED <<product, unsettled, crossed>>, made' \in [Form -> SUBSET Product], unheard' \in [Form -> SUBSET Product]
        PROVE  ProductsOK'
    BY <1>0, <1>1 DEF ProductsOK, RowIsRight, Exists
  <1>2. UNCHANGED tables => ProductsOK'
    BY <1>0, <1>1 DEF tables, history, ProductsOK
  <1>3. ASSUME NEW p \in Product, NEW row \in ProductRow \cup {Deleted}, Put(p, row),
               made' \in [Form -> SUBSET Product], unheard' \in [Form -> SUBSET Product],
               unsettled' \subseteq Product, crossed' \subseteq Product,
               \A q \in Product : q # p => (q \in unsettled <=> q \in unsettled') /\ (q \in crossed <=> q \in crossed'),
               row # Deleted => /\ row.tracking = "recipe" => row.rows
                                /\ row.tracking = "unit" /\ p \notin crossed' => ~row.rows
                                /\ p \notin unsettled' => row.isAvailable = Servable(row)
        PROVE  ProductsOK'
    <2>1. /\ product' \in [Product -> ProductRow \cup {Absent, Deleted}] /\ product'[p] = row
          /\ \A q \in Product : q # p => product'[q] = product[q]
      BY <1>0, <1>3, RowPut
    <2>2. RowIsRight(p)'
      BY <1>3, <2>1 DEF RowIsRight, Exists
    <2>3. \A q \in Product : q # p => RowIsRight(q)'
      BY <1>0, <1>3, <2>1 DEF RowIsRight, Exists, ProductsOK
    <2> QED BY <1>3, <2>1, <2>2, <2>3 DEF ProductsOK
  <1>4. ASSUME NEW p \in Product, DeleteProduct(p) PROVE ProductsOK'
    <2>1. made' \in [Form -> SUBSET Product] /\ unheard' \in [Form -> SUBSET Product]
          /\ unsettled' \subseteq Product /\ crossed' \subseteq Product
      BY <1>0, <1>4 DEF DeleteProduct, ProductsOK
    <2> QED BY <1>3, <1>4, <2>1 DEF DeleteProduct
  <1>5. ASSUME NEW f \in Form, NEW p \in Product, CreateProduct(f, p) PROVE ProductsOK'
    <2> DEFINE s == form[f].sent
               row == [tracking |-> s.tracking, rows |-> s.tracking = "recipe", stockQty |-> s.stockQty,
                       isAvailable |-> TRUE, barcode |-> s.barcode, photo |-> FALSE]
    <2>1. CASE BarcodeTaken(s.barcode, p)
      BY <1>2, <1>5, <2>1 DEF CreateProduct, tables
    <2>2. CASE ~BarcodeTaken(s.barcode, p)
      <3>1. s \in Fillings
        BY <1>0, <1>5, SavingTyped DEF CreateProduct, At, Saving, Steps
      <3>2. /\ row \in ProductRow /\ row.tracking = s.tracking /\ (row.rows <=> s.tracking = "recipe")
            /\ row.stockQty = s.stockQty /\ row.isAvailable = TRUE
        BY <3>1, NewRow
      <3>3. Put(p, row) /\ unsettled' = (IF s.stockQty > 0 THEN unsettled ELSE unsettled \cup {p}) /\ crossed' = crossed
        BY <1>5, <2>2 DEF CreateProduct
      <3>4. made' \in [Form -> SUBSET Product] /\ unheard' \in [Form -> SUBSET Product]
        BY <1>0, <1>5, <2>2 DEF CreateProduct, ProductsOK
      <3> HIDE DEF row
      <3>5. p \notin unsettled' => Servable(row)
        BY <3>1, <3>2, <3>3, FillingsTyped DEF Servable, Tracking
      <3>6. p \notin unsettled' => row.isAvailable = Servable(row)
        BY <3>2, <3>5, ServableIs, Zenon
      <3>7. unsettled' \subseteq Product /\ crossed' \subseteq Product
        BY <1>0, <3>3 DEF ProductsOK
      <3>8. \A q \in Product : q # p => (q \in unsettled <=> q \in unsettled') /\ (q \in crossed <=> q \in crossed')
        BY <3>3
      <3>9. /\ row.tracking = "recipe" => row.rows
            /\ row.tracking = "unit" /\ p \notin crossed' => ~row.rows
        BY <3>2
      <3> QED BY <1>3, <3>2, <3>3, <3>4, <3>6, <3>7, <3>8, <3>9
    <2> QED BY <2>1, <2>2
  <1>6. ASSUME NEW f \in Form, WriteProduct(f) PROVE ProductsOK'
    <2> DEFINE s == form[f].sent
               p == form[f].about
               was == form[f].was
               row == product[p]
               kept == [row EXCEPT !.tracking = s.tracking, !.rows = RowsKept(row, s, was),
                       !.barcode = IF s.barcode = None THEN @ ELSE s.barcode]
    <2>1. CASE ~Exists(p) \/ BarcodeTaken(s.barcode, p)
      BY <1>2, <1>6, <2>1 DEF WriteProduct, tables
    <2>2. CASE ~(~Exists(p) \/ BarcodeTaken(s.barcode, p))
      <3>1. s \in Fillings /\ p \in Product /\ was \in Tracking
        BY <1>0, <1>6, SavingTyped DEF WriteProduct, At, Saving, Steps, FormKnows
      <3>2. row \in ProductRow
        BY <1>0, <2>2, <3>1, ProductExists
      <3>3. /\ kept \in ProductRow /\ kept.tracking = s.tracking /\ (kept.rows <=> RowsKept(row, s, was))
        BY <3>1, <3>2, SwitchedRow
      <3>4. Put(p, kept) /\ unsettled' = unsettled \cup {p} /\ made' = made /\ unheard' = unheard
            /\ crossed' = IF row.tracking = was THEN crossed ELSE crossed \cup {p}
        BY <1>6, <2>2 DEF WriteProduct
      <3>5. row.tracking = "unit" /\ p \notin crossed => ~row.rows
        BY <1>0, <2>2, <3>1 DEF ProductsOK, RowIsRight
      <3> HIDE DEF kept
      <3>6. /\ kept.tracking = "recipe" => kept.rows
            /\ kept.tracking = "unit" /\ p \notin crossed' => ~kept.rows
        BY <3>3, <3>4, <3>5 DEF RowsKept
      <3>7. unsettled' \subseteq Product /\ crossed' \subseteq Product /\ p \in unsettled'
            /\ \A q \in Product : q # p => (q \in unsettled <=> q \in unsettled') /\ (q \in crossed <=> q \in crossed')
        BY <1>0, <3>1, <3>4 DEF ProductsOK
      <3>8. made' \in [Form -> SUBSET Product] /\ unheard' \in [Form -> SUBSET Product]
        BY <1>0, <3>4 DEF ProductsOK
      <3> HIDE DEF p
      <3> QED BY <1>3, <3>1, <3>3, <3>4, <3>6, <3>7, <3>8
    <2> QED BY <2>1, <2>2
  <1>7. ASSUME NEW f \in Form, SetCount(f) PROVE ProductsOK'
    <2> DEFINE s == form[f].sent
               p == form[f].about
               row == product[p]
               kept == [row EXCEPT !.stockQty = s.stockQty, !.isAvailable = (s.stockQty > 0)]
    <2>1. CASE ~Exists(p)
      BY <1>0, <1>1, <1>7, <2>1 DEF SetCount, ProductsOK
    <2>2. CASE Exists(p)
      <3>1. s \in Fillings /\ p \in Product
        BY <1>0, <1>7, SavingTyped DEF SetCount, At, Saving, Steps, FormKnows
      <3>2. row \in ProductRow
        BY <1>0, <2>2, <3>1, ProductExists
      <3>3. /\ kept \in ProductRow /\ kept.tracking = row.tracking /\ kept.rows = row.rows
            /\ kept.stockQty = s.stockQty /\ (kept.isAvailable <=> s.stockQty > 0) /\ kept.isAvailable \in BOOLEAN
        BY <3>1, <3>2, CountedRow
      <3>4. Put(p, kept) /\ made' = made /\ unheard' = unheard /\ crossed' = crossed
            /\ unsettled' = IF row.tracking = "unit" THEN unsettled \ {p} ELSE unsettled \cup {p}
        BY <1>7, <2>2 DEF SetCount
      <3>5. /\ row.tracking = "recipe" => row.rows
            /\ row.tracking = "unit" /\ p \notin crossed => ~row.rows
        BY <1>0, <2>2, <3>1 DEF ProductsOK, RowIsRight
      <3> HIDE DEF kept
      <3>6. p \notin unsettled' => (kept.isAvailable <=> Servable(kept))
        BY <3>1, <3>3, <3>4 DEF Servable
      <3>7. p \notin unsettled' => kept.isAvailable = Servable(kept)
        BY <3>3, <3>6, ServableIs, Zenon
      <3>8. /\ kept.tracking = "recipe" => kept.rows
            /\ kept.tracking = "unit" /\ p \notin crossed' => ~kept.rows
        BY <3>3, <3>4, <3>5
      <3>9. unsettled' \subseteq Product /\ crossed' \subseteq Product
            /\ \A q \in Product : q # p => (q \in unsettled <=> q \in unsettled') /\ (q \in crossed <=> q \in crossed')
        BY <1>0, <3>1, <3>4 DEF ProductsOK
      <3>10. made' \in [Form -> SUBSET Product] /\ unheard' \in [Form -> SUBSET Product]
        BY <1>0, <3>4 DEF ProductsOK
      <3> HIDE DEF p
      <3> QED BY <1>3, <3>1, <3>3, <3>4, <3>7, <3>8, <3>9, <3>10
    <2> QED BY <2>1, <2>2
  <1>8. ASSUME NEW f \in Form, ReadServings(f) PROVE ProductsOK'
    <2> DEFINE p == form[f].about
    <2>1. CASE Exists(p) /\ Servable(product[p]) # product[p].isAvailable
      BY <1>0, <1>1, <1>8, <2>1 DEF ReadServings, ProductsOK
    <2>2. CASE ~(Exists(p) /\ Servable(product[p]) # product[p].isAvailable)
      <3>1. product' = product /\ made' = made /\ unheard' = unheard /\ crossed' = crossed /\ unsettled' = unsettled \ {p}
        BY <1>8, <2>2 DEF ReadServings
      <3> QED BY <1>0, <2>2, <3>1 DEF ProductsOK, RowIsRight, Exists
    <2> QED BY <2>1, <2>2
  <1>9. ASSUME NEW f \in Form, WriteAvailability(f) PROVE ProductsOK'
    <2> DEFINE p == form[f].about
               row == product[p]
               b == form[f].willBe
               kept == [row EXCEPT !.isAvailable = b]
    <2>1. CASE ~Exists(p)
      BY <1>0, <1>1, <1>9, <2>1 DEF WriteAvailability, ProductsOK
    <2>2. CASE Exists(p)
      <3>1. p \in Product
        BY <1>0, <1>9 DEF WriteAvailability, At, Steps, FormKnows
      <3>2. b \in BOOLEAN
        <4>1. form[f] \in Saving
          BY <1>0, <1>9, SavingTyped DEF WriteAvailability, At, Steps
        <4> QED BY <4>1, Zenon DEF Saving
      <3>3. row \in ProductRow
        BY <1>0, <2>2, <3>1, ProductExists
      <3>4. /\ kept \in ProductRow /\ kept.tracking = row.tracking /\ kept.rows = row.rows
            /\ kept.stockQty = row.stockQty /\ kept.isAvailable = b
        BY <3>2, <3>3, AvailableRow
      <3>5. Put(p, kept) /\ made' = made /\ unheard' = unheard /\ crossed' = crossed
            /\ unsettled' = IF Servable(row) = b THEN unsettled \ {p} ELSE unsettled \cup {p}
        BY <1>9, <2>2 DEF WriteAvailability
      <3>6. /\ row.tracking = "recipe" => row.rows
            /\ row.tracking = "unit" /\ p \notin crossed => ~row.rows
        BY <1>0, <2>2, <3>1 DEF ProductsOK, RowIsRight
      <3> HIDE DEF kept
      <3>7. p \notin unsettled' => Servable(row) = b
        BY <3>5
      <3>8. Servable(kept) = Servable(row)
        BY <3>4, Zenon DEF Servable
      <3>9. p \notin unsettled' => kept.isAvailable = Servable(kept)
        BY <3>4, <3>7, <3>8, Zenon
      <3>10. /\ kept.tracking = "recipe" => kept.rows
             /\ kept.tracking = "unit" /\ p \notin crossed' => ~kept.rows
        BY <3>4, <3>5, <3>6
      <3>11. unsettled' \subseteq Product /\ crossed' \subseteq Product
            /\ \A q \in Product : q # p => (q \in unsettled <=> q \in unsettled') /\ (q \in crossed <=> q \in crossed')
        BY <1>0, <3>1, <3>5 DEF ProductsOK
      <3>12. made' \in [Form -> SUBSET Product] /\ unheard' \in [Form -> SUBSET Product]
        BY <1>0, <3>5 DEF ProductsOK
      <3> HIDE DEF p
      <3>13. kept \in ProductRow \cup {Deleted} /\ Put(p, kept)
        BY <3>4, <3>5
      <3> QED BY <1>3, <3>1, <3>9, <3>10, <3>11, <3>12, <3>13
    <2> QED BY <2>1, <2>2
  <1>10. ASSUME NEW f \in Form, SavePhoto(f) PROVE ProductsOK'
    <2> DEFINE p == form[f].about
               row == product[p]
               b == form[f].sent.photo = "new"
               kept == [row EXCEPT !.photo = b]
    <2>1. CASE ~Exists(p)
      BY <1>2, <1>10, <2>1 DEF SavePhoto, tables
    <2>2. CASE Exists(p)
      <3>1. p \in Product
        BY <1>0, <1>10 DEF SavePhoto, At, Steps, FormKnows
      <3>2. b \in BOOLEAN
        OBVIOUS
      <3>3. row \in ProductRow
        BY <1>0, <2>2, <3>1, ProductExists
      <3> HIDE DEF b
      <3>4. /\ kept \in ProductRow /\ kept.tracking = row.tracking /\ kept.rows = row.rows
            /\ kept.stockQty = row.stockQty /\ kept.isAvailable = row.isAvailable
        BY <3>2, <3>3, PhotoRow
      <3>5. Put(p, kept) /\ UNCHANGED history
        BY <1>10, <2>2 DEF SavePhoto, Put, b
      <3>6. /\ row.tracking = "recipe" => row.rows
            /\ row.tracking = "unit" /\ p \notin crossed => ~row.rows
            /\ p \notin unsettled => row.isAvailable = Servable(row)
        BY <1>0, <2>2, <3>1 DEF ProductsOK, RowIsRight
      <3> HIDE DEF kept
      <3>7. Servable(kept) = Servable(row)
        BY <3>4, Zenon DEF Servable
      <3>8. /\ kept.tracking = "recipe" => kept.rows
            /\ kept.tracking = "unit" /\ p \notin crossed' => ~kept.rows
            /\ p \notin unsettled' => kept.isAvailable = Servable(kept)
        BY <3>4, <3>5, <3>6, <3>7 DEF history
      <3>9. unsettled' \subseteq Product /\ crossed' \subseteq Product
            /\ \A q \in Product : q # p => (q \in unsettled <=> q \in unsettled') /\ (q \in crossed <=> q \in crossed')
        BY <1>0, <3>5 DEF ProductsOK, history
      <3>10. made' \in [Form -> SUBSET Product] /\ unheard' \in [Form -> SUBSET Product]
        BY <1>0, <3>5 DEF ProductsOK, history
      <3> HIDE DEF p
      <3>11. kept \in ProductRow \cup {Deleted} /\ Put(p, kept)
        BY <3>4, <3>5
      <3> QED BY <1>3, <3>1, <3>8, <3>9, <3>10, <3>11
    <2> QED BY <2>1, <2>2
  <1>11. ASSUME NEW f \in Form, NEW p \in Product \cup {None}, OpenForm(f, p) PROVE ProductsOK'
    BY <1>0, <1>1, <1>11 DEF OpenForm, ProductsOK
  <1>12. ASSUME NEW f \in Form, SaveAnswered(f) PROVE ProductsOK'
    BY <1>0, <1>1, <1>12 DEF SaveAnswered, ProductsOK
  <1> QED BY <1>2, <1>4, <1>5, <1>6, <1>7, <1>8, <1>9, <1>10, <1>11, <1>12 DEF FormsNext, CancelForm, Submit,
             ReadTracking, CheckCount, PhotoAnswered, SaveFails

\* The forms, and what is said of them.
FormsOK == form \in [Form -> Open \cup {Closed}] /\ \A f \in Form : FormKnows(f)

\* One form changes, and still knows what it is about.
LEMMA OneFormGoes ==
    ASSUME FormsInv, NEW f \in Form, form' \in [Form -> Open \cup {Closed}],
           \A g \in Form : g # f => form'[g] = form[g] /\ made'[g] = made[g] /\ unheard'[g] = unheard[g],
           FormKnows(f)'
    PROVE  FormsOK'
  BY DEF FormsInv, FormsOK, FormKnows, Heard

\* A form that goes on, or is open again, knows what it knew.
LEMMA StillKnows ==
    ASSUME FormsInv, NEW f \in Form, form'[f] # Closed, form'[f].saved = form[f].saved, form[f] # Closed,
           made'[f] = made[f], unheard'[f] = unheard[f],
           form'[f].at = "open" \/ /\ form[f].at \in Steps /\ form[f].at # "create"
                                   /\ form'[f].at # "create" /\ form'[f].about = form[f].about
                                   /\ form'[f].at = "write" => form'[f].was \in Tracking
    PROVE  FormKnows(f)'
  BY DEF FormsInv, FormKnows, Heard, Steps

\* Every step keeps what is said of the forms.
LEMMA FormsStep == ASSUME FormsInv, FormsNext PROVE FormsOK' /\ submits' \in 0 .. MaxSubmits /\ failures' \in 0 .. MaxFailures
  <1> USE DEF FormsInv
  <1>1. submits' \in 0 .. MaxSubmits /\ failures' \in 0 .. MaxFailures
    <2>1. submits' = submits \/ (submits < MaxSubmits /\ submits' = submits + 1)
      BY DEF FormsNext, DeleteProduct, OpenForm, CancelForm, Submit, CreateProduct, ReadTracking,
         WriteProduct, CheckCount, SetCount, ReadServings, WriteAvailability, SaveAnswered, SavePhoto, PhotoAnswered, SaveFails
    <2>2. failures' = failures \/ (failures < MaxFailures /\ failures' = failures + 1)
      BY DEF FormsNext, DeleteProduct, OpenForm, CancelForm, Submit, CreateProduct, ReadTracking,
         WriteProduct, CheckCount, SetCount, ReadServings, WriteAvailability, SaveAnswered, SavePhoto, PhotoAnswered, SaveFails
    <2>3. submits \in 0 .. MaxSubmits /\ failures \in 0 .. MaxFailures
      BY DEF FormsTypeOK
    <2> QED BY <2>1, <2>2, <2>3, FormsAssumption
  <1>2. ASSUME NEW f \in Form, form[f].at \in Steps, FormRefused(f), UNCHANGED <<made, unheard>> PROVE FormsOK'
    BY <1>2, RefusedForm, SavingTyped, StillKnows, OneFormGoes
  <1>3. ASSUME NEW f \in Form, form[f].at \in Steps \ {"create"}, NEW s \in Steps \ {"create", "write"}, Step(f, s), UNCHANGED <<made, unheard>>
        PROVE  FormsOK'
    BY <1>3, FormSteps, SavingTyped, StillKnows, OneFormGoes
  <1>4. ASSUME NEW p \in Product, DeleteProduct(p) PROVE FormsOK'
    <2>1. \A f \in Form : made'[f] = made[f] \ {p} /\ unheard'[f] = unheard[f] \ {p}
      BY <1>4 DEF DeleteProduct
    <2>2. \A f \in Form : (made[f] \ {p}) \ (unheard[f] \ {p}) \subseteq made[f] \ unheard[f]
      OBVIOUS
    <2>3. form' = form
      BY <1>4 DEF DeleteProduct
    <2>4. ASSUME NEW f \in Form PROVE FormKnows(f)'
      <3>1. FormKnows(f)
        OBVIOUS
      <3>2. Heard(f)' \subseteq Heard(f)
        BY <2>1, <2>2 DEF Heard
      <3> QED BY <2>3, <3>1, <3>2 DEF FormKnows
    <2> QED BY <2>3, <2>4 DEF FormsOK, FormsTypeOK
  <1>5. ASSUME NEW f \in Form, form[f] = Closed PROVE form[f].at = "closed" /\ form[f].at # "open" /\ form[f].at \notin Steps
    BY <1>5 DEF Closed, Steps
  <1>6. ASSUME NEW f \in Form, NEW p \in Product \cup {None}, OpenForm(f, p) PROVE FormsOK'
    <2> DEFINE c == [at |-> "open", saved |-> p]
    <2>1. c \in Open /\ c # Closed /\ c.at = "open" /\ c.saved = p /\ c.at \notin Steps
      BY DEF Open, Closed, Steps
    <2>2. Goes(f, c) /\ made' = [made EXCEPT ![f] = {}] /\ unheard' = [unheard EXCEPT ![f] = {}]
      BY <1>6 DEF OpenForm
    <2> HIDE DEF c
    <2>3. form' \in [Form -> Open \cup {Closed}] /\ form'[f] = c /\ \A g \in Form : g # f => form'[g] = form[g]
      BY <2>1, <2>2, FormGoes
    <2>4. made'[f] = {} /\ \A g \in Form : g # f => made'[g] = made[g] /\ unheard'[g] = unheard[g]
      BY <2>2 DEF FormsTypeOK
    <2>5. FormKnows(f)'
      BY <2>1, <2>3, <2>4 DEF FormKnows, Heard
    <2> QED BY <2>3, <2>4, <2>5, OneFormGoes
  <1>7. ASSUME NEW f \in Form, form[f] # Closed, Goes(f, Closed), UNCHANGED <<made, unheard>> PROVE FormsOK'
    <2>1. form' \in [Form -> Open \cup {Closed}] /\ form'[f] = Closed /\ \A g \in Form : g # f => form'[g] = form[g]
      BY <1>7, FormGoes
    <2>2. form[f].saved \in Product \cup {None}
      BY <1>7 DEF FormsTypeOK, Open
    <2>3. \E p \in Product \cup {None} : made[f] \ unheard[f] \subseteq {p}
      BY <1>7, <2>2 DEF FormKnows, Heard
    <2>4. FormKnows(f)'
      BY <1>7, <2>1, <2>3 DEF FormKnows, Heard, Closed, Steps
    <2> QED BY <1>7, <2>1, <2>4, OneFormGoes
  <1>8. ASSUME NEW f \in Form, NEW sent \in Fillings, Submit(f, sent) PROVE FormsOK'
    <2> DEFINE c == [at |-> IF form[f].saved = None THEN "create" ELSE "read", saved |-> form[f].saved,
                     about |-> form[f].saved, sent |-> sent, was |-> None, willBe |-> TRUE]
    <2>1. form[f].saved \in Product \cup {None} /\ form[f] # Closed
      BY <1>5, <1>8 DEF Submit, At, FormsTypeOK, Open, Closed
    <2>2. /\ c \in Saving /\ c.saved = form[f].saved /\ c.about = form[f].saved
          /\ c.at \in {"create", "read"} /\ (c.at = "create" <=> form[f].saved = None)
      BY <2>1 DEF Saving, Steps
    <2>3. Goes(f, c)
      BY <1>8 DEF Submit
    <2> HIDE DEF c
    <2>4. c \in Open /\ c # Closed
      BY <2>2 DEF Saving, Open, Closed, Steps
    <2>5. form' \in [Form -> Open \cup {Closed}] /\ form'[f] = c /\ \A g \in Form : g # f => form'[g] = form[g]
      BY <2>3, <2>4, FormGoes
    <2>6. made' = made /\ unheard' = unheard
      BY <1>8 DEF Submit, tables, history
    <2>7. FormKnows(f)'
      BY <2>1, <2>2, <2>4, <2>5, <2>6 DEF FormKnows, Heard
    <2> QED BY <2>5, <2>6, <2>7, OneFormGoes
  <1>9. ASSUME NEW f \in Form, SaveAnswered(f) PROVE FormsOK'
    <2> DEFINE p == form[f].about
               c == [form[f] EXCEPT !.at = "photo", !.saved = SavedAs(f)]
    <2>1. form[f].at = "answer" /\ form[f].at \in Steps /\ form[f] \in Saving /\ form[f] # Closed /\ p \in Product
      BY <1>9, SavingTyped DEF SaveAnswered, At, Steps, FormKnows
    <2>2. CASE ~Exists(p)
      BY <1>2, <1>9, <2>1, <2>2 DEF SaveAnswered
    <2>3. CASE Exists(p)
      <3>1. unheard' = [unheard EXCEPT ![f] = @ \ {p}] /\ made' = made /\ unheard'[f] = unheard[f] \ {p}
            /\ \A g \in Form : g # f => unheard'[g] = unheard[g]
        BY <1>9, <2>3 DEF SaveAnswered, FormsTypeOK
      <3>2. made[f] \ (unheard[f] \ {p}) \subseteq {p}
        <4>1. CASE form[f].saved = None
          BY <2>1, <4>1 DEF FormKnows, Heard
        <4>2. CASE form[f].saved # None
          BY <2>1, <4>2 DEF FormKnows, Heard
        <4> QED BY <4>1, <4>2
      <3>3. CASE form[f].sent.photo = "keep"
        <4>1. form' \in [Form -> Open \cup {Closed}] /\ form'[f] = Closed /\ \A g \in Form : g # f => form'[g] = form[g]
          BY <1>9, <2>3, <3>3, FormGoes DEF SaveAnswered
        <4>2. FormKnows(f)'
          BY <2>1, <3>1, <3>2, <4>1 DEF FormKnows, Heard, Closed, Steps
        <4> QED BY <3>1, <4>1, <4>2, OneFormGoes
      <3>4. CASE form[f].sent.photo # "keep"
        <4>1. Goes(f, c)
          BY <1>9, <2>3, <3>4 DEF SaveAnswered
        <4>2. c \in Saving /\ c.at = "photo" /\ c.saved = p /\ c.about = p
          BY <2>1 DEF Saving, Steps, SavedAs
        <4> HIDE DEF c
        <4>3. c \in Open /\ c # Closed
          BY <4>2 DEF Saving, Open, Closed, Steps
        <4>4. form' \in [Form -> Open \cup {Closed}] /\ form'[f] = c /\ \A g \in Form : g # f => form'[g] = form[g]
          BY <4>1, <4>3, FormGoes
        <4>5. p # None
          BY <2>1, FormsAssumption DEF Product
        <4>6. FormKnows(f)'
          BY <2>1, <3>1, <3>2, <4>2, <4>3, <4>4, <4>5 DEF FormKnows, Heard
        <4> QED BY <3>1, <4>4, <4>6, OneFormGoes
      <3> QED BY <3>3, <3>4
    <2> QED BY <2>2, <2>3
  <1>10. ASSUME NEW f \in Form, NEW p \in Product, CreateProduct(f, p) PROVE FormsOK'
    <2> DEFINE s == form[f].sent
               c == [form[f] EXCEPT !.about = p, !.at = IF s.tracking = "recipe" THEN "refresh" ELSE "answer"]
    <2>1. form[f].at = "create" /\ form[f].at \in Steps /\ form[f] \in Saving /\ form[f] # Closed /\ form[f].saved = None
      BY <1>10, SavingTyped DEF CreateProduct, At, Steps, FormKnows
    <2>2. CASE BarcodeTaken(s.barcode, p)
      BY <1>2, <1>10, <2>1, <2>2 DEF CreateProduct, history
    <2>3. CASE ~BarcodeTaken(s.barcode, p)
      <3>1. /\ made' = [made EXCEPT ![f] = @ \cup {p}] /\ unheard' = [unheard EXCEPT ![f] = @ \cup {p}] /\ Goes(f, c)
        BY <1>10, <2>3 DEF CreateProduct
      <3>2. /\ made'[f] = made[f] \cup {p} /\ unheard'[f] = unheard[f] \cup {p}
            /\ \A g \in Form : g # f => made'[g] = made[g] /\ unheard'[g] = unheard[g]
        BY <3>1 DEF FormsTypeOK
      <3>3. c \in Saving /\ c.at \in {"refresh", "answer"} /\ c.saved = None /\ c.about = p
        BY <2>1 DEF Saving, Steps
      <3> HIDE DEF c
      <3>4. c \in Open /\ c # Closed
        BY <3>3 DEF Saving, Open, Closed, Steps
      <3>5. form' \in [Form -> Open \cup {Closed}] /\ form'[f] = c /\ \A g \in Form : g # f => form'[g] = form[g]
        BY <3>1, <3>4, FormGoes
      <3>6. made[f] \ unheard[f] = {}
        BY <2>1 DEF FormKnows, Heard
      <3>7. FormKnows(f)'
        BY <2>1, <3>2, <3>3, <3>4, <3>5, <3>6 DEF FormKnows, Heard
      <3> QED BY <3>2, <3>5, <3>7, OneFormGoes
    <2> QED BY <2>2, <2>3
  <1>11. ASSUME NEW f \in Form, ReadTracking(f) PROVE FormsOK'
    <2> DEFINE p == form[f].about
               c == [form[f] EXCEPT !.at = "write", !.was = product[p].tracking]
    <2>1. form[f].at = "read" /\ form[f].at \in Steps /\ form[f] \in Saving /\ form[f] # Closed /\ p \in Product
      BY <1>11, SavingTyped DEF ReadTracking, At, Steps, FormKnows
    <2>2. made' = made /\ unheard' = unheard
      BY <1>11 DEF ReadTracking, tables, history
    <2>3. CASE ~Exists(p)
      BY <1>2, <1>11, <2>1, <2>2, <2>3 DEF ReadTracking
    <2>4. CASE Exists(p)
      <3>1. product[p].tracking \in Tracking
        BY <2>1, <2>4, ProductExists DEF ProductRow
      <3>2. c \in Saving /\ c.at = "write" /\ c.was \in Tracking /\ c.saved = form[f].saved /\ c.about = p /\ Goes(f, c)
        BY <1>11, <2>1, <2>4, <3>1 DEF Saving, Steps, ReadTracking
      <3> HIDE DEF c
      <3>3. c \in Open /\ c # Closed
        BY <3>2 DEF Saving, Open, Closed, Steps
      <3>4. form' \in [Form -> Open \cup {Closed}] /\ form'[f] = c /\ \A g \in Form : g # f => form'[g] = form[g]
        BY <3>2, <3>3, FormGoes
      <3> QED BY <2>1, <2>2, <3>2, <3>3, <3>4, StillKnows, OneFormGoes
    <2> QED BY <2>3, <2>4
  <1>12. ASSUME NEW f \in Form, ReadServings(f) PROVE FormsOK'
    <2> DEFINE p == form[f].about
               b == Servable(product[p])
               c == [form[f] EXCEPT !.at = "refreshed", !.willBe = b]
    <2>1. form[f].at = "refresh" /\ form[f].at \in Steps /\ form[f] \in Saving /\ form[f] # Closed /\ p \in Product
      BY <1>12, SavingTyped DEF ReadServings, At, Steps, FormKnows
    <2>2. made' = made /\ unheard' = unheard
      BY <1>12 DEF ReadServings
    <2>3. CASE Exists(p) /\ b # product[p].isAvailable
      <3>1. b \in BOOLEAN
        BY <2>1, <2>3, ProductExists, ServableIs
      <3>2. Goes(f, c)
        BY <1>12, <2>3 DEF ReadServings
      <3> HIDE DEF b
      <3>3. c \in Saving /\ c.at = "refreshed" /\ c.saved = form[f].saved /\ c.about = p
        BY <2>1, <3>1 DEF Saving, Steps
      <3> HIDE DEF c
      <3>4. c \in Open /\ c # Closed
        BY <3>3 DEF Saving, Open, Closed, Steps
      <3>5. form' \in [Form -> Open \cup {Closed}] /\ form'[f] = c /\ \A g \in Form : g # f => form'[g] = form[g]
        BY <3>2, <3>4, FormGoes
      <3> QED BY <2>1, <2>2, <3>3, <3>4, <3>5, StillKnows, OneFormGoes
    <2>4. CASE ~(Exists(p) /\ b # product[p].isAvailable)
      BY <1>3, <1>12, <2>1, <2>2, <2>4 DEF ReadServings, Steps
    <2> QED BY <2>3, <2>4
  <1>13. ASSUME NEW f \in Form, WriteProduct(f) PROVE FormsOK'
    BY <1>2, <1>3, <1>13 DEF WriteProduct, At, Steps, history
  <1>14. ASSUME NEW f \in Form, CheckCount(f) PROVE FormsOK'
    BY <1>2, <1>3, <1>14 DEF CheckCount, At, Steps, tables, history
  <1>15. ASSUME NEW f \in Form, SetCount(f) PROVE FormsOK'
    BY <1>2, <1>3, <1>15 DEF SetCount, At, Steps
  <1>16. ASSUME NEW f \in Form, WriteAvailability(f) PROVE FormsOK'
    BY <1>2, <1>3, <1>16 DEF WriteAvailability, At, Steps
  <1>17. ASSUME NEW f \in Form, SavePhoto(f) PROVE FormsOK'
    BY <1>2, <1>3, <1>17 DEF SavePhoto, At, Steps, history
  <1>18. ASSUME NEW f \in Form, CancelForm(f) \/ PhotoAnswered(f) PROVE FormsOK'
    BY <1>5, <1>7, <1>18 DEF CancelForm, PhotoAnswered, At, Steps, tables, history
  <1>19. ASSUME NEW f \in Form, SaveFails(f) PROVE FormsOK'
    BY <1>2, <1>19 DEF SaveFails, tables, history
  <1> QED BY <1>1, <1>4, <1>6, <1>8, <1>9, <1>10, <1>11, <1>12, <1>13, <1>14, <1>15, <1>16, <1>17, <1>18, <1>19 DEF FormsNext

\* For any number of products, forms, fillings, submits and failures.
THEOREM FormsInvariant == FormsSpec => []FormsInv
  <1>1. FormsInv /\ [FormsNext]_formVars => FormsInv'
    <2>1. ASSUME FormsInv, FormsNext PROVE FormsInv'
      <3>1. FormsTypeOK' /\ \A f \in Form : FormKnows(f)'
        BY <2>1, FormsStep, ProductsStep DEF FormsOK, ProductsOK, FormsTypeOK
      <3> QED BY <2>1, <3>1, ProductsStep DEF FormsInv, ProductsOK, RowIsRight, RecipesAreWhole, AvailabilityIsSettled
    <2>2. ASSUME FormsInv, UNCHANGED formVars PROVE FormsInv'
      BY <2>2 DEF formVars, FormsInv, FormsTypeOK, FormKnows, Heard, RecipesAreWhole, AvailabilityIsSettled, Exists
    <2> QED BY <2>1, <2>2
  <1> QED BY <1>1, FormsInvInit, PTL DEF FormsSpec

\* Products, forms and history hold values of their types.
THEOREM FormsTyped == FormsSpec => []FormsTypeOK
  <1>1. FormsInv => FormsTypeOK
    BY DEF FormsInv
  <1> QED BY <1>1, FormsInvariant, PTL

\* However saves of several forms overlap or fail halfway: one form makes two products
\* only after an answer that was lost, recipes are whole but where two saves crossed,
\* and a product is available as its stock says but where a save stopped halfway.
THEOREM FormSavesExplained == FormsSpec => []FormSavesAreExplained
  <1>1. FormsInv => FormSavesAreExplained
    <2> SUFFICES ASSUME FormsInv PROVE FormsSaveOnce
      BY DEF FormsInv, FormSavesAreExplained
    <2> SUFFICES ASSUME NEW f \in Form PROVE Cardinality(made[f] \ unheard[f]) <= 1
      BY DEF FormsSaveOnce
    <2>1. PICK p : Heard(f) \subseteq {p}
      <3>1. CASE form[f] = Closed
        BY <3>1 DEF FormsInv, FormKnows
      <3>2. CASE form[f] # Closed
        BY <3>2 DEF FormsInv, FormKnows
      <3> QED BY <3>1, <3>2
    <2>2. Heard(f) = {} \/ Heard(f) = {p}
      BY <2>1
    <2>3. Cardinality(Heard(f)) = 0 \/ Cardinality(Heard(f)) = 1
      <3>1. Cardinality({}) = 0 /\ Cardinality({p}) = 1
        BY FS_EmptySet, FS_Singleton, Zenon
      <3> QED BY <2>2, <3>1, Zenon
    <2>4. Heard(f) = made[f] \ unheard[f]
      BY DEF Heard
    <2> QED BY <2>3, <2>4
  <1> QED BY <1>1, FormsInvariant, PTL

-----------------------------------------------------------------------------
(***************************************************************************)
(* Stock adjustments and their log: for any items, adjustments and loads.  *)
(***************************************************************************)

\* Between reading the count and saving it, the count an adjustment goes by is the
\* stored one unless another was saved between.
AdjustmentHolds(k) ==
    /\ adjusting[k].step = "read" /\ k \notin between
          => /\ adjusting[k].previous = count[OfItem(k)]
             /\ Asks[k].lowers => Lowers(Asks[k], adjusting[k].previous)
    /\ adjusting[k].step \in {"saved", "told"} /\ k \notin between => RowFits(Asks[k], adjusting[k])

\* What a load of the log has found, and what it has missed.
LatestIsOf == ~selectedNow /\ logLoads[latest].at # "free" => logLoads[latest].of = selected
RowsRead   == \A l \in LogLoad : logLoads[l].rows \subseteq Matching(log, logLoads[l].of)
RowsMissed ==
    logLoads[latest].at = "read"
        => Matching(log, logLoads[latest].of) \ logLoads[latest].rows \subseteq news \cup behind

\* The inductive invariant of the stock adjustments and their log.
LogInv == LogTypeOK /\ (\A k \in Adjustment : AdjustmentHolds(k)) /\ RowsAreExplained
          /\ LatestIsOf /\ RowsRead /\ RowsMissed /\ ShownRowsAreExplained

\* What an adjustment asks for.
LEMMA AsksTyped == ASSUME NEW k \in Adjustment
    PROVE /\ OfItem(k) \in Item /\ Asks[k].lowers \in BOOLEAN
          /\ \/ Asks[k].kind = "set" /\ Asks[k].to \in Nat
             \/ Asks[k].kind = "delta" /\ Asks[k].by \in Int
  BY LogAssumption DEF Adjustment, OfItem

\* Of the free loads there is a first one.
LEMMA FirstFree == ASSUME LogTypeOK, FreeLoad # {}
    PROVE (CHOOSE f \in FreeLoad : \A o \in FreeLoad : f <= o) \in FreeLoad
  <1>1. FreeLoad \subseteq Nat
    BY DEF FreeLoad, LogLoad
  <1>2. PICK f \in FreeLoad : \A o \in FreeLoad : ~(<<o, f>> \in OpToRel(<, Nat))
    BY <1>1, NatLessThanWellFounded, WFMin, Zenon
  <1>3. \A o \in FreeLoad : ~(o < f)
    BY <1>1, <1>2 DEF OpToRel
  <1>4. \A o \in FreeLoad : f <= o
    BY <1>1, <1>3
  <1> QED BY <1>4

\* A load of the log is asked for.
LEMMA LoadMade ==
    ASSUME LogTypeOK, NEW of \in Item \cup {Everything}, loadLog(of)
    PROVE /\ logLoads' \in [LogLoad -> [of : Item \cup {Everything}, rows : SUBSET Adjustment,
                                        at : {"free", "asked", "read"}]]
          /\ latest' \in LogLoad /\ shownLog' = shownLog /\ complaint' = complaint
          /\ logLoads'[latest'].at = "asked" /\ logLoads'[latest'].of = of
          /\ \A l \in LogLoad : logLoads'[l].rows = {} \/ logLoads'[l] = logLoads[l]
  <1> DEFINE l == CHOOSE f \in FreeLoad : \A o \in FreeLoad : f <= o
  <1>1. l \in FreeLoad
    BY FirstFree DEF loadLog
  <1>2. l \in LogLoad
    BY <1>1 DEF FreeLoad
  <1>3. /\ logLoads' = [logLoads EXCEPT ![l] = [of |-> of, rows |-> {}, at |-> "asked"]]
        /\ latest' = l /\ shownLog' = shownLog /\ complaint' = complaint
    BY DEF loadLog
  <1> HIDE DEF l
  <1> QED BY <1>2, <1>3 DEF LogTypeOK

\* There are no adjustments and no rows.
LEMMA LogInvInit == LogInit => LogInv
  <1> SUFFICES ASSUME LogInit PROVE LogInv
    OBVIOUS
  <1>1. Unmade \in Over /\ NoLoad \in [of : Item \cup {Everything}, rows : SUBSET Adjustment, at : {"free", "asked", "read"}]
    BY DEF Over, Unmade, NoLoad
  <1>4. count \in [Item -> 0 .. MaxCount] /\ 1 \in LogLoad /\ 0 \in 0 .. MaxPicks /\ 0 \in 0 .. MaxLogFaults
    BY LogAssumption DEF LogInit, LogLoad
  <1>5. LogTypeOK
    BY <1>1, <1>4 DEF LogInit, LogTypeOK
  <1>2. \A k \in Adjustment : AdjustmentHolds(k)
    BY DEF LogInit, Unmade, AdjustmentHolds
  <1>3. RowsAreExplained /\ LatestIsOf /\ RowsRead /\ RowsMissed /\ ShownRowsAreExplained
    BY LogAssumption DEF LogInit, RowsAreExplained, LatestIsOf, RowsRead, RowsMissed, ShownRowsAreExplained, Quiet,
          NoLoad, LogLoad
  <1> QED BY <1>5, <1>2, <1>3 DEF LogInv

\* A load of the log.
PageRows == [of : Item \cup {Everything}, rows : SUBSET Adjustment, at : {"free", "asked", "read"}]

\* One adjustment goes on.
LEMMA StepMade ==
    ASSUME LogTypeOK, NEW k \in Adjustment, NEW c \in Begun \cup Over, To(k, c)
    PROVE  /\ adjusting' \in [Adjustment -> Begun \cup Over] /\ adjusting'[k] = c
           /\ \A o \in Adjustment : o # k => adjusting'[o] = adjusting[o]
  BY DEF To, LogTypeOK

\* An adjustment that reads the count.
LEMMA CountRead ==
    ASSUME LogInv, NEW k \in Adjustment, ReadCount(k)
    PROVE  adjusting' \in [Adjustment -> Begun \cup Over]
           /\ \A o \in Adjustment : AdjustmentHolds(o)'
  <1> DEFINE c == [step |-> "read", previous |-> count[OfItem(k)], new |-> count[OfItem(k)]]
  <1>1. c \in Begun \cup Over /\ To(k, c)
    BY AsksTyped DEF ReadCount, LogInv, LogTypeOK, Begun
  <1>2. /\ adjusting' \in [Adjustment -> Begun \cup Over] /\ adjusting'[k] = c
        /\ \A o \in Adjustment : o # k => adjusting'[o] = adjusting[o]
    BY <1>1, StepMade DEF LogInv
  <1>3. \A o \in Adjustment : AdjustmentHolds(o)'
    BY <1>2 DEF ReadCount, LogInv, AdjustmentHolds, OfItem
  <1> QED BY <1>2, <1>3

\* An adjustment that saves its count: the others that have read it come too late.
LEMMA CountSaved ==
    ASSUME LogInv, NEW k \in Adjustment, SaveCount(k)
    PROVE  /\ adjusting' \in [Adjustment -> Begun \cup Over]
           /\ count' \in [Item -> 0 .. MaxCount] /\ between' \subseteq Adjustment
           /\ \A o \in Adjustment : AdjustmentHolds(o)'
  <1> DEFINE c == [adjusting[k] EXCEPT !.step = "saved", !.new = NewCount(k)]
  <1>1. adjusting[k] \in Begun
    BY DEF SaveCount, LogInv, LogTypeOK, Over
  <1>2. c \in Begun /\ To(k, c) /\ c.step = "saved" /\ c.new = NewCount(k) /\ c.previous = adjusting[k].previous
    BY <1>1 DEF SaveCount, Begun
  <1> HIDE DEF c
  <1>3. /\ adjusting' \in [Adjustment -> Begun \cup Over] /\ adjusting'[k] = c
        /\ \A o \in Adjustment : o # k => adjusting'[o] = adjusting[o]
    BY <1>2, StepMade DEF LogInv
  <1>4. count' \in [Item -> 0 .. MaxCount] /\ count \in [Item -> 0 .. MaxCount]
    BY AsksTyped DEF SaveCount, LogInv, LogTypeOK
  <1>5. between' \subseteq Adjustment
    BY DEF SaveCount, LogInv, LogTypeOK
  <1>6. AdjustmentHolds(k)'
    <2>1. SUFFICES ASSUME k \notin between PROVE RowFits(Asks[k], c)
      BY <1>2, <1>3 DEF AdjustmentHolds, SaveCount
    <2>2. adjusting[k].previous = count[OfItem(k)] /\ (Asks[k].lowers => Lowers(Asks[k], c.previous))
      BY <1>2, <2>1 DEF LogInv, AdjustmentHolds, SaveCount
    <2>3. count[OfItem(k)] \in Int /\ NewCount(k) \in Int
      BY <1>4, AsksTyped DEF SaveCount
    <2> QED BY <1>2, <2>2, <2>3, AsksTyped DEF RowFits, Lowers, NewCount
  <1>7. \A o \in Adjustment : o # k => AdjustmentHolds(o)'
    <2> SUFFICES ASSUME NEW o \in Adjustment, o # k PROVE AdjustmentHolds(o)'
      OBVIOUS
    <2>1. AdjustmentHolds(o) /\ adjusting'[o] = adjusting[o]
      BY <1>3 DEF LogInv
    <2>2. CASE adjusting[o].step = "read" /\ o \notin between'
      <3>1. o \notin between /\ OfItem(o) # OfItem(k)
        BY <2>2 DEF SaveCount
      <3>2. count'[OfItem(o)] = count[OfItem(o)]
        BY <3>1, <1>4, AsksTyped DEF SaveCount
      <3> QED BY <2>1, <2>2, <3>1, <3>2 DEF AdjustmentHolds, OfItem
    <2>3. CASE ~(adjusting[o].step = "read" /\ o \notin between')
      BY <2>1, <2>3 DEF AdjustmentHolds, SaveCount
    <2> QED BY <2>2, <2>3
  <1> QED BY <1>3, <1>4, <1>5, <1>6, <1>7

\* Every step leaves counts, log and page their types.
LEMMA LogTypeStep == ASSUME LogInv, LogNext PROVE LogTypeOK'
  <1> USE DEF LogInv
  <1>1. ASSUME NEW k \in Adjustment, ReadCount(k) PROVE adjusting' \in [Adjustment -> Begun \cup Over]
    BY <1>1, CountRead
  <1>2. ASSUME NEW k \in Adjustment, ReadCount(k), UNCHANGED pageSide PROVE LogTypeOK'
    BY <1>1, <1>2 DEF ReadCount, LogTypeOK, pageSide
  <1>3. ASSUME NEW k \in Adjustment, SaveCount(k), UNCHANGED pageSide PROVE LogTypeOK'
    BY <1>3, CountSaved DEF SaveCount, LogTypeOK, pageSide
  <1>4. ASSUME NEW k \in Adjustment, TellScreens(k), UNCHANGED pageSide PROVE LogTypeOK'
    <2>1. adjusting[k] \in Begun
      BY <1>4 DEF TellScreens, LogTypeOK, Over
    <2>2. [adjusting[k] EXCEPT !.step = "told"] \in Begun
      BY <2>1 DEF Begun
    <2> QED BY <1>4, <2>2, StepMade DEF TellScreens, LogTypeOK, pageSide
  <1>5. ASSUME NEW k \in Adjustment, WriteRow(k), UNCHANGED pageSide PROVE LogTypeOK'
    <2>1. [step |-> "written"] \in Over
      BY DEF Over
    <2>2. behind' \subseteq Adjustment /\ misfits' \subseteq Adjustment /\ log' \subseteq Adjustment
      BY <1>5 DEF WriteRow, LogTypeOK
    <2> QED BY <1>5, <2>1, <2>2, StepMade DEF WriteRow, LogTypeOK, pageSide
  <1>6. ASSUME NEW k \in Adjustment, AdjustHere(k) PROVE LogTypeOK'
    BY <1>1, <1>6 DEF AdjustHere, ReadCount, LogTypeOK
  <1>7. ASSUME NEW k \in Adjustment, handleUpdate(k) PROVE LogTypeOK'
    BY <1>7, LoadMade DEF handleUpdate, LogTypeOK
  <1>8. ASSUME LogFault PROVE logFaults' \in 0 .. MaxLogFaults
    BY <1>8, LogAssumption DEF LogFault, LogTypeOK
  <1>9. ASSUME NEW k \in Adjustment, EventLost(k) PROVE LogTypeOK'
    BY <1>8, <1>9 DEF EventLost, LogTypeOK
  <1>10. ASSUME NEW k \in Adjustment, AdjustAnswered(k) PROVE LogTypeOK'
    BY <1>10, LoadMade DEF AdjustAnswered, LogTypeOK
  <1>11. ASSUME NEW k \in Adjustment, AdjustFails(k) PROVE LogTypeOK'
    <2>1. [step |-> "ended"] \in Over
      BY DEF Over
    <2>2. adjusting' \in [Adjustment -> Begun \cup Over]
      BY <1>11, <2>1, StepMade DEF AdjustFails, LogTypeOK
    <2> QED BY <1>8, <1>11, <2>2 DEF AdjustFails, LogTypeOK
  <1>12. CASE LoadSelected
    BY <1>12, LoadMade DEF LoadSelected, LogTypeOK, apiSide
  <1>13. ASSUME NEW i \in Item \cup {Everything}, SelectProduct(i) PROVE LogTypeOK'
    <2>1. picks' \in 0 .. MaxPicks
      BY <1>13, LogAssumption DEF SelectProduct, LogTypeOK
    <2> QED BY <1>13, <2>1 DEF SelectProduct, LogTypeOK, apiSide
  <1>14. ASSUME NEW l \in LogLoad, ReadLog(l) PROVE LogTypeOK'
    <2>1. logLoads' \in [LogLoad -> PageRows]
      BY <1>14 DEF ReadLog, LogTypeOK, PageRows, Matching
    <2> QED BY <1>14, <2>1 DEF ReadLog, LogTypeOK, PageRows, apiSide
  <1>15. NoLoad \in PageRows
    BY DEF NoLoad, PageRows
  <1>16. ASSUME NEW l \in LogLoad, logLoads' = [logLoads EXCEPT ![l] = NoLoad] PROVE logLoads' \in [LogLoad -> PageRows]
    BY <1>15, <1>16 DEF LogTypeOK, PageRows
  <1>17. ASSUME NEW l \in LogLoad, LogAnswered(l) PROVE LogTypeOK'
    <2>1. shownLog' \subseteq Adjustment /\ behind' \subseteq Adjustment
      BY <1>17 DEF LogAnswered, LogTypeOK
    <2>2. complaint' \in BOOLEAN
      BY <1>17, Zenon DEF LogAnswered, LogTypeOK
    <2> QED BY <1>16, <1>17, <2>1, <2>2 DEF LogAnswered, LogTypeOK, PageRows
  <1>18. ASSUME NEW l \in LogLoad, LogFails(l) PROVE LogTypeOK'
    <2>1. complaint' \in BOOLEAN
      BY <1>18, Zenon DEF LogFails, LogTypeOK, Counts
    <2> QED BY <1>8, <1>16, <1>18, <2>1 DEF LogFails, LogTypeOK, PageRows, apiSide
  <1> QED BY <1>2, <1>3, <1>4, <1>5, <1>6, <1>7, <1>9, <1>10, <1>11, <1>12, <1>13, <1>14, <1>17, <1>18
          DEF LogNext, AdjustmentStep

\* Every step keeps what is said of the adjustments.
LEMMA AdjustmentsStep ==
    ASSUME LogInv, LogNext
    PROVE  (\A k \in Adjustment : AdjustmentHolds(k)') /\ RowsAreExplained'
  <1>1. ASSUME NEW k \in Adjustment, ReadCount(k) PROVE (\A o \in Adjustment : AdjustmentHolds(o)') /\ RowsAreExplained'
    BY <1>1, CountRead DEF ReadCount, RowsAreExplained, LogInv
  <1>2. ASSUME NEW k \in Adjustment, SaveCount(k) PROVE (\A o \in Adjustment : AdjustmentHolds(o)') /\ RowsAreExplained'
    BY <1>2, CountSaved DEF SaveCount, RowsAreExplained, LogInv
  <1>3. ASSUME NEW k \in Adjustment, TellScreens(k) PROVE (\A o \in Adjustment : AdjustmentHolds(o)') /\ RowsAreExplained'
    <2>1. adjusting[k] \in Begun
      BY <1>3 DEF TellScreens, LogTypeOK, LogInv, Over
    <2>2. /\ adjusting'[k] = [adjusting[k] EXCEPT !.step = "told"]
          /\ \A o \in Adjustment : o # k => adjusting'[o] = adjusting[o]
      BY <1>3 DEF TellScreens, To, LogInv, LogTypeOK
    <2>3. AdjustmentHolds(k)'
      BY <1>3, <2>1, <2>2 DEF TellScreens, LogInv, AdjustmentHolds, RowFits, Begun
    <2> QED BY <1>3, <2>2, <2>3 DEF TellScreens, LogInv, AdjustmentHolds, OfItem, RowsAreExplained
  <1>4. ASSUME NEW k \in Adjustment, WriteRow(k) PROVE (\A o \in Adjustment : AdjustmentHolds(o)') /\ RowsAreExplained'
    <2>1. /\ adjusting'[k] = [step |-> "written"]
          /\ \A o \in Adjustment : o # k => adjusting'[o] = adjusting[o]
      BY <1>4 DEF WriteRow, To, LogInv, LogTypeOK
    <2>2. RowsAreExplained'
      BY <1>4 DEF WriteRow, LogInv, AdjustmentHolds, RowsAreExplained
    <2> QED BY <1>4, <2>1, <2>2 DEF WriteRow, LogInv, AdjustmentHolds, OfItem
  <1>5. ASSUME NEW k \in Adjustment, AdjustFails(k) PROVE (\A o \in Adjustment : AdjustmentHolds(o)') /\ RowsAreExplained'
    <2>1. \A o \in Adjustment : adjusting'[o] = adjusting[o] \/ adjusting'[o].step = "ended"
      BY <1>5 DEF AdjustFails, To, LogInv, LogTypeOK
    <2> QED BY <1>5, <2>1 DEF AdjustFails, LogInv, AdjustmentHolds, OfItem, RowsAreExplained
  <1>6. ASSUME UNCHANGED <<count, adjusting, between, misfits>>
        PROVE (\A o \in Adjustment : AdjustmentHolds(o)') /\ RowsAreExplained'
    BY <1>6 DEF LogInv, AdjustmentHolds, OfItem, RowsAreExplained
  <1> QED BY <1>1, <1>2, <1>3, <1>4, <1>5, <1>6
          DEF LogNext, AdjustmentStep, AdjustHere, handleUpdate, EventLost, AdjustAnswered, LoadSelected,
              SelectProduct, ReadLog, LogAnswered, LogFails, apiSide

\* What is said of the page.
PageShows == LatestIsOf /\ RowsRead /\ RowsMissed /\ ShownRowsAreExplained

\* A load that is asked for leaves it.
LEMMA LoadKeeps ==
    ASSUME LogInv, LogTypeOK', loadLog(selected), UNCHANGED <<log, selected>>
    PROVE  PageShows'
  <1>1. selected \in Item \cup {Everything}
    BY DEF LogInv, LogTypeOK
  <1>2. /\ logLoads'[latest'].at = "asked" /\ logLoads'[latest'].of = selected
        /\ \A l \in LogLoad : logLoads'[l].rows = {} \/ logLoads'[l] = logLoads[l]
    BY <1>1, LoadMade DEF LogInv
  <1>4. RowsRead'
    BY <1>2 DEF LogInv, RowsRead, Matching, OfItem
  <1> QED BY <1>2, <1>4 DEF PageShows, LatestIsOf, RowsMissed, ShownRowsAreExplained, Quiet

\* Every step keeps what is said of the page.
LEMMA PageStep == ASSUME LogInv, LogNext PROVE PageShows'
  <1> USE DEF LogInv, PageShows
  <1>0. LogTypeOK'
    BY LogTypeStep
  <1>1. ASSUME UNCHANGED <<pageSide, log, news, behind>> PROVE PageShows'
    BY <1>1 DEF pageSide, LatestIsOf, RowsRead, RowsMissed, ShownRowsAreExplained, Quiet, Matching, OfItem
  <1>2. ASSUME NEW k \in Adjustment, TellScreens(k), UNCHANGED pageSide PROVE PageShows'
    BY <1>2 DEF TellScreens, pageSide, LatestIsOf, RowsRead, RowsMissed, ShownRowsAreExplained, Quiet, Matching, OfItem
  <1>3. ASSUME NEW k \in Adjustment, WriteRow(k), UNCHANGED pageSide PROVE PageShows'
    <2>1. LatestIsOf' /\ RowsRead'
      BY <1>3 DEF WriteRow, pageSide, LatestIsOf, RowsRead, Matching, OfItem
    <2>2. logLoads[latest].at # "asked" => k \in news' \cup behind'
      BY <1>3 DEF WriteRow
    <2>3. news' = news /\ behind \subseteq behind'
      BY <1>3 DEF WriteRow
    <2>4. log' = log \cup {k} /\ logLoads' = logLoads /\ latest' = latest /\ shownLog' = shownLog /\ selected' = selected
          /\ selectedNow' = selectedNow /\ complaint' = complaint
      BY <1>3 DEF WriteRow, pageSide
    <2>5. \A of : Matching(log, of) \subseteq Matching(log', of) /\ Matching(log', of) \subseteq Matching(log, of) \cup {k}
      BY <2>4 DEF Matching
    <2>6. RowsMissed'
      BY <2>2, <2>3, <2>4, <2>5 DEF RowsMissed, Matching, OfItem
    <2>7. ShownRowsAreExplained'
      BY <2>2, <2>3, <2>4, <2>5 DEF ShownRowsAreExplained, Quiet, Matching, OfItem
    <2> QED BY <2>1, <2>6, <2>7
  <1>4. ASSUME NEW k \in Adjustment, AdjustHere(k) PROVE PageShows'
    BY <1>1, <1>4 DEF AdjustHere, ReadCount, LatestIsOf, RowsRead, RowsMissed, ShownRowsAreExplained, Quiet, Matching, OfItem
  <1>5. ASSUME NEW k \in Adjustment, handleUpdate(k) \/ AdjustAnswered(k) PROVE PageShows'
    BY <1>0, <1>5, LoadKeeps DEF handleUpdate, AdjustAnswered
  <1>6. CASE LoadSelected
    BY <1>0, <1>6, LoadKeeps DEF LoadSelected, apiSide
  <1>7. ASSUME NEW k \in Adjustment, EventLost(k) \/ AdjustFails(k) PROVE PageShows'
    BY <1>7 DEF EventLost, AdjustFails, LatestIsOf, RowsRead, RowsMissed, ShownRowsAreExplained, Quiet, Matching, OfItem
  <1>8. ASSUME NEW i \in Item \cup {Everything}, SelectProduct(i) PROVE PageShows'
    BY <1>8 DEF SelectProduct, apiSide, LatestIsOf, RowsRead, RowsMissed, ShownRowsAreExplained, Quiet, Matching, OfItem
  <1>9. ASSUME NEW l \in LogLoad, ReadLog(l) PROVE PageShows'
    <2>1. /\ logLoads'[l] = [logLoads[l] EXCEPT !.at = "read", !.rows = Matching(log, logLoads[l].of)]
          /\ \A m \in LogLoad : m # l => logLoads'[m] = logLoads[m]
      BY <1>9 DEF ReadLog, LogTypeOK
    <2>2. logLoads'[l].at = "read" /\ logLoads'[l].rows = Matching(log, logLoads[l].of) /\ logLoads'[l].of = logLoads[l].of
      BY <2>1, <1>9 DEF LogTypeOK
    <2>3. UNCHANGED <<log, news, behind, selected, selectedNow, latest, shownLog, complaint>>
      BY <1>9 DEF ReadLog, apiSide
    <2>4. logLoads[l].at = "asked" /\ latest \in LogLoad
      BY <1>9 DEF ReadLog, LogTypeOK
    <2> QED BY <2>1, <2>2, <2>3, <2>4 DEF LatestIsOf, RowsRead, RowsMissed, ShownRowsAreExplained, Quiet, Matching, OfItem
  <1>10. ASSUME NEW l \in LogLoad, logLoads' = [logLoads EXCEPT ![l] = NoLoad]
         PROVE  logLoads'[l].rows = {} /\ logLoads'[l].at = "free" /\ \A m \in LogLoad : m # l => logLoads'[m] = logLoads[m]
    BY <1>10 DEF NoLoad, LogTypeOK
  <1>11. ASSUME NEW l \in LogLoad, LogAnswered(l) PROVE PageShows'
    <2>1. UNCHANGED <<log, news, selected, selectedNow, latest>> /\ logLoads[l].at = "read" /\ latest \in LogLoad
      BY <1>11 DEF LogAnswered, LogTypeOK
    <2>2. logLoads'[l].rows = {} /\ logLoads'[l].at = "free" /\ \A m \in LogLoad : m # l => logLoads'[m] = logLoads[m]
      BY <1>10, <1>11 DEF LogAnswered
    <2>3. LatestIsOf' /\ RowsRead'
      BY <2>1, <2>2 DEF LatestIsOf, RowsRead, Matching, OfItem
    <2>4. CASE l = latest
      <3>1. shownLog' = logLoads[l].rows /\ behind' = behind \ logLoads[l].rows
        BY <1>11, <2>4 DEF LogAnswered, Counts
      <3>2. ~selectedNow => logLoads[l].of = selected
        BY <2>1, <2>4 DEF LatestIsOf
      <3> QED BY <2>1, <2>2, <2>3, <2>4, <3>1, <3>2 DEF RowsRead, RowsMissed, ShownRowsAreExplained, Quiet, Matching, OfItem
    <2>5. CASE l # latest
      BY <1>11, <2>1, <2>2, <2>3, <2>5 DEF LogAnswered, Counts, RowsMissed, ShownRowsAreExplained, Quiet, Matching, OfItem
    <2> QED BY <2>4, <2>5
  <1>12. ASSUME NEW l \in LogLoad, LogFails(l) PROVE PageShows'
    <2>1. UNCHANGED <<log, news, behind, selected, selectedNow, latest, shownLog>> /\ latest \in LogLoad
      BY <1>12 DEF LogFails, LogTypeOK, apiSide
    <2>2. logLoads'[l].rows = {} /\ logLoads'[l].at = "free" /\ \A m \in LogLoad : m # l => logLoads'[m] = logLoads[m]
      BY <1>10, <1>12 DEF LogFails
    <2>3. LatestIsOf' /\ RowsRead' /\ RowsMissed'
      BY <2>1, <2>2 DEF LatestIsOf, RowsRead, RowsMissed, Matching, OfItem
    <2>4. l = latest => complaint'
      BY <1>12 DEF LogFails, Counts
    <2>5. l # latest => complaint' = complaint
      BY <1>12, Zenon DEF LogFails, Counts, LogTypeOK
    <2> QED BY <2>1, <2>2, <2>3, <2>4, <2>5 DEF ShownRowsAreExplained, Quiet, Matching, OfItem
  <1> QED BY <1>1, <1>2, <1>3, <1>4, <1>5, <1>6, <1>7, <1>8, <1>9, <1>11, <1>12
          DEF LogNext, AdjustmentStep, ReadCount, SaveCount

\* For any number of items, any adjustments, loads and faults.
THEOREM LogInvariant == LogSpec => []LogInv
  <1>1. LogInv /\ [LogNext]_logVars => LogInv'
    <2>1. ASSUME LogInv, LogNext PROVE LogInv'
      BY <2>1, LogTypeStep, AdjustmentsStep, PageStep DEF LogInv, PageShows
    <2>2. ASSUME LogInv, UNCHANGED logVars PROVE LogInv'
      BY <2>2 DEF logVars, LogInv, LogTypeOK, AdjustmentHolds, RowsAreExplained, LatestIsOf, RowsRead, RowsMissed,
             ShownRowsAreExplained, Quiet, Matching, OfItem
    <2> QED BY <2>1, <2>2
  <1> QED BY <1>1, LogInvInit, PTL DEF LogSpec

\* Counts, adjustments, log and page hold values of their types.
THEOREM LogTyped == LogSpec => []LogTypeOK
  <1>1. LogInv => LogTypeOK
    BY DEF LogInv
  <1> QED BY <1>1, LogInvariant, PTL

\* However adjustments overlap: a row of the log is what its adjustment asked for
\* unless another was saved between its read and its write, and the page shows the
\* rows of what it was asked to show, but for news that came too late.
THEOREM LogExplained == LogSpec => []LogIsExplained
  <1>1. LogInv => LogIsExplained
    BY DEF LogInv, LogIsExplained
  <1> QED BY <1>1, LogInvariant, PTL

-----------------------------------------------------------------------------
(***************************************************************************)
(* Barcode lookup: for any number of products, scans and changes.          *)
(***************************************************************************)

\* There have been that many changes of the stock of a product.
ThereAre(c, n) == changes[c] \in 0 .. MaxStockChanges /\ n <= changes[c]

\* Events that have not come to the page.
Events == unsent \cup Range(onItsWay)

\* Nothing is ahead of the stock.
StockIsKnown ==
    /\ \A e \in Events : ThereAre(e.code, e.nth)
    /\ \A r \in asked : r.read /\ r.answer # Unknown => ThereAre(r.code, r.answer)
    /\ adjustingHere.at = "open" => ThereAre(adjustingHere.code, 0)
    /\ adjustingHere.at = "saved" => ThereAre(adjustingHere.code, adjustingHere.nth)
    /\ lookup.state = "found" => ThereAre(lookup.product, lookup.nth)

\* The last scan is the one asked for last.
ScansInOrder ==
    \A r \in asked : r.id <= scans /\ (r.id = scans => r.code = lastCode)

\* The inductive invariant of the barcode lookup.
LookupInv == LookupTypeOK /\ StockIsKnown /\ ScansInOrder /\ LookupIsExplained

\* A lookup asked for, and what the page shows.
Question == [id : 1 .. LastScan, code : Code, read : BOOLEAN, answer : Stocks]
LookupState == [state : {"idle"}] \cup [state : {"loading", "notFound", "error"}, code : Code]
          \cup [state : {"found"}, code : Code, product : Code, nth : 0 .. MaxStockChanges]

\* What is on its way, with and without the event that comes first.
LEMMA EventsTyped == ASSUME LookupTypeOK
    PROVE /\ Events \subseteq StockEvent
          /\ onItsWay # << >> => /\ Head(onItsWay) \in StockEvent /\ Head(onItsWay) \in Range(onItsWay)
                                 /\ Tail(onItsWay) \in Seq(StockEvent)
                                 /\ Range(Tail(onItsWay)) \subseteq Range(onItsWay)
                                 /\ Range(onItsWay) \subseteq Range(Tail(onItsWay)) \cup {Head(onItsWay)}
  <1>1. onItsWay \in Seq(StockEvent) /\ DOMAIN onItsWay = 1 .. Len(onItsWay) /\ Len(onItsWay) \in Nat
    BY DEF LookupTypeOK
  <1>2. \A i \in 1 .. Len(onItsWay) : onItsWay[i] \in StockEvent
    BY <1>1
  <1>3. Events \subseteq StockEvent
    BY <1>1, <1>2 DEF Events, Range, LookupTypeOK
  <1>4. ASSUME onItsWay # << >>
        PROVE /\ Head(onItsWay) = onItsWay[1] /\ 1 \in 1 .. Len(onItsWay) /\ Tail(onItsWay) \in Seq(StockEvent)
              /\ Len(Tail(onItsWay)) = Len(onItsWay) - 1
              /\ \A i \in 1 .. Len(onItsWay) - 1 : Tail(onItsWay)[i] = onItsWay[i + 1]
    BY <1>1, <1>4, HeadTailProperties
  <1>5. ASSUME onItsWay # << >>
        PROVE Range(Tail(onItsWay)) \subseteq Range(onItsWay)
    <2>1. DOMAIN Tail(onItsWay) = 1 .. Len(onItsWay) - 1
      BY <1>4, <1>5
    <2> QED BY <1>1, <1>4, <1>5, <2>1 DEF Range
  <1>6. ASSUME onItsWay # << >>, NEW i \in 1 .. Len(onItsWay)
        PROVE onItsWay[i] \in Range(Tail(onItsWay)) \cup {Head(onItsWay)}
    <2>1. DOMAIN Tail(onItsWay) = 1 .. Len(onItsWay) - 1
      BY <1>4, <1>6
    <2>2. CASE i = 1
      BY <1>4, <1>6, <2>2
    <2>3. CASE i # 1
      <3>1. i - 1 \in 1 .. Len(onItsWay) - 1 /\ (i - 1) + 1 = i
        BY <1>1, <2>3
      <3>2. Tail(onItsWay)[i - 1] = onItsWay[i]
        BY <1>4, <1>6, <3>1
      <3> QED BY <2>1, <3>1, <3>2 DEF Range
    <2> QED BY <2>2, <2>3
  <1> QED BY <1>1, <1>2, <1>3, <1>4, <1>5, <1>6 DEF Range

\* One more event on its way.
LEMMA EventSent == ASSUME LookupTypeOK, NEW e \in StockEvent
    PROVE Append(onItsWay, e) \in Seq(StockEvent) /\ Range(Append(onItsWay, e)) = Range(onItsWay) \cup {e}
  <1>1. onItsWay \in Seq(StockEvent)
    BY DEF LookupTypeOK
  <1>2. /\ Append(onItsWay, e) \in Seq(StockEvent)
        /\ DOMAIN Append(onItsWay, e) = 1 .. Len(onItsWay) + 1 /\ Len(onItsWay) \in Nat
        /\ DOMAIN onItsWay = 1 .. Len(onItsWay)
        /\ \A i \in 1 .. Len(onItsWay) : Append(onItsWay, e)[i] = onItsWay[i]
        /\ Append(onItsWay, e)[Len(onItsWay) + 1] = e
    BY <1>1, AppendProperties
  <1>3. \A i \in 1 .. Len(onItsWay) + 1 : i \in 1 .. Len(onItsWay) \/ i = Len(onItsWay) + 1
    BY <1>2
  <1> QED BY <1>2, <1>3 DEF Range

\* Nothing has been scanned.
LEMMA LookupInvInit == LookupInit => LookupInv
  <1> SUFFICES ASSUME LookupInit PROVE LookupInv
    OBVIOUS
  <1>4. changes \in [Code -> Stocks] /\ scans \in 0 .. LastScan /\ drops \in 0 .. MaxDrops
    BY LookupAssumption DEF LookupInit, Stocks
  <1>5. lookup \in [state : {"idle"}] /\ adjustingHere \in {Shut} /\ adding \in {Shut} /\ onItsWay \in Seq(StockEvent)
    BY DEF LookupInit
  <1>1. LookupTypeOK
    BY <1>4, <1>5 DEF LookupInit, LookupTypeOK
  <1>2. Range(onItsWay) = {}
    BY DEF LookupInit, Range
  <1>3. StockIsKnown /\ ScansInOrder /\ LookupIsExplained
    BY <1>2 DEF LookupInit, StockIsKnown, ScansInOrder, LookupIsExplained, ShowsLastScan, StockIsLive, Events, Shut
  <1> QED BY <1>1, <1>3 DEF LookupInv

\* Every step leaves stock, events and page their types.
LEMMA LookupTypeStep == ASSUME LookupTypeOK, StockIsKnown, LookupNext PROVE LookupTypeOK'
  <1>1. ASSUME NEW c \in Code, Saved(c)
        PROVE  /\ changes' \in [Code -> Stocks] /\ unsent' \subseteq StockEvent
               /\ changes[c] + 1 \in 0 .. MaxStockChanges
    <2>1. changes[c] + 1 \in 0 .. MaxStockChanges
      BY <1>1, LookupAssumption DEF Saved
    <2> QED BY <1>1, <2>1 DEF Saved, LookupTypeOK, Stocks, StockEvent
  <1>2. ASSUME Drop PROVE drops' \in 0 .. MaxDrops
    BY <1>2, LookupAssumption DEF Drop, LookupTypeOK
  <1>3. ASSUME NEW c \in Code, NEW p \in Code, NEW n \in 0 .. MaxStockChanges, NEW gone, Show(c, p, n, gone)
        PROVE  lookup' \in LookupState /\ outdated' \in BOOLEAN
    <2>1. lookup' \in LookupState
      BY <1>3 DEF Show, LookupState
    <2>2. outdated' \in BOOLEAN
      BY <1>3, Zenon DEF Show
    <2> QED BY <2>1, <2>2
  <1>4. ASSUME NEW c \in Code, runLookup(c)
        PROVE  /\ scans' \in 0 .. LastScan /\ asked' \subseteq Question /\ lookup' \in LookupState /\ lastCode' \in Code
               /\ outdated' \in BOOLEAN /\ addFailed' \in BOOLEAN
    <2>1. scans' \in 0 .. LastScan /\ scans + 1 \in 1 .. LastScan
      BY <1>4, LookupAssumption DEF runLookup, LookupTypeOK
    <2>2. [id |-> scans + 1, code |-> c, read |-> FALSE, answer |-> Unknown] \in Question
      BY <2>1 DEF Question, Stocks
    <2>3. lookup' \in LookupState
      BY <1>4 DEF runLookup, LookupState
    <2>4. outdated' \in BOOLEAN /\ addFailed' \in BOOLEAN
      BY <1>4, Zenon DEF runLookup
    <2> QED BY <1>4, <2>1, <2>2, <2>3, <2>4 DEF runLookup, LookupTypeOK, Question
  <1>5. ASSUME NEW c \in Code, StockChanges(c) PROVE LookupTypeOK'
    BY <1>1, <1>5 DEF StockChanges, LookupTypeOK
  <1>6. ASSUME NEW c \in Code, Scan(c) PROVE LookupTypeOK'
    BY <1>4, <1>6 DEF Scan, stockSide, LookupTypeOK, Question, LookupState
  <1>7. ASSUME NEW e \in unsent, SendEvent(e) PROVE LookupTypeOK'
    BY <1>7, EventSent DEF SendEvent, LookupTypeOK
  <1>8. lookup.state = "found" => lookup.code \in Code /\ lookup.product \in Code
    BY DEF LookupTypeOK
  <1>9. CASE onInventoryUpdated
    <2> DEFINE e == Head(onItsWay)
    <2>1. e \in StockEvent /\ onItsWay' \in Seq(StockEvent)
      BY <1>9, EventsTyped DEF onInventoryUpdated
    <2>2. lookup' \in LookupState /\ outdated' \in BOOLEAN
      BY <1>3, <1>8, <1>9, <2>1 DEF onInventoryUpdated, Updates, Found, LookupTypeOK, LookupState, StockEvent
    <2> QED BY <1>9, <2>1, <2>2 DEF onInventoryUpdated, LookupTypeOK, LookupState
  <1>10. CASE EventDropped
    <2>1. onItsWay' \in Seq(StockEvent)
      BY <1>10, EventsTyped DEF EventDropped
    <2>2. outdated' \in BOOLEAN
      BY <1>10, Zenon DEF EventDropped, LookupTypeOK
    <2> QED BY <1>2, <1>10, <2>1, <2>2 DEF EventDropped, LookupTypeOK
  <1>11. ASSUME NEW r \in asked, ReadProduct(r) PROVE LookupTypeOK'
    <2>1. r \in Question /\ changes[r.code] \in Stocks
      BY DEF LookupTypeOK, Question
    <2>2. [r EXCEPT !.read = TRUE, !.answer = changes[r.code]] \in Question
      BY <2>1 DEF Question
    <2> QED BY <1>11, <2>2 DEF ReadProduct, stockSide, LookupTypeOK, Question
  <1>12. ASSUME NEW r \in asked, LookupAnswered(r) PROVE LookupTypeOK'
    <2>1. r.code \in Code /\ (r.answer # Unknown => r.answer \in 0 .. MaxStockChanges)
      BY DEF LookupTypeOK, Stocks
    <2>2. [state |-> "notFound", code |-> r.code] \in LookupState
      BY <2>1 DEF LookupState
    <2>3. lookup' \in LookupState /\ outdated' \in BOOLEAN
      BY <1>3, <1>12, <2>1, <2>2 DEF LookupAnswered, LookupTypeOK, LookupState
    <2> QED BY <1>12, <2>3 DEF LookupAnswered, stockSide, LookupTypeOK, LookupState
  <1>13. ASSUME NEW r \in asked, LookupFails(r) PROVE LookupTypeOK'
    <2>1. [state |-> "error", code |-> r.code] \in LookupState
      BY DEF LookupTypeOK, LookupState
    <2>2. lookup' \in LookupState
      BY <1>13, <2>1 DEF LookupFails, LookupTypeOK, LookupState
    <2> QED BY <1>2, <1>13, <2>2 DEF LookupFails, stockSide, LookupTypeOK, LookupState
  <1>14. CASE OpenAdjust
    BY <1>8, <1>14 DEF OpenAdjust, stockSide, LookupTypeOK
  <1>15. CASE SaveAdjust
    <2>1. adjustingHere.code \in Code
      BY <1>15 DEF SaveAdjust, LookupTypeOK, Shut
    <2> QED BY <1>1, <1>15, <2>1 DEF SaveAdjust, LookupTypeOK
  <1>16. adjustingHere.at = "saved" => adjustingHere.code \in Code /\ adjustingHere.nth \in 0 .. MaxStockChanges
    BY DEF LookupTypeOK, Shut
  <1>17. CASE handleAdjusted
    <2>1. lookup' \in LookupState /\ outdated' \in BOOLEAN
      BY <1>3, <1>8, <1>16, <1>17 DEF handleAdjusted, LookupTypeOK, LookupState
    <2> QED BY <1>17, <2>1 DEF handleAdjusted, stockSide, LookupTypeOK, LookupState
  <1>18. CASE AdjustAnswerLost
    BY <1>2, <1>16, <1>18 DEF AdjustAnswerLost, stockSide, LookupTypeOK
  <1>19. CASE CloseAdjust
    BY <1>19 DEF CloseAdjust, stockSide, LookupTypeOK
  <1>20. CASE startAdding
    <2>1. lookup.code \in Code
      BY <1>20 DEF startAdding, LookupTypeOK
    <2> QED BY <1>20, <2>1 DEF startAdding, stockSide, LookupTypeOK
  <1>21. adding.at \in {"categories", "form"} => adding.code \in Code
    BY DEF LookupTypeOK, Shut
  <1>22. CASE CategoriesAnswered
    <2>1. adding' \in [at : {"categories", "form"}, code : Code]
      BY <1>22 DEF CategoriesAnswered, LookupTypeOK, Shut
    <2> QED BY <1>22, <2>1 DEF CategoriesAnswered, stockSide, LookupTypeOK
  <1>23. CASE CategoriesFail
    <2>1. lookup' \in LookupState
      BY <1>21, <1>23 DEF CategoriesFail, LookupState
    <2> QED BY <1>2, <1>23, <2>1 DEF CategoriesFail, stockSide, LookupTypeOK, LookupState
  <1>24. CASE handleAdded
    <2>1. adding.code \in Code
      BY <1>21, <1>24 DEF handleAdded
    <2>3. 0 \in Stocks
      BY LookupAssumption DEF Stocks
    <2>2. changes' \in [Code -> Stocks]
      BY <1>24, <2>3 DEF handleAdded, LookupTypeOK
    <2> QED BY <1>4, <1>24, <2>1, <2>2 DEF handleAdded, LookupTypeOK, Question, LookupState
  <1>25. CASE CloseForm
    BY <1>25 DEF CloseForm, stockSide, LookupTypeOK
  <1> QED BY <1>5, <1>6, <1>7, <1>9, <1>10, <1>11, <1>12, <1>13, <1>14, <1>15, <1>17, <1>18, <1>19, <1>20,
             <1>22, <1>23, <1>24, <1>25 DEF LookupNext

\* Changes are not taken back.
LEMMA StockGrows ==
    ASSUME LookupTypeOK, LookupNext
    PROVE  \A c \in Code, n \in Nat : ThereAre(c, n) => ThereAre(c, n)'
  <1>1. ASSUME NEW d \in Code, Saved(d) PROVE \A c \in Code, n \in Nat : ThereAre(c, n) => ThereAre(c, n)'
    <2>1. changes'[d] = changes[d] + 1 /\ changes[d] + 1 \in 0 .. MaxStockChanges /\ \A c \in Code : c # d => changes'[c] = changes[c]
      BY <1>1, LookupAssumption DEF Saved, LookupTypeOK
    <2> QED BY <2>1 DEF ThereAre
  <1>2. ASSUME changes' = changes PROVE \A c \in Code, n \in Nat : ThereAre(c, n) => ThereAre(c, n)'
    BY <1>2 DEF ThereAre
  <1>3. CASE handleAdded
    BY <1>3, LookupAssumption DEF handleAdded, LookupTypeOK, ThereAre
  <1>4. SaveAdjust => adjustingHere.code \in Code
    BY DEF SaveAdjust, LookupTypeOK, Shut
  <1> QED BY <1>1, <1>2, <1>3, <1>4 DEF LookupNext, StockChanges, Scan, SendEvent, onInventoryUpdated, EventDropped,
             ReadProduct, LookupAnswered, LookupFails, OpenAdjust, SaveAdjust, handleAdjusted, AdjustAnswerLost,
             CloseAdjust, startAdding, CategoriesAnswered, CategoriesFail, CloseForm, stockSide

\* A new change is there, and its event is one of those to come.
LEMMA SavedNow ==
    ASSUME LookupInv, NEW c \in Code, NEW n, n = changes[c] + 1, Saved(c), onItsWay' = onItsWay
    PROVE  /\ ThereAre(c, n)' /\ n \in Nat /\ ThereAre(c, 0)'
           /\ Events' = Events \cup {[code |-> c, nth |-> n]}
           /\ changes'[c] = n /\ \A d \in Code : d # c => changes'[d] = changes[d]
  <1>1. n \in 0 .. MaxStockChanges /\ changes'[c] = n /\ \A d \in Code : d # c => changes'[d] = changes[d]
    BY LookupAssumption DEF Saved, LookupInv, LookupTypeOK
  <1>2. ThereAre(c, n)' /\ n \in Nat /\ ThereAre(c, 0)'
    BY <1>1, LookupAssumption DEF ThereAre
  <1> QED BY <1>1, <1>2 DEF Events, Saved

\* Events come and are lost; a new one is of a change that was saved.
LEMMA EventsStep ==
    ASSUME LookupInv, LookupNext
    PROVE  \/ Events' \subseteq Events
           \/ \E c \in Code : Saved(c) /\ onItsWay' = onItsWay
  <1> USE DEF LookupInv
  <1>1. ASSUME NEW c \in Code, StockChanges(c) PROVE Saved(c) /\ onItsWay' = onItsWay
    BY <1>1 DEF StockChanges
  <1>2. ASSUME NEW e \in unsent, SendEvent(e) PROVE Events' \subseteq Events
    BY <1>2, EventSent DEF SendEvent, Events, LookupTypeOK
  <1>3. ASSUME onInventoryUpdated \/ EventDropped PROVE Events' \subseteq Events
    BY <1>3, EventsTyped DEF onInventoryUpdated, EventDropped, Events
  <1>4. CASE SaveAdjust
    <2>1. adjustingHere.code \in Code
      BY <1>4 DEF SaveAdjust, LookupTypeOK, Shut
    <2> QED BY <1>4, <2>1 DEF SaveAdjust
  <1>5. ASSUME UNCHANGED <<unsent, onItsWay>> PROVE Events' \subseteq Events
    BY <1>5 DEF Events
  <1> QED BY <1>1, <1>2, <1>3, <1>4, <1>5 DEF LookupNext, Scan, ReadProduct, LookupAnswered, LookupFails, OpenAdjust,
             handleAdjusted, AdjustAnswerLost, CloseAdjust, startAdding, CategoriesAnswered, CategoriesFail,
             handleAdded, CloseForm, stockSide

\* Every step keeps the page and the events behind the stock.
LEMMA StockStep == ASSUME LookupInv, LookupNext PROVE StockIsKnown'
  <1> USE DEF LookupInv
  <1> DEFINE After(c, n) == changes'[c] \in 0 .. MaxStockChanges /\ n <= changes'[c]
  <1>0. \A c \in Code, n \in Nat : ThereAre(c, n) => After(c, n)
    BY StockGrows DEF ThereAre
  <1>1. \A e \in Events : e.code \in Code /\ e.nth \in Nat
    BY EventsTyped, LookupAssumption DEF StockEvent
  <1>2. \A e \in Events : After(e.code, e.nth)
    BY <1>0, <1>1 DEF StockIsKnown
  <1>3. \A r \in asked : r.read /\ r.answer # Unknown => After(r.code, r.answer)
    <2>1. \A r \in asked : r.code \in Code /\ (r.answer # Unknown => r.answer \in Nat)
      BY LookupAssumption DEF LookupTypeOK, Stocks
    <2> QED BY <1>0, <2>1 DEF StockIsKnown
  <1>4. adjustingHere.at = "open" => adjustingHere.code \in Code /\ After(adjustingHere.code, 0)
    <2>1. adjustingHere.at = "open" => adjustingHere.code \in Code
      BY DEF LookupTypeOK, Shut
    <2> QED BY <1>0, <2>1 DEF StockIsKnown
  <1>5. adjustingHere.at = "saved" => /\ adjustingHere.code \in Code /\ adjustingHere.nth \in Nat
                                      /\ After(adjustingHere.code, adjustingHere.nth) /\ After(adjustingHere.code, 0)
    <2>1. adjustingHere.at = "saved" => adjustingHere.code \in Code /\ adjustingHere.nth \in Nat
      BY LookupAssumption DEF LookupTypeOK, Shut
    <2> QED BY <1>0, <2>1 DEF StockIsKnown
  <1>6. lookup.state = "found" => /\ lookup.product \in Code /\ lookup.nth \in Nat
                                  /\ After(lookup.product, lookup.nth) /\ After(lookup.product, 0)
    <2>1. lookup.state = "found" => lookup.product \in Code /\ lookup.nth \in Nat
      BY LookupAssumption DEF LookupTypeOK
    <2> QED BY <1>0, <2>1 DEF StockIsKnown
  <1>7. \A e \in Events' : After(e.code, e.nth)
    <2>1. ASSUME NEW c \in Code, Saved(c), onItsWay' = onItsWay PROVE \A e \in Events' : After(e.code, e.nth)
      BY <1>2, <2>1, SavedNow DEF ThereAre
    <2> QED BY <1>2, <2>1, EventsStep
  <1> HIDE DEF After
  <1>8. \A r \in asked' : r.read /\ r.answer # Unknown => After(r.code, r.answer)
    <2>1. ASSUME NEW r \in asked, ReadProduct(r)
          PROVE  \A q \in asked' : q.read /\ q.answer # Unknown => After(q.code, q.answer)
      <3>1. r.code \in Code /\ changes[r.code] \in Stocks
        BY DEF LookupTypeOK
      <3>2. changes[r.code] # Unknown => After(r.code, changes[r.code])
        BY <1>0, <3>1, LookupAssumption DEF ThereAre, Stocks
      <3>3. LET q == [r EXCEPT !.read = TRUE, !.answer = changes[r.code]]
            IN q.code = r.code /\ q.answer = changes[r.code] /\ asked' = (asked \ {r}) \cup {q}
        BY <2>1 DEF ReadProduct, LookupTypeOK
      <3> QED BY <1>3, <3>2, <3>3
    <2>2. ASSUME asked' \subseteq asked PROVE \A q \in asked' : q.read /\ q.answer # Unknown => After(q.code, q.answer)
      BY <1>3, <2>2
    <2>3. ASSUME NEW c \in Code, runLookup(c) PROVE \A q \in asked' : q.read /\ q.answer # Unknown => After(q.code, q.answer)
      BY <1>3, <2>3 DEF runLookup
    <2>4. handleAdded => adding.code \in Code
      BY DEF handleAdded, LookupTypeOK, Shut
    <2> QED BY <2>1, <2>2, <2>3, <2>4 DEF LookupNext, StockChanges, Scan, SendEvent, onInventoryUpdated, EventDropped,
             LookupAnswered, LookupFails, OpenAdjust, SaveAdjust, handleAdjusted, AdjustAnswerLost,
             CloseAdjust, startAdding, CategoriesAnswered, CategoriesFail, handleAdded, CloseForm
  <1>9. /\ adjustingHere'.at = "open" => After(adjustingHere'.code, 0)
        /\ adjustingHere'.at = "saved" => After(adjustingHere'.code, adjustingHere'.nth)
    <2>1. CASE OpenAdjust
      BY <1>6, <2>1 DEF OpenAdjust
    <2>2. CASE SaveAdjust
      <3> DEFINE c == adjustingHere.code
                 n == changes[c] + 1
      <3>1. c \in Code /\ Saved(c) /\ onItsWay' = onItsWay /\ adjustingHere' = [at |-> "saved", code |-> c, nth |-> n]
        BY <1>4, <2>2 DEF SaveAdjust
      <3>2. n \in 0 .. MaxStockChanges /\ changes'[c] = n
        BY <3>1, LookupAssumption DEF Saved, LookupTypeOK
      <3>3. After(c, n)
        BY <3>2, LookupAssumption DEF After
      <3> QED BY <3>1, <3>3
    <2>3. CASE AdjustAnswerLost
      BY <1>5, <2>3 DEF AdjustAnswerLost
    <2>4. CASE handleAdjusted \/ CloseAdjust
      BY <2>4 DEF handleAdjusted, CloseAdjust, Shut
    <2>5. CASE UNCHANGED adjustingHere
      BY <1>4, <1>5, <2>5
    <2> QED BY <2>1, <2>2, <2>3, <2>4, <2>5 DEF LookupNext, StockChanges, Scan, SendEvent, onInventoryUpdated, EventDropped,
             ReadProduct, LookupAnswered, LookupFails, startAdding, CategoriesAnswered, CategoriesFail, handleAdded, CloseForm
  <1>10. lookup'.state = "found" => After(lookup'.product, lookup'.nth)
    <2>1. ASSUME NEW c \in Code, runLookup(c) PROVE lookup'.state # "found"
      BY <2>1 DEF runLookup
    <2>2. CASE onInventoryUpdated
      BY <1>2, <1>6, <2>2, EventsTyped DEF onInventoryUpdated, Show, Events
    <2>3. ASSUME NEW r \in asked, LookupAnswered(r) PROVE lookup'.state = "found" => After(lookup'.product, lookup'.nth)
      BY <1>3, <1>6, <2>3 DEF LookupAnswered, Show
    <2>4. ASSUME NEW r \in asked, LookupFails(r) PROVE lookup'.state = "found" => After(lookup'.product, lookup'.nth)
      BY <1>6, <2>4 DEF LookupFails
    <2>5. CASE handleAdjusted
      BY <1>5, <1>6, <2>5 DEF handleAdjusted, Show
    <2>6. CASE CategoriesFail
      BY <2>6 DEF CategoriesFail
    <2>7. CASE UNCHANGED lookup
      BY <1>6, <2>7
    <2>8. handleAdded => adding.code \in Code
      BY DEF handleAdded, LookupTypeOK, Shut
    <2> QED BY <2>1, <2>2, <2>3, <2>4, <2>5, <2>6, <2>7, <2>8 DEF LookupNext, StockChanges, Scan, SendEvent, EventDropped,
             ReadProduct, OpenAdjust, SaveAdjust, AdjustAnswerLost, CloseAdjust, startAdding, CategoriesAnswered,
             handleAdded, CloseForm
  <1> QED BY <1>7, <1>8, <1>9, <1>10 DEF After, StockIsKnown, ThereAre

\* Every step shows the last scan or none.
LEMMA ScansStep == ASSUME LookupInv, LookupNext PROVE ScansInOrder' /\ ShowsLastScan'
  <1> USE DEF LookupInv, LookupIsExplained
  <1>0. scans \in Nat /\ \A r \in asked : r.id \in Nat
    BY LookupAssumption DEF LookupTypeOK
  <1>1. ASSUME NEW c \in Code, runLookup(c) PROVE ScansInOrder' /\ ShowsLastScan'
    BY <1>0, <1>1 DEF runLookup, ScansInOrder, ShowsLastScan
  <1>2. ASSUME NEW r \in asked, ReadProduct(r) PROVE ScansInOrder' /\ ShowsLastScan'
    <2>1. LET q == [r EXCEPT !.read = TRUE, !.answer = changes[r.code]]
          IN q.code = r.code /\ q.id = r.id /\ asked' = (asked \ {r}) \cup {q}
      BY <1>2 DEF ReadProduct, LookupTypeOK
    <2> QED BY <1>2, <2>1 DEF ReadProduct, ScansInOrder, ShowsLastScan
  <1>3. ASSUME NEW r \in asked, LookupAnswered(r) PROVE ScansInOrder' /\ ShowsLastScan'
    BY <1>3 DEF LookupAnswered, IsNewest, Show, ScansInOrder, ShowsLastScan
  <1>4. ASSUME NEW r \in asked, LookupFails(r) PROVE ScansInOrder' /\ ShowsLastScan'
    BY <1>4 DEF LookupFails, IsNewest, ScansInOrder, ShowsLastScan
  <1>5. CASE onInventoryUpdated
    BY <1>5 DEF onInventoryUpdated, Updates, Found, Show, ScansInOrder, ShowsLastScan
  <1>6. CASE handleAdjusted
    BY <1>6 DEF handleAdjusted, Show, ScansInOrder, ShowsLastScan
  <1>7. CASE CategoriesFail
    BY <1>7 DEF CategoriesFail, ScansInOrder, ShowsLastScan
  <1>8. CASE UNCHANGED <<scans, asked, lookup, lastCode, addFailed>>
    BY <1>8 DEF ScansInOrder, ShowsLastScan
  <1>9. handleAdded => adding.code \in Code
    BY DEF handleAdded, LookupTypeOK, Shut
  <1> QED BY <1>1, <1>2, <1>3, <1>4, <1>5, <1>6, <1>7, <1>8, <1>9 DEF LookupNext, StockChanges, Scan, SendEvent,
             EventDropped, OpenAdjust, SaveAdjust, AdjustAnswerLost, CloseAdjust, startAdding, CategoriesAnswered,
             handleAdded, CloseForm

\* The change on screen is the last, or the last one's event is still to come.
LastChange(c, n) == changes[c] = n \/ [code |-> c, nth |-> changes[c]] \in Events

\* The events that Coming speaks of.
LEMMA ComingEvents ==
    ASSUME LookupTypeOK, NEW c, NEW n, NEW gone
    PROVE  n \in Coming(c, gone) <=> [code |-> c, nth |-> n] \in Events \ gone
  <1>1. Events = unsent \cup Range(onItsWay)
    BY DEF Events
  <1>2. \A e \in Events : e = [code |-> e.code, nth |-> e.nth]
    BY EventsTyped DEF StockEvent
  <1> QED BY <1>1, <1>2 DEF Coming

\* What is shown is the last change, or an event of it is coming.
ShowsLive == lookup.state = "found" /\ ~outdated => LastChange(lookup.product, lookup.nth)

\* That is what the model says.
LEMMA LiveMeans == LookupTypeOK => (StockIsLive <=> ShowsLive)
  BY ComingEvents DEF StockIsLive, ShowsLive, LastChange

\* An answer that is shown is the last change, or an event of it is coming.
LEMMA ShownLive ==
    ASSUME LookupInv, NEW c \in Code, NEW p \in Code, NEW n \in Nat, NEW gone, ThereAre(p, n), Show(c, p, n, gone),
           Events \ gone \subseteq Events', changes' = changes, ~outdated'
    PROVE  LastChange(lookup.product, lookup.nth)'
  <1>1. ~(n < changes[p]) \/ changes[p] \in Coming(p, gone)
    BY DEF Show
  <1>2. changes[p] = n \/ [code |-> p, nth |-> changes[p]] \in Events \ gone
    BY <1>1, ComingEvents, LookupAssumption DEF ThereAre, LookupInv
  <1> QED BY <1>2 DEF Show, LastChange

\* Every step keeps what is shown live.
LEMMA LiveStep ==
    ASSUME LookupInv, LookupNext, lookup'.state = "found", ~outdated'
    PROVE  LastChange(lookup.product, lookup.nth)'
  <1> USE DEF LookupInv, LookupIsExplained
  <1>0. lookup.state = "found" => /\ lookup.product \in Code /\ lookup.code \in Code
                                  /\ (outdated \/ LastChange(lookup.product, lookup.nth))
    BY LiveMeans DEF LookupTypeOK, ShowsLive
  <1>1. ASSUME NEW c \in Code, Saved(c), UNCHANGED <<onItsWay, lookup, outdated>>
        PROVE  LastChange(lookup.product, lookup.nth)'
    <2> DEFINE n == changes[c] + 1
    <2>1. Events' = Events \cup {[code |-> c, nth |-> n]} /\ changes'[c] = n /\ \A d \in Code : d # c => changes'[d] = changes[d]
      BY <1>1, SavedNow
    <2>2. lookup.state = "found" /\ ~outdated /\ lookup' = lookup
      BY <1>1
    <2>3. CASE lookup.product = c
      BY <2>1, <2>2, <2>3 DEF LastChange
    <2>4. CASE lookup.product # c
      BY <1>0, <2>1, <2>2, <2>4 DEF LastChange
    <2> QED BY <2>3, <2>4
  <1>2. ASSUME NEW e \in unsent, SendEvent(e) PROVE LastChange(lookup.product, lookup.nth)'
    <2>1. Events' = Events
      BY <1>2, EventSent DEF SendEvent, Events, LookupTypeOK
    <2> QED BY <1>0, <1>2, <2>1 DEF SendEvent, LastChange
  <1>3. ASSUME onItsWay # << >>, onItsWay' = Tail(onItsWay), unsent' = unsent
        PROVE  Events \ {Head(onItsWay)} \subseteq Events' /\ Head(onItsWay) \in Events /\ Head(onItsWay) \in StockEvent
    BY <1>3, EventsTyped DEF Events
  <1>4. CASE onInventoryUpdated
    <2> DEFINE e == Head(onItsWay)
    <2>1. Events \ {e} \subseteq Events' /\ e \in Events /\ e \in StockEvent /\ changes' = changes
      BY <1>3, <1>4 DEF onInventoryUpdated
    <2>2. CASE Found(e.code)
      <3>1. Show(lookup.code, e.code, e.nth, {e}) /\ lookup.code \in Code /\ e.code \in Code /\ e.nth \in Nat /\ ThereAre(e.code, e.nth)
        BY <1>0, <1>4, <2>1, <2>2, LookupAssumption DEF onInventoryUpdated, Updates, Found, StockEvent, StockIsKnown
      <3> QED BY <2>1, <3>1, ShownLive
    <2>3. CASE ~Found(e.code)
      <3>1. lookup' = lookup /\ outdated' = outdated /\ lookup.product # e.code
        BY <1>4, <2>3 DEF onInventoryUpdated, Updates, Found
      <3> QED BY <1>0, <2>1, <3>1 DEF LastChange
    <2> QED BY <2>2, <2>3
  <1>5. CASE EventDropped
    <2> DEFINE e == Head(onItsWay)
    <2>1. Events \ {e} \subseteq Events' /\ e \in Events /\ e \in StockEvent /\ changes' = changes /\ lookup' = lookup
      BY <1>3, <1>5 DEF EventDropped
    <2>2. /\ lookup.state = "found" /\ ~outdated
          /\ ~(Found(e.code) /\ lookup.nth < changes[e.code] /\ e.nth = changes[e.code])
      BY <1>5, <2>1 DEF EventDropped
    <2>3. CASE e = [code |-> lookup.product, nth |-> changes[lookup.product]]
      <3>1. ThereAre(lookup.product, lookup.nth) /\ lookup.nth \in Nat /\ changes[lookup.product] \in Nat
        BY <2>2, LookupAssumption DEF StockIsKnown, LookupTypeOK, ThereAre
      <3>2. ~(lookup.nth < changes[lookup.product])
        BY <2>2, <2>3 DEF Found
      <3>3. changes[lookup.product] = lookup.nth
        BY <3>1, <3>2 DEF ThereAre
      <3> QED BY <2>1, <3>3 DEF LastChange
    <2>4. CASE e # [code |-> lookup.product, nth |-> changes[lookup.product]]
      BY <1>0, <2>1, <2>2, <2>4 DEF LastChange
    <2> QED BY <2>3, <2>4
  <1>6. ASSUME NEW r \in asked, LookupAnswered(r) PROVE LastChange(lookup.product, lookup.nth)'
    <2>1. changes' = changes /\ Events' = Events
      BY <1>6 DEF LookupAnswered, stockSide, Events
    <2>2. CASE IsNewest(r) /\ r.answer # Unknown
      <3>1. Show(r.code, r.code, r.answer, {}) /\ ThereAre(r.code, r.answer) /\ r.code \in Code /\ r.answer \in Nat
        BY <1>6, <2>2, LookupAssumption DEF LookupAnswered, StockIsKnown, LookupTypeOK, Stocks
      <3> QED BY <2>1, <3>1, ShownLive
    <2>3. CASE IsNewest(r) /\ r.answer = Unknown
      BY <1>6, <2>3 DEF LookupAnswered
    <2>4. CASE ~IsNewest(r)
      BY <1>0, <1>6, <2>1, <2>4 DEF LookupAnswered, LastChange
    <2> QED BY <2>2, <2>3, <2>4
  <1>7. CASE handleAdjusted
    <2>1. changes' = changes /\ Events' = Events
      BY <1>7 DEF handleAdjusted, stockSide, Events
    <2>2. CASE lookup.state = "found"
      <3>1. /\ Show(lookup.code, adjustingHere.code, adjustingHere.nth, {}) /\ ThereAre(adjustingHere.code, adjustingHere.nth)
            /\ adjustingHere.code \in Code /\ adjustingHere.nth \in Nat /\ lookup.code \in Code
        BY <1>0, <1>7, <2>2, LookupAssumption DEF handleAdjusted, StockIsKnown, LookupTypeOK, Shut
      <3> QED BY <2>1, <3>1, ShownLive
    <2>3. CASE lookup.state # "found"
      BY <1>7, <2>3 DEF handleAdjusted
    <2> QED BY <2>2, <2>3
  <1>8. ASSUME NEW c \in Code, runLookup(c) PROVE lookup'.state # "found"
    BY <1>8 DEF runLookup
  <1>9. ASSUME NEW r \in asked, LookupFails(r) PROVE LastChange(lookup.product, lookup.nth)'
    BY <1>0, <1>9 DEF LookupFails, stockSide, Events, LastChange
  <1>10. CASE CategoriesFail
    BY <1>10 DEF CategoriesFail
  <1>11. CASE UNCHANGED <<stockSide, lookup, outdated>>
    BY <1>0, <1>11 DEF stockSide, Events, LastChange
  <1>12. (SaveAdjust => adjustingHere.code \in Code) /\ (handleAdded => adding.code \in Code)
    BY DEF SaveAdjust, handleAdded, LookupTypeOK, Shut
  <1> QED BY <1>1, <1>2, <1>4, <1>5, <1>6, <1>7, <1>8, <1>9, <1>10, <1>11, <1>12 DEF LookupNext, StockChanges, Scan,
             ReadProduct, OpenAdjust, SaveAdjust, AdjustAnswerLost, CloseAdjust, startAdding, CategoriesAnswered,
             handleAdded, CloseForm

\* For any number of products, scans, changes of their stock and lost events.
THEOREM LookupInvariant == LookupSpec => []LookupInv
  <1>2. LookupTypeOK' => (StockIsLive' <=> ShowsLive')
    BY LiveMeans, PTL
  <1>1. LookupInv /\ [LookupNext]_lookupVars => LookupInv'
    <2>1. ASSUME LookupInv, LookupNext PROVE LookupInv'
      <3>1. LookupTypeOK' /\ StockIsKnown' /\ ScansInOrder' /\ ShowsLastScan'
        BY <2>1, LookupTypeStep, StockStep, ScansStep DEF LookupInv
      <3> QED BY <1>2, <2>1, <3>1, LiveStep DEF LookupInv, LookupIsExplained, ShowsLive
    <2>2. ASSUME LookupInv, UNCHANGED lookupVars PROVE LookupInv'
      BY <2>2 DEF lookupVars, LookupInv, LookupTypeOK, StockIsKnown, Events, ThereAre, ScansInOrder, LookupIsExplained,
             ShowsLastScan, StockIsLive, Coming
    <2> QED BY <2>1, <2>2
  <1> QED BY <1>1, LookupInvInit, PTL DEF LookupSpec

\* Stock, events, lookups and page hold values of their types.
THEOREM LookupTyped == LookupSpec => []LookupTypeOK
  <1>1. LookupInv => LookupTypeOK
    BY DEF LookupInv
  <1> QED BY <1>1, LookupInvariant, PTL

\* However answers and events overtake each other: what the page shows is
\* about the code scanned last, unless adding a product failed, and its stock is the
\* product's or an event of it is coming, unless one was lost or overtaken.
THEOREM LookupExplained == LookupSpec => []LookupIsExplained
  <1>1. LookupInv => LookupIsExplained
    BY DEF LookupInv
  <1> QED BY <1>1, LookupInvariant, PTL

-----------------------------------------------------------------------------
(***************************************************************************)
(* Behind the counter, side by side.                                       *)
(***************************************************************************)

\* A part that goes on, or rests, takes a step of its own or none.
LEMMA BackSteps ==
    ASSUME [BackNext]_backVars
    PROVE  /\ [SignInNext]_signInVars /\ [LimiterNext]_limiterVars
           /\ [AlertNext]_alertVars /\ [BackupNext]_backupVars
           /\ [ImportNext]_importVars /\ [FormsNext]_formVars
           /\ [LogNext]_logVars /\ [LookupNext]_lookupVars
  <1>1. CASE ServerNext /\ UNCHANGED adminVars
    <2>1. UNCHANGED importVars /\ UNCHANGED formVars /\ UNCHANGED logVars /\ UNCHANGED lookupVars
      BY <1>1 DEF adminVars
    <2>2. /\ SignInNext \/ UNCHANGED signInVars
          /\ LimiterNext \/ UNCHANGED limiterVars
          /\ AlertNext \/ UNCHANGED alertVars
          /\ BackupNext \/ UNCHANGED backupVars
      BY <1>1 DEF ServerNext
    <2> QED BY <2>1, <2>2
  <1>2. CASE AdminNext /\ UNCHANGED serverVars
    <2>1. UNCHANGED signInVars /\ UNCHANGED limiterVars /\ UNCHANGED alertVars /\ UNCHANGED backupVars
      BY <1>2 DEF serverVars
    <2>2. /\ ImportNext \/ UNCHANGED importVars
          /\ FormsNext \/ UNCHANGED formVars
          /\ LogNext \/ UNCHANGED logVars
          /\ LookupNext \/ UNCHANGED lookupVars
      BY <1>2 DEF AdminNext
    <2> QED BY <2>1, <2>2
  <1>3. CASE UNCHANGED backVars
    BY <1>3 DEF backVars, serverVars, adminVars
  <1> QED BY <1>1, <1>2, <1>3 DEF BackNext

\* Side by side, each part behaves as it does alone: whatever is proved of one of
\* them holds of all that goes on behind the counter.
THEOREM BackIsItsParts ==
    BackSpec => /\ SignInSpec /\ LimiterSpec /\ AlertSpec /\ BackupSpec
                /\ ImportSpec /\ FormsSpec /\ LogSpec /\ LookupSpec
  <1>1. BackInit => /\ SignInInit /\ LimiterInit /\ AlertInit /\ BackupInit
                    /\ ImportInit /\ FormsInit /\ LogInit /\ LookupInit
    BY DEF BackInit
  <1>2. [BackNext]_backVars =>
            /\ [SignInNext]_signInVars /\ [LimiterNext]_limiterVars
            /\ [AlertNext]_alertVars /\ [BackupNext]_backupVars
            /\ [ImportNext]_importVars /\ [FormsNext]_formVars
            /\ [LogNext]_logVars /\ [LookupNext]_lookupVars
    BY BackSteps
  <1> QED BY <1>1, <1>2, PTL DEF BackSpec, SignInSpec, LimiterSpec, AlertSpec, BackupSpec,
                                 ImportSpec, FormsSpec, LogSpec, LookupSpec

\* The values of whichever part goes on are of their types.
THEOREM BackTyped == BackSpec => []BackTypeOK
  <1> DEFINE OnePart == part \in {"signIn", "limiter", "alerts", "backups", "import", "forms", "log", "lookup"}
  <1>1. /\ OnePart /\ SignInTypeOK /\ LimiterTypeOK /\ AlertTypeOK /\ BackupTypeOK
        /\ ImportTypeOK /\ FormsTypeOK /\ LogTypeOK /\ LookupTypeOK
        => BackTypeOK
    BY DEF BackTypeOK
  <1>2. BackInit => OnePart
    BY DEF BackInit
  <1>3. OnePart /\ [BackNext]_backVars => OnePart'
    BY DEF BackNext, backVars
  <1> HIDE DEF OnePart
  <1> QED BY <1>1, <1>2, <1>3, BackIsItsParts, SignInTyped, LimiterTyped, AlertsTyped, BackupsTyped,
             ImportTyped, FormsTyped, LogTyped, LookupTyped, PTL DEF BackSpec
=============================================================================

--------------------------- MODULE StorageProofs ----------------------------
(***************************************************************************)
(* Proofs about module StorageTasks, for every set of backends and tasks,  *)
(* any number of retries and of lost answers.                              *)
(***************************************************************************)
EXTENDS StorageTasks, FiniteSetTheorems, SequenceTheorems, TLAPS

-----------------------------------------------------------------------------
(* Steps and programs.                                                     *)

Paths == {"chunk", "fossil"}

(* The requests that put what is under one name under another one. *)
Copying == {"copy", "rename", "move", "moveid", "reparent"}

(* What every method but the upload through a temporary file asks for. *)
Mild(verb, a) == verb \in Copying => a \in Paths

MildVerbs == {"pages", "firstpage", "readdir", "stat", "statdir", "find", "lookup", "cached", "idsaved", "getid", "reid", "head",
          "versions", "hidden", "get", "getlast", "read", "parse", "send", "uploadurl", "put", "putonce", "putmore", "upload",
          "write", "copy", "rename", "move", "moveid", "reparent", "delete", "trash", "hide", "delversion", "purge",
          "mkdir", "mkdirsave", "login"}
Asked == {"chunk", "fossil", "chunk.fsl", "temp", "dir", "fossildir", "root", "chunks", "live", "fossils", "snapshots", ""}
Treatments == {"next", "skip", "skip2", "skip3", "stay", "return", "absent", "again", "reset", "restart", "login", "fail",
               "panic", "hang"}
Choices == [Answers -> Treatments]

AllSteps ==
    [verb : MildVerbs \cup {"create"}, a : Asked, b : Asked, on : Choices, tries : Nat, spent : Choices]

MildSteps == {s \in AllSteps : s.verb # "create" /\ Mild(s.verb, s.a)}

LEMMA NoErrorType == NoError \in Choices
<1>1. ASSUME NEW x \in Answers
      PROVE  (CASE x = "ok" -> "next" [] x = "more" -> "stay" [] OTHER -> "fail") \in Treatments
  BY DEF Treatments
<1> QED  BY <1>1, Zenon DEF NoError, Choices

LEMMA AlwaysType ==
    ASSUME NEW then \in Treatments
    PROVE  Always(then) \in Choices
BY DEF Always, Choices

LEMMA OnType ==
    ASSUME NEW on \in Choices, NEW set, NEW then \in Treatments
    PROVE  On(on, set, then) \in Choices
BY DEF On, Choices

LEMMA StepTypes ==
    ASSUME NEW verb \in MildVerbs \cup {"create"}, NEW a \in Asked, NEW b \in Asked, NEW on \in Choices, NEW n \in Nat
    PROVE  /\ Step(verb, a, b, on, n) \in AllSteps
           /\ Step(verb, a, b, on, n).verb = verb
           /\ Step(verb, a, b, on, n).a = a
           /\ Step(verb, a, b, on, n).b = b
           /\ Step(verb, a, b, on, n).on = on
           /\ Step(verb, a, b, on, n).spent = Always("fail")
<1>1. "fail" \in Treatments  BY DEF Treatments
<1>2. Always("fail") \in Choices  BY <1>1, AlwaysType
<1> HIDE DEF Choices, MildVerbs, Asked
<1> QED  BY <1>2 DEF Step, AllSteps

LEMMA MildStep ==
    ASSUME NEW verb \in MildVerbs, NEW a \in Asked, NEW b \in Asked, NEW on \in Choices, NEW n \in Nat,
           Mild(verb, a)
    PROVE  Step(verb, a, b, on, n) \in MildSteps
<1>1. verb # "create"  BY DEF MildVerbs
<1> QED  BY <1>1, StepTypes DEF MildSteps

LEMMA MildAsk ==
    ASSUME NEW verb \in MildVerbs, NEW a \in Asked, Mild(verb, a)
    PROVE  Ask(verb, a) \in MildSteps /\ Ignoring(verb, a) \in MildSteps
<1>1. NoError \in Choices /\ On(NoError, Errors, "next") \in Choices  BY NoErrorType, OnType DEF Treatments
<1> QED  BY <1>1, MildStep DEF Ask, Ignoring

LEMMA MildWhere ==
    ASSUME NEW s \in MildSteps, NEW set, NEW then \in Treatments
    PROVE  Where(s, set, then) \in MildSteps
<1>1. s.on \in Choices  BY DEF MildSteps, AllSteps
<1>2. On(s.on, set, then) \in Choices  BY <1>1, OnType
<1> QED  BY <1>2 DEF Where, MildSteps, AllSteps

Programs == Seq(MildSteps)
Listings == {"chunks", "live", "fossils", "snapshots"}

(* The names the methods use, and that a request which does not copy may take any of them. *)
LEMMA NamesAsked ==
    /\ \A a \in Paths \cup Listings : a \in Asked
    /\ \A a \in Paths : Unconverted(a) \in Asked /\ ParentOf(a) \in Asked
    /\ {"dir", "root", "chunks", "live", "fossils", "snapshots"} \subseteq Asked
BY DEF Asked, Paths, Listings, Unconverted, ParentOf

LEMMA MildNames ==
    /\ \A v, a : v \notin Copying => Mild(v, a)
    /\ \A v, a : a \in Paths => Mild(v, a)
BY DEF Mild

(* The steps most programs are made of. *)
LEMMA PlainSteps ==
    ASSUME NEW a \in Paths, NEW b \in Paths, NEW dir \in Listings
    PROVE  /\ Ask("pages", dir) \in MildSteps /\ Ask("firstpage", dir) \in MildSteps /\ Ask("readdir", dir) \in MildSteps
           /\ \A v \in {"stat", "get", "read", "put", "send", "delete", "cached", "parse"} : Ask(v, a) \in MildSteps
           /\ \A v \in {"mkdir", "statdir", "cached"} : Ask(v, "dir") \in MildSteps
           /\ Ignoring("put", a) \in MildSteps
           /\ \A v \in Copying : Step(v, a, b, NoError, 0) \in MildSteps
<1>1. a \in Asked /\ b \in Asked /\ dir \in Asked /\ "dir" \in Asked  BY DEF Paths, Listings, Asked
<1>2. ASSUME NEW v \in Copying PROVE Step(v, a, b, NoError, 0) \in MildSteps
  <2>1. v \in MildVerbs  BY DEF Copying, MildVerbs
  <2>2. Mild(v, a)  BY DEF Mild
  <2> QED  BY <1>1, <2>1, <2>2, NoErrorType, MildStep
<1>3. ASSUME NEW v \in {"pages", "firstpage", "readdir"} PROVE Ask(v, dir) \in MildSteps
  <2>1. v \in MildVerbs /\ Mild(v, dir)  BY DEF Copying, MildVerbs, Mild
  <2> QED  BY <1>1, <2>1, MildAsk
<1>4. ASSUME NEW v \in {"stat", "get", "read", "put", "send", "delete", "cached", "parse"}
      PROVE  Ask(v, a) \in MildSteps /\ Ignoring(v, a) \in MildSteps
  <2>1. v \in MildVerbs /\ Mild(v, a)  BY DEF Copying, MildVerbs, Mild
  <2> QED  BY <1>1, <2>1, MildAsk
<1>5. ASSUME NEW v \in {"mkdir", "statdir", "cached"} PROVE Ask(v, "dir") \in MildSteps
  <2>1. v \in MildVerbs /\ Mild(v, "dir")  BY DEF Copying, MildVerbs, Mild
  <2> QED  BY <1>1, <2>1, MildAsk
<1> QED  BY <1>2, <1>3, <1>4, <1>5

LEMMA ShortPrograms ==
    /\ <<>> \in Programs
    /\ \A s \in MildSteps : <<s>> \in Programs
    /\ \A s, t \in MildSteps : <<s, t>> \in Programs
    /\ \A s, t, u \in MildSteps : <<s, t, u>> \in Programs
    /\ \A s, t, u, v \in MildSteps : <<s, t, u, v>> \in Programs
    /\ \A p, q \in Programs : p \o q \in Programs
BY DEF Programs

(* Every other step about a path. *)
LEMMA StepA ==
    ASSUME NEW a \in Paths, NEW on \in Choices, NEW n \in Nat
    PROVE  \A v \in {"put", "send", "delete", "get", "stat"} : Step(v, a, a, on, n) \in MildSteps
<1> SUFFICES ASSUME NEW v \in {"put", "send", "delete", "get", "stat"} PROVE Step(v, a, a, on, n) \in MildSteps  OBVIOUS
<1>1. Mild(v, a) /\ a \in Asked /\ v \in MildVerbs  BY DEF Mild, Asked, MildVerbs, Paths, Copying
<1> QED  BY <1>1, MildStep

LEMMA CopyStep ==
    ASSUME NEW a \in Paths, NEW b \in Paths, NEW on \in Choices, NEW n \in Nat
    PROVE  \A v \in Copying : Step(v, a, b, on, n) \in MildSteps
<1> SUFFICES ASSUME NEW v \in Copying PROVE Step(v, a, b, on, n) \in MildSteps  OBVIOUS
<1>1. Mild(v, a) /\ a \in Asked /\ b \in Asked /\ v \in MildVerbs  BY DEF Mild, Asked, MildVerbs, Paths, Copying
<1> QED  BY <1>1, MildStep

(* Steps about anything that copy nothing. *)
LEMMA OtherStep ==
    ASSUME NEW v \in MildVerbs \ Copying, NEW x \in Asked, NEW y \in Asked, NEW on \in Choices, NEW n \in Nat
    PROVE  Step(v, x, y, on, n) \in MildSteps
<1>1. Mild(v, x) /\ v \in MildVerbs  BY DEF Mild
<1> QED  BY <1>1, MildStep

(* A step some of whose treatments are replaced. *)
(* What a client changes in a step, the number of attempts or the treatments, leaves it a step. *)
LEMMA MildTries ==
    ASSUME NEW s \in MildSteps, NEW n \in Nat
    PROVE  [s EXCEPT !.tries = n] \in MildSteps
BY DEF MildSteps, AllSteps

LEMMA MildSpent ==
    ASSUME NEW s \in MildSteps, NEW c \in Choices
    PROVE  [s EXCEPT !.spent = c] \in MildSteps
BY DEF MildSteps, AllSteps

LEMMA MildOnSpent ==
    ASSUME NEW s \in MildSteps, NEW c \in Choices, NEW d \in Choices
    PROVE  [s EXCEPT !.on = c, !.spent = d] \in MildSteps
BY DEF MildSteps, AllSteps

LEMMA MildSpentOn ==
    ASSUME NEW s \in MildSteps, NEW c \in Choices, NEW d \in Choices
    PROVE  [s EXCEPT !.spent = c, !.on = d] \in MildSteps
BY DEF MildSteps, AllSteps

LEMMA MildChoices ==
    ASSUME NEW s \in MildSteps
    PROVE  s.on \in Choices /\ s.spent \in Choices
BY DEF MildSteps, AllSteps

LEMMA ChoiceUpdate ==
    ASSUME NEW c \in Choices, NEW x, NEW t \in Treatments
    PROVE  [c EXCEPT ![x] = t] \in Choices
BY DEF Choices

LEMMA S3Programs ==
    ASSUME NEW a \in Paths, NEW b \in Paths, NEW dir \in Listings
    PROVE  /\ S3ListFiles(dir) \in Programs /\ S3DeleteFile(a) \in Programs /\ S3MoveFile(a, b) \in Programs
           /\ S3GetFileInfo(a) \in Programs /\ S3DownloadFile(a) \in Programs /\ S3UploadFile(a) \in Programs
<1> USE DEF Copying
<1>1. S3ListFiles(dir) \in Programs  BY PlainSteps, MildWhere, OnType, NoErrorType, StepA, ShortPrograms DEF S3ListFiles, Treatments
<1>2. S3DeleteFile(a) \in Programs  BY PlainSteps, MildWhere, OnType, NoErrorType, StepA, ShortPrograms DEF S3DeleteFile, Treatments
<1>3. S3MoveFile(a, b) \in Programs  BY <1>2, PlainSteps, MildWhere, OnType, NoErrorType, StepA, ShortPrograms DEF S3MoveFile, Treatments
<1>4. S3GetFileInfo(a) \in Programs  BY PlainSteps, MildWhere, OnType, NoErrorType, StepA, ShortPrograms DEF S3GetFileInfo, Treatments
<1>5. S3DownloadFile(a) \in Programs  BY PlainSteps, MildWhere, OnType, NoErrorType, StepA, ShortPrograms DEF S3DownloadFile, Treatments
<1>6. S3UploadFile(a) \in Programs  BY PlainSteps, MildWhere, OnType, NoErrorType, StepA, ShortPrograms DEF S3UploadFile, Treatments
<1> QED  BY <1>1, <1>2, <1>3, <1>4, <1>5, <1>6

LEMMA S3CPrograms ==
    ASSUME NEW a \in Paths, NEW b \in Paths, NEW dir \in Listings
    PROVE  /\ S3CListFiles(dir) \in Programs /\ S3CDeleteFile(a) \in Programs /\ S3CMoveFile(a, b) \in Programs
           /\ S3CGetFileInfo(a) \in Programs /\ S3CDownloadFile(a) \in Programs /\ S3CUploadFile(a) \in Programs
<1> USE DEF Copying
<1>1. S3CListFiles(dir) \in Programs  BY PlainSteps, MildWhere, OnType, NoErrorType, StepA, ShortPrograms DEF S3CListFiles, Treatments
<1>2. S3CDeleteFile(a) \in Programs  BY PlainSteps, MildWhere, OnType, NoErrorType, StepA, ShortPrograms DEF S3CDeleteFile, Treatments
<1>3. S3CMoveFile(a, b) \in Programs
  <2>1. On(NoError, Errors, "return") \in Choices  BY OnType, NoErrorType DEF Treatments
  <2>2. Step("copy", a, b, On(NoError, Errors, "return"), 0) \in MildSteps  BY <2>1, CopyStep
  <2> QED  BY <1>2, <2>2, ShortPrograms DEF S3CMoveFile
<1>4. S3CGetFileInfo(a) \in Programs  BY PlainSteps, MildWhere, OnType, NoErrorType, StepA, ShortPrograms DEF S3CGetFileInfo, Treatments
<1>5. S3CDownloadFile(a) \in Programs  BY PlainSteps, MildWhere, OnType, NoErrorType, StepA, ShortPrograms DEF S3CDownloadFile, Treatments
<1>6. S3CUploadFile(a) \in Programs  BY PlainSteps, MildWhere, OnType, NoErrorType, StepA, ShortPrograms DEF S3CUploadFile, Treatments
<1> QED  BY <1>1, <1>2, <1>3, <1>4, <1>5, <1>6

LEMMA AzurePrograms ==
    ASSUME NEW a \in Paths, NEW b \in Paths, NEW dir \in Listings
    PROVE  /\ AzureListFiles(dir) \in Programs /\ AzureDeleteFile(a) \in Programs /\ AzureMoveFile(a, b) \in Programs
           /\ AzureGetFileInfo(a) \in Programs /\ AzureDownloadFile(a) \in Programs /\ AzureUploadFile(a) \in Programs
<1> USE DEF Copying
<1>1. AzureListFiles(dir) \in Programs  BY PlainSteps, MildWhere, OnType, NoErrorType, StepA, ShortPrograms DEF AzureListFiles, Treatments
<1>2. AzureDeleteFile(a) \in Programs  BY PlainSteps, MildWhere, OnType, NoErrorType, StepA, ShortPrograms DEF AzureDeleteFile, Treatments
<1>3. AzureMoveFile(a, b) \in Programs  BY <1>2, PlainSteps, MildWhere, OnType, NoErrorType, StepA, ShortPrograms DEF AzureMoveFile, Treatments
<1>4. AzureGetFileInfo(a) \in Programs  BY PlainSteps, MildWhere, OnType, NoErrorType, StepA, ShortPrograms DEF AzureGetFileInfo, Treatments
<1>5. AzureDownloadFile(a) \in Programs  BY PlainSteps, MildWhere, OnType, NoErrorType, StepA, ShortPrograms DEF AzureDownloadFile, Treatments
<1>6. AzureUploadFile(a) \in Programs  BY PlainSteps, MildWhere, OnType, NoErrorType, StepA, ShortPrograms DEF AzureUploadFile, Treatments
<1> QED  BY <1>1, <1>2, <1>3, <1>4, <1>5, <1>6

LEMMA GCSPrograms ==
    ASSUME NEW a \in Paths, NEW b \in Paths, NEW dir \in Listings
    PROVE  /\ GCSListFiles(dir) \in Programs /\ GCSDeleteFile(a) \in Programs /\ GCSMoveFile(a, b) \in Programs
           /\ GCSGetFileInfo(a) \in Programs /\ GCSDownloadFile(a) \in Programs /\ GCSUploadFile(a) \in Programs
<1> USE DEF Copying
<1>1. GCSListFiles(dir) \in Programs  BY PlainSteps, MildWhere, OnType, NoErrorType, StepA, ShortPrograms DEF GCSListFiles, Treatments, GCSshouldRetry
<1>2. GCSDeleteFile(a) \in Programs  BY PlainSteps, MildWhere, OnType, NoErrorType, StepA, ShortPrograms DEF GCSDeleteFile, Treatments, GCSshouldRetry
<1>3. GCSMoveFile(a, b) \in Programs  BY <1>2, PlainSteps, MildWhere, OnType, NoErrorType, StepA, ShortPrograms DEF GCSMoveFile, Treatments, GCSshouldRetry
<1>4. GCSGetFileInfo(a) \in Programs  BY PlainSteps, MildWhere, OnType, NoErrorType, StepA, ShortPrograms DEF GCSGetFileInfo, Treatments, GCSshouldRetry
<1>5. GCSDownloadFile(a) \in Programs  BY PlainSteps, MildWhere, OnType, NoErrorType, StepA, ShortPrograms DEF GCSDownloadFile, Treatments, GCSshouldRetry
<1>6. GCSUploadFile(a) \in Programs  BY PlainSteps, MildWhere, OnType, NoErrorType, StepA, ShortPrograms DEF GCSUploadFile, Treatments, GCSshouldRetry
<1> QED  BY <1>1, <1>2, <1>3, <1>4, <1>5, <1>6

LEMMA StorjPrograms ==
    ASSUME NEW a \in Paths, NEW b \in Paths, NEW dir \in Listings
    PROVE  /\ StorjListFiles(dir) \in Programs /\ StorjDeleteFile(a) \in Programs /\ StorjMoveFile(a, b) \in Programs
           /\ StorjGetFileInfo(a) \in Programs /\ StorjDownloadFile(a) \in Programs /\ StorjUploadFile(a) \in Programs
<1> USE DEF Copying
<1>1. StorjListFiles(dir) \in Programs  BY PlainSteps, MildWhere, OnType, NoErrorType, StepA, ShortPrograms DEF StorjListFiles, Treatments
<1>2. StorjDeleteFile(a) \in Programs  BY PlainSteps, MildWhere, OnType, NoErrorType, StepA, ShortPrograms DEF StorjDeleteFile, Treatments
<1>3. StorjMoveFile(a, b) \in Programs  BY PlainSteps, MildWhere, OnType, NoErrorType, StepA, ShortPrograms DEF StorjMoveFile, Treatments
<1>4. StorjGetFileInfo(a) \in Programs  BY PlainSteps, MildWhere, OnType, NoErrorType, StepA, ShortPrograms DEF StorjGetFileInfo, Treatments
<1>5. StorjDownloadFile(a) \in Programs  BY PlainSteps, MildWhere, OnType, NoErrorType, StepA, ShortPrograms DEF StorjDownloadFile, Treatments
<1>6. StorjUploadFile(a) \in Programs  BY PlainSteps, MildWhere, OnType, NoErrorType, StepA, ShortPrograms DEF StorjUploadFile, Treatments
<1> QED  BY <1>1, <1>2, <1>3, <1>4, <1>5, <1>6

LEMMA DropboxPrograms ==
    ASSUME NEW a \in Paths, NEW b \in Paths, NEW dir \in Listings
    PROVE  /\ DropboxListFiles(dir) \in Programs /\ DropboxDeleteFile(a) \in Programs /\ DropboxMoveFile(a, b) \in Programs
           /\ DropboxGetFileInfo(a) \in Programs /\ DropboxDownloadFile(a) \in Programs /\ DropboxUploadFile(a) \in Programs /\ DropboxCreateDirectory \in Programs
<1> USE DEF Copying
<1>1. DropboxListFiles(dir) \in Programs  BY PlainSteps, MildWhere, OnType, NoErrorType, StepA, ShortPrograms DEF DropboxListFiles, Treatments
<1>2. DropboxDeleteFile(a) \in Programs  BY PlainSteps, MildWhere, OnType, NoErrorType, StepA, ShortPrograms DEF DropboxDeleteFile, Treatments
<1>3. DropboxMoveFile(a, b) \in Programs  BY PlainSteps, MildWhere, OnType, NoErrorType, StepA, ShortPrograms DEF DropboxMoveFile, Treatments
<1>4. DropboxGetFileInfo(a) \in Programs  BY PlainSteps, MildWhere, OnType, NoErrorType, StepA, ShortPrograms DEF DropboxGetFileInfo, Treatments
<1>5. DropboxDownloadFile(a) \in Programs  BY PlainSteps, MildWhere, OnType, NoErrorType, StepA, ShortPrograms DEF DropboxDownloadFile, Treatments
<1>6. DropboxUploadFile(a) \in Programs  BY PlainSteps, MildWhere, OnType, NoErrorType, StepA, ShortPrograms DEF DropboxUploadFile, Treatments
<1>7. DropboxCreateDirectory \in Programs  BY PlainSteps, MildWhere, OnType, NoErrorType, StepA, ShortPrograms DEF DropboxCreateDirectory, Treatments
<1> QED  BY <1>1, <1>2, <1>3, <1>4, <1>5, <1>6, <1>7

LEMMA SwiftPrograms ==
    ASSUME NEW a \in Paths, NEW b \in Paths, NEW dir \in Listings
    PROVE  /\ SwiftListFiles(dir) \in Programs /\ SwiftDeleteFile(a) \in Programs /\ SwiftMoveFile(a, b) \in Programs
           /\ SwiftGetFileInfo(a) \in Programs /\ SwiftDownloadFile(a) \in Programs /\ SwiftUploadFile(a) \in Programs
<1> USE DEF Copying
<1>1. SwiftListFiles(dir) \in Programs  BY PlainSteps, MildWhere, OnType, NoErrorType, StepA, ShortPrograms DEF SwiftListFiles, Treatments
<1>2. SwiftDeleteFile(a) \in Programs  BY PlainSteps, MildWhere, OnType, NoErrorType, StepA, ShortPrograms DEF SwiftDeleteFile, Treatments
<1>3. SwiftMoveFile(a, b) \in Programs  BY PlainSteps, MildWhere, OnType, NoErrorType, StepA, ShortPrograms DEF SwiftMoveFile, Treatments
<1>4. SwiftGetFileInfo(a) \in Programs  BY PlainSteps, MildWhere, OnType, NoErrorType, StepA, ShortPrograms DEF SwiftGetFileInfo, Treatments
<1>5. SwiftDownloadFile(a) \in Programs  BY PlainSteps, MildWhere, OnType, NoErrorType, StepA, ShortPrograms DEF SwiftDownloadFile, Treatments
<1>6. SwiftUploadFile(a) \in Programs  BY PlainSteps, MildWhere, OnType, NoErrorType, StepA, ShortPrograms DEF SwiftUploadFile, Treatments
<1> QED  BY <1>1, <1>2, <1>3, <1>4, <1>5, <1>6

LEMMA FilePrograms ==
    ASSUME NEW a \in Paths, NEW b \in Paths, NEW dir \in Listings
    PROVE  /\ FileListFiles(dir) \in Programs /\ FileDeleteFile(a) \in Programs /\ FileMoveFile(a, b) \in Programs
           /\ FileGetFileInfo(a) \in Programs /\ FileDownloadFile(a) \in Programs /\ FileCreateDirectory \in Programs
<1> USE DEF Copying
<1>1. FileListFiles(dir) \in Programs  BY PlainSteps, MildWhere, OnType, NoErrorType, StepA, ShortPrograms DEF FileListFiles, Treatments
<1>2. FileDeleteFile(a) \in Programs  BY PlainSteps, MildWhere, OnType, NoErrorType, StepA, ShortPrograms DEF FileDeleteFile, Treatments
<1>3. FileMoveFile(a, b) \in Programs  BY PlainSteps, MildWhere, OnType, NoErrorType, StepA, ShortPrograms DEF FileMoveFile, Treatments
<1>4. FileGetFileInfo(a) \in Programs  BY PlainSteps, MildWhere, OnType, NoErrorType, StepA, ShortPrograms DEF FileGetFileInfo, Treatments
<1>5. FileDownloadFile(a) \in Programs  BY PlainSteps, MildWhere, OnType, NoErrorType, StepA, ShortPrograms DEF FileDownloadFile, Treatments
<1>6. FileCreateDirectory \in Programs  BY PlainSteps, MildWhere, OnType, NoErrorType, StepA, ShortPrograms DEF FileCreateDirectory, Treatments
<1> QED  BY <1>1, <1>2, <1>3, <1>4, <1>5, <1>6

LEMMA SambaPrograms ==
    ASSUME NEW a \in Paths, NEW b \in Paths, NEW dir \in Listings
    PROVE  /\ SambaListFiles(dir) \in Programs /\ SambaDeleteFile(a) \in Programs /\ SambaMoveFile(a, b) \in Programs
           /\ SambaGetFileInfo(a) \in Programs /\ SambaDownloadFile(a) \in Programs /\ SambaCreateDirectory \in Programs
<1> USE DEF Copying
<1>1. SambaListFiles(dir) \in Programs  BY PlainSteps, MildWhere, OnType, NoErrorType, StepA, ShortPrograms DEF SambaListFiles, Treatments
<1>2. SambaDeleteFile(a) \in Programs  BY PlainSteps, MildWhere, OnType, NoErrorType, StepA, ShortPrograms DEF SambaDeleteFile, Treatments
<1>3. SambaMoveFile(a, b) \in Programs  BY PlainSteps, MildWhere, OnType, NoErrorType, StepA, ShortPrograms DEF SambaMoveFile, Treatments
<1>4. SambaGetFileInfo(a) \in Programs  BY PlainSteps, MildWhere, OnType, NoErrorType, StepA, ShortPrograms DEF SambaGetFileInfo, Treatments
<1>5. SambaDownloadFile(a) \in Programs  BY PlainSteps, MildWhere, OnType, NoErrorType, StepA, ShortPrograms DEF SambaDownloadFile, Treatments
<1>6. SambaCreateDirectory \in Programs  BY PlainSteps, MildWhere, OnType, NoErrorType, StepA, ShortPrograms DEF SambaCreateDirectory, Treatments
<1> QED  BY <1>1, <1>2, <1>3, <1>4, <1>5, <1>6

LEMMA WasabiPrograms ==
    ASSUME NEW a \in Paths, NEW b \in Paths, NEW dir \in Listings
    PROVE  /\ WasabiListFiles(dir) \in Programs /\ WasabiDeleteFile(a) \in Programs /\ WasabiMoveFile(a, b) \in Programs
           /\ WasabiGetFileInfo(a) \in Programs /\ WasabiDownloadFile(a) \in Programs /\ WasabiUploadFile(a) \in Programs
<1>1. WasabiMoveFile(a, b) \in Programs  BY PlainSteps, ShortPrograms DEF WasabiMoveFile, Copying
<1> QED  BY <1>1, S3Programs
    DEF WasabiListFiles, WasabiDeleteFile, WasabiGetFileInfo, WasabiDownloadFile, WasabiUploadFile

LEMMA HubicCalls ==
    ASSUME NEW v \in MildVerbs, NEW x \in Asked, NEW y \in Asked, Mild(v, x)
    PROVE  HubicCall(v, x, y) \in MildSteps
<1>1. On(NoError, {"busy", "drop"}, "again") \in Choices  BY OnType, NoErrorType DEF Treatments
<1>2. On(On(NoError, {"busy", "drop"}, "again"), {"expired"}, "login") \in Choices  BY <1>1, OnType DEF Treatments
<1> QED  BY <1>2, MildStep DEF HubicCall

LEMMA HubicPrograms ==
    ASSUME NEW a \in Paths, NEW b \in Paths, NEW dir \in Listings
    PROVE  /\ HubicListFiles(dir) \in Programs /\ HubicDeleteFile(a) \in Programs /\ HubicMoveFile(a, b) \in Programs
           /\ HubicGetFileInfo(a) \in Programs /\ HubicDownloadFile(a) \in Programs /\ HubicUploadFile(a) \in Programs
           /\ HubicCreateDirectory \in Programs
<1> DEFINE Calls1 == {"stat", "get", "put", "delete", "copy"}
<1>1. /\ a \in Asked /\ b \in Asked /\ dir \in Asked /\ "dir" \in Asked
      /\ \A v \in Calls1 : v \in MildVerbs /\ Mild(v, a)
      /\ Mild("pages", dir) /\ Mild("mkdir", "dir") /\ "pages" \in MildVerbs /\ "mkdir" \in MildVerbs
  <2>1. a \in Asked /\ b \in Asked /\ dir \in Asked /\ "dir" \in Asked  BY NamesAsked
  <2>2. \A v \in Calls1 \cup {"pages", "mkdir"} : v \in MildVerbs  BY DEF MildVerbs
  <2>3. \A v \in {"pages", "mkdir"} : v \notin Copying  BY DEF Copying
  <2> HIDE DEF Calls1
  <2> QED  BY <2>1, <2>2, <2>3, MildNames
<1>2. /\ \A v \in Calls1 : HubicCall(v, a, a) \in MildSteps /\ HubicCall(v, a, b) \in MildSteps
      /\ HubicCall("pages", dir, dir) \in MildSteps /\ HubicCall("mkdir", "dir", "dir") \in MildSteps
  BY <1>1, HubicCalls
<1>3. HubicListFiles(dir) \in Programs /\ HubicCreateDirectory \in Programs /\ HubicUploadFile(a) \in Programs
  BY <1>2, ShortPrograms
  DEF HubicListFiles, HubicListEntries, HubicCreateDirectory, HubicClientCreateDirectory, HubicUploadFile, HubicClientUploadFile
<1>4. HubicClientDeleteFile(a) \in Programs /\ HubicClientDeleteFile(a)[1] \in MildSteps
  BY <1>2, ShortPrograms DEF HubicClientDeleteFile
<1>5. HubicDeleteFile(a) \in Programs /\ HubicGetFileInfo(a) \in Programs
  BY <1>2, <1>4, ShortPrograms, MildWhere DEF HubicDeleteFile, HubicGetFileInfo, HubicClientGetFileInfo, Treatments
<1>6. HubicMoveFile(a, b) \in Programs
  BY <1>2, <1>4, ShortPrograms DEF HubicMoveFile, HubicClientMoveFile
<1>7. HubicDownloadFile(a) \in Programs
  BY <1>2, PlainSteps, ShortPrograms DEF HubicDownloadFile, HubicClientDownloadFile
<1> QED  BY <1>3, <1>5, <1>6, <1>7

LEMMA WebDAVCalls ==
    ASSUME NEW v \in MildVerbs, NEW x \in Asked, NEW y \in Asked, Mild(v, x)
    PROVE  WebDAVsendRequest(v, x, y) \in MildSteps
<1>1. On(NoError, Errors, "again") \in Choices  BY OnType, NoErrorType DEF Treatments
<1>2. \A set : On(On(NoError, Errors, "again"), set, "fail") \in Choices  BY <1>1, OnType DEF Treatments
<1> QED  BY <1>2, MildStep DEF WebDAVsendRequest

LEMMA WebDAVPrograms ==
    ASSUME NEW a \in Paths, NEW b \in Paths, NEW dir \in Listings
    PROVE  /\ WebDAVListFiles(dir) \in Programs /\ WebDAVDeleteFile(a) \in Programs /\ WebDAVMoveFile(a, b) \in Programs
           /\ WebDAVGetFileInfo(a) \in Programs /\ WebDAVDownloadFile(a) \in Programs /\ WebDAVUploadFile(a) \in Programs
           /\ WebDAVCreateDirectory \in Programs
<1> DEFINE Calls1 == {"stat", "get", "put", "delete", "rename"}
<1>1. /\ a \in Asked /\ b \in Asked /\ dir \in Asked /\ "dir" \in Asked
      /\ \A v \in Calls1 : v \in MildVerbs /\ Mild(v, a)
      /\ Mild("readdir", dir) /\ Mild("mkdirsave", "dir") /\ "readdir" \in MildVerbs /\ "mkdirsave" \in MildVerbs
      /\ "parse" \in MildVerbs \ Copying
  <2>1. a \in Asked /\ b \in Asked /\ dir \in Asked /\ "dir" \in Asked  BY NamesAsked
  <2>2. \A v \in Calls1 \cup {"readdir", "mkdirsave", "parse"} : v \in MildVerbs  BY DEF MildVerbs
  <2>3. \A v \in {"readdir", "mkdirsave", "parse"} : v \notin Copying  BY DEF Copying
  <2> HIDE DEF Calls1
  <2> QED  BY <2>1, <2>2, <2>3, MildNames
<1>2. /\ \A v \in Calls1 : WebDAVsendRequest(v, a, a) \in MildSteps /\ WebDAVsendRequest(v, a, b) \in MildSteps
      /\ WebDAVsendRequest("readdir", dir, dir) \in MildSteps /\ WebDAVsendRequest("mkdirsave", "dir", "dir") \in MildSteps
  BY <1>1, WebDAVCalls
<1>3. \A x \in Asked : Step("parse", x, x, On(NoError, {"drop"}, "restart"), 3) \in MildSteps
  <2>1. On(NoError, {"drop"}, "restart") \in Choices  BY OnType, NoErrorType DEF Treatments
  <2> QED  BY <1>1, <2>1, OtherStep
<1>4. WebDAVListFiles(dir) \in Programs  BY <1>1, <1>2, <1>3, ShortPrograms DEF WebDAVListFiles, WebDAVgetProperties
<1>5. WebDAVGetFileInfo(a) \in Programs
  <2>1. WebDAVgetProperties("stat", a)[1] \in MildSteps /\ WebDAVgetProperties("stat", a)[2] \in MildSteps
    BY <1>1, <1>2, <1>3 DEF WebDAVgetProperties
  <2>2. Where(WebDAVgetProperties("stat", a)[1], {"notfound"}, "absent") \in MildSteps  BY <2>1, MildWhere DEF Treatments
  <2> QED  BY <2>1, <2>2, ShortPrograms DEF WebDAVGetFileInfo
<1>6. WebDAVDeleteFile(a) \in Programs /\ WebDAVMoveFile(a, b) \in Programs
  BY <1>2, ShortPrograms DEF WebDAVDeleteFile, WebDAVMoveFile
<1>7. WebDAVDownloadFile(a) \in Programs  BY <1>2, PlainSteps, ShortPrograms DEF WebDAVDownloadFile
<1>8. \A t \in {"return", "skip"} : Where(Where(Ask("cached", "dir"), {"ok"}, t), {"notfound"}, "next") \in MildSteps
  BY PlainSteps, MildWhere DEF Treatments
<1>9. WebDAVCreateDirectory \in Programs
  <2>1. Where(WebDAVsendRequest("mkdirsave", "dir", "dir"), {"exists"}, "return") \in MildSteps
    BY <1>2, MildWhere DEF Treatments
  <2> QED  BY <1>8, <2>1, ShortPrograms DEF WebDAVCreateDirectory
<1>10. WebDAVUploadFile(a) \in Programs
  <2> DEFINE s == WebDAVsendRequest("mkdirsave", "dir", "dir")
             t == [s EXCEPT !.on["exists"] = "next", !.spent = Always("next")]
  <2>1. s \in MildSteps  BY <1>2
  <2>2. [s.on EXCEPT !["exists"] = "next"] \in Choices /\ Always("next") \in Choices
    BY <2>1, MildChoices, ChoiceUpdate, AlwaysType DEF Treatments
  <2>3. t = [s EXCEPT !.on = [s.on EXCEPT !["exists"] = "next"], !.spent = Always("next")]
    <3> HIDE DEF s
    <3> QED  BY <2>1 DEF MildSteps, AllSteps
  <2> HIDE DEF s
  <2>4. t \in MildSteps  BY <2>1, <2>2, <2>3, MildOnSpent
  <2> HIDE DEF t
  <2>5. WebDAVcreateParentDirectory \in Programs
    BY <1>8, <2>4, ShortPrograms DEF WebDAVcreateParentDirectory, s, t
  <2> QED  BY <1>2, <2>5, ShortPrograms DEF WebDAVUploadFile
<1> QED  BY <1>4, <1>5, <1>6, <1>7, <1>9, <1>10

LEMMA FunctionIsProgram ==
    ASSUME NEW n \in Nat, NEW f \in [1 .. n -> MildSteps]
    PROVE  f \in Programs
BY DEF Programs

LEMMA OneCalls ==
    ASSUME NEW v \in MildVerbs, NEW x \in Asked, NEW y \in Asked, Mild(v, x)
    PROVE  OneCall(v, x, y) \in MildSteps
<1>1. On(NoError, {"busy", "throttled", "denied", "drop"}, "again") \in Choices
  BY OnType, NoErrorType DEF Treatments
<1>2. On(On(NoError, {"busy", "throttled", "denied", "drop"}, "again"), {"expired"}, "login") \in Choices
  BY <1>1, OnType DEF Treatments
<1> QED  BY <1>2, MildStep DEF OneCall

LEMMA OnePrograms ==
    ASSUME NEW a \in Paths, NEW b \in Paths, NEW dir \in Listings, NEW business \in BOOLEAN
    PROVE  /\ OneListFiles(dir) \in Programs /\ OneDeleteFile(a) \in Programs /\ OneMoveFile(a, b) \in Programs
           /\ OneGetFileInfo(a) \in Programs /\ OneDownloadFile(a) \in Programs /\ OneUploadFile(a, business) \in Programs
           /\ OneCreateDirectory \in Programs
<1> DEFINE Verbs1 == {"stat", "put", "send", "delete", "move"}
<1>1. /\ a \in Asked /\ b \in Asked /\ dir \in Asked /\ "dir" \in Asked /\ "live" \in Asked /\ "fossils" \in Asked
      /\ "root" \in Asked /\ Unconverted(a) \in Asked /\ ParentOf(b) \in Asked
      /\ \A v \in Verbs1 : v \in MildVerbs /\ Mild(v, a)
      /\ \A v \in {"pages", "statdir", "mkdir", "get", "read"}, x \in Asked : v \in MildVerbs /\ Mild(v, x)
  <2>1. a \in Asked /\ b \in Asked /\ dir \in Asked /\ "dir" \in Asked /\ "live" \in Asked /\ "fossils" \in Asked
        /\ "root" \in Asked /\ Unconverted(a) \in Asked /\ ParentOf(b) \in Asked  BY NamesAsked
  <2>2. \A v \in Verbs1 \cup {"pages", "statdir", "mkdir", "get", "read"} : v \in MildVerbs  BY DEF MildVerbs
  <2>3. \A v \in {"pages", "statdir", "mkdir", "get", "read"} : v \notin Copying  BY DEF Copying
  <2> HIDE DEF Verbs1
  <2> QED  BY <2>1, <2>2, <2>3, MildNames
<1>2. /\ \A v \in Verbs1 : OneCall(v, a, a) \in MildSteps /\ OneCall(v, a, b) \in MildSteps
      /\ \A v \in {"pages", "statdir", "mkdir", "get", "read"}, x \in Asked :
            OneCall(v, x, x) \in MildSteps /\ Ask(v, x) \in MildSteps
  BY <1>1, OneCalls, MildAsk
<1>3. OneListFiles(dir) \in Programs
  <2>1. \A d \in {"live", "fossils", dir} : OneListEntries(d) \in Programs  BY <1>1, <1>2, ShortPrograms DEF OneListEntries
  <2> QED  BY <2>1, ShortPrograms DEF OneListFiles
<1>4. OneDeleteFile(a) \in Programs /\ OneGetFileInfo(a) \in Programs
  BY <1>2, MildWhere, ShortPrograms DEF OneDeleteFile, OneClientDeleteFile, OneGetFileInfo, OneClientGetFileInfo, Treatments
<1>5. \A d \in {"dir", ParentOf(b)} :
          /\ OneClientCreateDirectory(d) \in Programs
          /\ OneClientCreateDirectory(d)[1] \in MildSteps /\ OneClientCreateDirectory(d)[2] \in MildSteps
  <2> SUFFICES ASSUME NEW d \in {"dir", ParentOf(b)}
               PROVE  /\ OneClientCreateDirectory(d) \in Programs
                      /\ OneClientCreateDirectory(d)[1] \in MildSteps /\ OneClientCreateDirectory(d)[2] \in MildSteps
    OBVIOUS
  <2>1. OneCall("statdir", "root", "root") \in MildSteps /\ Where(OneCall("mkdir", d, d), {"exists"}, "next") \in MildSteps
    BY <1>1, <1>2, MildWhere DEF Treatments
  <2> QED  BY <2>1, ShortPrograms DEF OneClientCreateDirectory
<1>6. OneCreateDirectory \in Programs  BY <1>5 DEF OneCreateDirectory
<1>7. OneMoveFile(a, b) \in Programs
  <2> DEFINE mkdir == OneClientCreateDirectory(ParentOf(b))
             ignored(step, then) == [step EXCEPT !.spent = Always(then),
                                                 !.on = [x \in Answers |-> IF @[x] = "fail" THEN then ELSE @[x]]]
             first == Where(Where(OneCall("move", a, b), {"ok"}, "return"), {"nodir"}, "next")
             last == OneCall("move", a, b)
  <2>1. mkdir[1] \in MildSteps /\ mkdir[2] \in MildSteps /\ last \in MildSteps  BY <1>2, <1>5
  <2>2. first \in MildSteps  BY <1>2, MildWhere DEF Treatments
  <2>3. ASSUME NEW t \in MildSteps, NEW then \in {"skip", "next", "return"} PROVE ignored(t, then) \in MildSteps
    <3>1. Always(then) \in Choices  BY AlwaysType DEF Treatments
    <3>2. t.on \in Choices  BY MildChoices
    <3>3. [x \in Answers |-> IF t.on[x] = "fail" THEN then ELSE t.on[x]] \in Choices  BY <3>2 DEF Choices, Treatments
    <3>4. [t EXCEPT !.spent = Always(then), !.on = [x \in Answers |-> IF t.on[x] = "fail" THEN then ELSE t.on[x]]] \in MildSteps
      BY <3>1, <3>3, MildSpentOn
    <3>5. ignored(t, then) = [t EXCEPT !.spent = Always(then), !.on = [x \in Answers |-> IF t.on[x] = "fail" THEN then ELSE t.on[x]]]
      BY DEF MildSteps, AllSteps
    <3> QED  BY <3>4, <3>5
  <2>4. OneClientMoveFile(a, b) = <<first, ignored(mkdir[1], "skip"), ignored(mkdir[2], "next"), ignored(last, "return")>>
    BY DEF OneClientMoveFile
  <2> HIDE DEF mkdir, ignored, first, last
  <2> DEFINE p == OneClientMoveFile(a, b)
  <2>5. p \in Seq(MildSteps) /\ Len(p) = 4 /\ p[1] = first  BY <2>1, <2>2, <2>3, <2>4
  <2>6. Where(first, {"exists"}, "return") \in MildSteps  BY <2>2, MildWhere DEF Treatments
  <2>7. OneMoveFile(a, b) = [p EXCEPT ![1] = Where(first, {"exists"}, "return")]  BY <2>5 DEF OneMoveFile
  <2> HIDE DEF p
  <2>8. p \in [1 .. 4 -> MildSteps]  BY <2>5
  <2>9. OneMoveFile(a, b) \in [1 .. 4 -> MildSteps]  BY <2>6, <2>7, <2>8
  <2> QED  BY <2>9, FunctionIsProgram
<1>8. OneDownloadFile(a) \in Programs  BY <1>1, <1>2, PlainSteps, ShortPrograms DEF OneDownloadFile, OneClientDownloadFile
<1>9. OneUploadFile(a, business) \in Programs
  <2> DEFINE p == OneClientUploadFile(a, business)
  <2>1. p \in Seq(MildSteps)
    <3>1. <<OneCall("send", a, a)>> \in Programs /\ <<OneCall("put", a, a), Ask("parse", a)>> \in Programs /\ <<OneCall("put", a, a)>> \in Programs
      BY <1>2, PlainSteps, ShortPrograms
    <3> QED  BY <3>1, ShortPrograms DEF OneClientUploadFile, OneCreateUploadSession, OneUploadFileSession, Programs
  <2>2. OneUploadFile(a, business) = [i \in DOMAIN p |-> Where(p[i], {"exists"}, "return")]  BY DEF OneUploadFile
  <2> HIDE DEF p
  <2>3. \A i \in DOMAIN p : Where(p[i], {"exists"}, "return") \in MildSteps  BY <2>1, MildWhere DEF Treatments
  <2>4. DOMAIN p = 1 .. Len(p) /\ Len(p) \in Nat  BY <2>1
  <2> QED  BY <2>2, <2>3, <2>4 DEF Programs
<1> QED  BY <1>3, <1>4, <1>6, <1>7, <1>8, <1>9

LEMMA ACDCalls ==
    ASSUME NEW v \in MildVerbs, NEW x \in Asked, NEW y \in Asked, Mild(v, x)
    PROVE  ACDCall(v, x, y) \in MildSteps
<1>1. On(NoError, {"throttled"}, "again") \in Choices  BY OnType, NoErrorType DEF Treatments
<1>2. On(On(NoError, {"throttled"}, "again"), {"expired"}, "login") \in Choices  BY <1>1, OnType DEF Treatments
<1> QED  BY <1>2, MildStep DEF ACDCall

LEMMA ACDPrograms ==
    ASSUME NEW a \in Paths, NEW b \in Paths, NEW dir \in Listings
    PROVE  /\ ACDListFiles(dir) \in Programs /\ ACDDeleteFile(a) \in Programs /\ ACDMoveFile(a, b) \in Programs
           /\ ACDGetFileInfo(a) \in Programs /\ ACDDownloadFile(a) \in Programs /\ ACDUploadFile(a) \in Programs
           /\ ACDCreateDirectory \in Programs
<1> DEFINE Verbs1 == {"pages", "lookup", "find", "mkdir", "mkdirsave", "getid", "putonce", "trash", "cached", "read"}
<1>1. /\ a \in Asked /\ b \in Asked /\ dir \in Asked /\ "dir" \in Asked /\ "live" \in Asked /\ "fossils" \in Asked
      /\ Unconverted(a) \in Asked /\ ParentOf(a) \in Asked /\ ParentOf(b) \in Asked
      /\ "moveid" \in MildVerbs /\ Mild("moveid", a) /\ "reid" \in MildVerbs \ Copying
      /\ \A v \in Verbs1, x \in Asked : v \in MildVerbs /\ Mild(v, x)
  <2>1. a \in Asked /\ b \in Asked /\ dir \in Asked /\ "dir" \in Asked /\ "live" \in Asked /\ "fossils" \in Asked
        /\ Unconverted(a) \in Asked /\ ParentOf(a) \in Asked /\ ParentOf(b) \in Asked  BY NamesAsked
  <2>2. \A v \in Verbs1 \cup {"moveid", "reid"} : v \in MildVerbs  BY DEF MildVerbs
  <2>3. \A v \in Verbs1 \cup {"reid"} : v \notin Copying  BY DEF Copying
  <2> HIDE DEF Verbs1
  <2> QED  BY <2>1, <2>2, <2>3, MildNames
<1>2. /\ \A v \in Verbs1, x \in Asked : ACDCall(v, x, x) \in MildSteps /\ Ask(v, x) \in MildSteps
      /\ ACDCall("moveid", a, b) \in MildSteps
  BY <1>1, ACDCalls, MildAsk
<1>3. /\ Step("reid", a, b, NoError, 0) \in MildSteps /\ Step("reid", a, a, NoError, 0) \in MildSteps
  BY <1>1, NoErrorType, OtherStep
<1> HIDE DEF Verbs1
<1>4. ACDListFiles(dir) \in Programs
  <2>1. \A d \in {"live", "fossils", dir} : ACDListEntries(d) \in Programs
    BY <1>1, <1>2, ShortPrograms DEF ACDListEntries, Verbs1
  <2> QED  BY <2>1, ShortPrograms DEF ACDListFiles
<1>5. /\ \A x \in Asked : ACDfindPathID(x) \in MildSteps /\ ACDListByName(x, TRUE) \in MildSteps /\ ACDListByName(x, FALSE) \in MildSteps
      /\ \A x \in Asked : ACDClientCreateDirectory(x, TRUE) \in MildSteps /\ ACDClientCreateDirectory(x, FALSE) \in MildSteps
      /\ ACDClientDeleteFile(a) \in MildSteps /\ ACDClientUploadFile(a) \in MildSteps
      /\ ACDClientDownloadFile(Unconverted(a)) \in MildSteps /\ ACDClientMoveFile(a, b) \in MildSteps
  <2>1. \A x \in Asked : ACDfindPathID(x) \in MildSteps  BY <1>2, MildWhere DEF ACDfindPathID, Verbs1, Treatments
  <2> QED  BY <1>1, <1>2, <2>1
      DEF ACDListByName, ACDClientCreateDirectory, ACDClientDeleteFile, ACDClientUploadFile, ACDClientDownloadFile,
          ACDClientMoveFile, Verbs1
<1>6. ACDDeleteFile(a) \in Programs
  <2>1. /\ Where(ACDfindPathID(a), {"ok"}, "skip") \in MildSteps
        /\ Where(ACDListByName(a, TRUE), {"notfound"}, "return") \in MildSteps
        /\ Where(ACDClientDeleteFile(a), {"exists"}, "return") \in MildSteps
    BY <1>1, <1>5, MildWhere DEF Treatments
  <2> QED  BY <2>1, ShortPrograms DEF ACDDeleteFile
<1>7. ASSUME NEW d \in Asked, NEW create \in BOOLEAN
      PROVE  /\ ACDgetIDFromPath(d, create) \in Programs
             /\ ACDgetIDFromPath(d, create)[1] \in MildSteps /\ ACDgetIDFromPath(d, create)[2] \in MildSteps
  <2> DEFINE w == Where(ACDListByName(d, FALSE), {"notfound"}, "again")
             s1 == Where(ACDfindPathID(d), {"ok"}, "skip3")
             s2 == Where(Where(ACDListByName(d, TRUE), {"ok"}, "skip2"), {"notfound"}, IF create THEN "next" ELSE "fail")
             s3 == Where(Where(ACDClientCreateDirectory(d, FALSE), {"ok"}, "skip"), {"exists"}, "next")
  <2>1. w \in MildSteps /\ s1 \in MildSteps /\ s3 \in MildSteps  BY <1>5, MildWhere DEF Treatments
  <2>2. s2 \in MildSteps
    <3>1. Where(ACDListByName(d, TRUE), {"ok"}, "skip2") \in MildSteps  BY <1>5, MildWhere DEF Treatments
    <3>2. (IF create THEN "next" ELSE "fail") \in Treatments  BY DEF Treatments
    <3> QED  BY <3>1, <3>2, MildWhere
  <2>3. NoError \in Choices  BY NoErrorType
  <2>4. ACDgetIDFromPath(d, create) = <<s1, s2, s3, [w EXCEPT !.tries = 10]>>  BY DEF ACDgetIDFromPath
  <2> HIDE DEF w, s1, s2, s3
  <2>5. [w EXCEPT !.tries = 10] \in MildSteps  BY <2>1, MildTries
  <2> QED  BY <2>1, <2>2, <2>4, <2>5 DEF Programs
<1>8. ACDMoveFile(a, b) \in Programs
  <2>1. <<Ask("cached", a)>> \in Programs  BY <1>1, <1>2, ShortPrograms DEF Verbs1
  <2>2. Where(ACDClientMoveFile(a, b), {"exists"}, "next") \in MildSteps  BY <1>5, MildWhere DEF Treatments
  <2>3. <<Where(ACDClientMoveFile(a, b), {"exists"}, "next"), Step("reid", a, b, NoError, 0)>> \in Programs
    BY <1>3, <2>2, ShortPrograms
  <2>4. ACDgetIDFromPath(ParentOf(a), FALSE) \in Programs /\ ACDgetIDFromPath(ParentOf(b), TRUE) \in Programs
    BY <1>1, <1>7
  <2> QED  BY <2>1, <2>3, <2>4, ShortPrograms DEF ACDMoveFile
<1>9. ACDCreateDirectory \in Programs
  BY <1>1, <1>5, MildWhere, ShortPrograms DEF ACDCreateDirectory, Treatments
<1>10. ACDGetFileInfo(a) \in Programs
  <2> DEFINE p == ACDgetIDFromPath(ParentOf(a), FALSE)
  <2>1. p[1] \in MildSteps /\ p[2] \in MildSteps  BY <1>1, <1>7
  <2> HIDE DEF p
  <2>2. Where(p[1], {"ok"}, "skip") \in MildSteps  BY <2>1, MildWhere DEF Treatments
  <2>3. Where(Where(p[2], {"ok"}, "next"), {"notfound"}, "absent") \in MildSteps  BY <2>1, MildWhere DEF Treatments
  <2>4. Where(ACDListByName(a, TRUE), {"notfound"}, "absent") \in MildSteps  BY <1>1, <1>5, MildWhere DEF Treatments
  <2> QED  BY <2>2, <2>3, <2>4, ShortPrograms DEF ACDGetFileInfo, p
<1>11. ACDDownloadFile(a) \in Programs
  <2>1. Where(ACDfindPathID(Unconverted(a)), {"ok"}, "skip") \in MildSteps  BY <1>1, <1>5, MildWhere DEF Treatments
  <2>2. Ask("read", a) \in MildSteps  BY <1>1, <1>2 DEF Verbs1
  <2> QED  BY <1>1, <1>5, <2>1, <2>2, ShortPrograms DEF ACDDownloadFile
<1>12. ACDUploadFile(a) \in Programs
  <2>1. Where(ACDClientUploadFile(a), {"exists"}, "return") \in MildSteps  BY <1>5, MildWhere DEF Treatments
  <2>2. <<Where(ACDClientUploadFile(a), {"exists"}, "return"), Step("reid", a, a, NoError, 0)>> \in Programs
    BY <1>3, <2>1, ShortPrograms
  <2>3. ACDgetIDFromPath("dir", TRUE) \in Programs  BY <1>1, <1>7
  <2> QED  BY <2>2, <2>3, ShortPrograms DEF ACDUploadFile
<1> QED  BY <1>4, <1>6, <1>8, <1>9, <1>10, <1>11, <1>12

LEMMA GCDCalls ==
    ASSUME NEW v \in MildVerbs, NEW x \in Asked, NEW y \in Asked, Mild(v, x)
    PROVE  GCDshouldRetry(v, x, y) \in MildSteps
<1>1. On(NoError, {"busy", "throttled", "denied", "expired", "drop"}, "again") \in Choices
  BY OnType, NoErrorType DEF Treatments
<1> QED  BY <1>1, MildStep DEF GCDshouldRetry

LEMMA GCDPrograms ==
    ASSUME NEW a \in Paths, NEW b \in Paths, NEW dir \in Listings
    PROVE  /\ GCDListFiles(dir) \in Programs /\ GCDDeleteFile(a) \in Programs /\ GCDMoveFile(a, b) \in Programs
           /\ GCDGetFileInfo(a) \in Programs /\ GCDDownloadFile(a) \in Programs /\ GCDUploadFile(a) \in Programs
           /\ GCDCreateDirectory("dir") \in Programs
<1> DEFINE Verbs1 == {"pages", "lookup", "find", "mkdirsave", "get", "putmore", "delete", "cached", "read", "idsaved"}
<1>1. /\ a \in Asked /\ b \in Asked /\ dir \in Asked /\ "dir" \in Asked /\ "live" \in Asked /\ "fossils" \in Asked
      /\ ParentOf(a) \in Asked /\ ParentOf(b) \in Asked
      /\ "reparent" \in MildVerbs /\ Mild("reparent", a)
      /\ \A v \in Verbs1, x \in Asked : v \in MildVerbs /\ Mild(v, x)
  <2>1. a \in Asked /\ b \in Asked /\ dir \in Asked /\ "dir" \in Asked /\ "live" \in Asked /\ "fossils" \in Asked
        /\ ParentOf(a) \in Asked /\ ParentOf(b) \in Asked  BY NamesAsked
  <2>2. \A v \in Verbs1 \cup {"reparent"} : v \in MildVerbs  BY DEF MildVerbs
  <2>3. \A v \in Verbs1 : v \notin Copying  BY DEF Copying
  <2> HIDE DEF Verbs1
  <2> QED  BY <2>1, <2>2, <2>3, MildNames
<1>2. /\ \A v \in Verbs1, x \in Asked : GCDshouldRetry(v, x, x) \in MildSteps /\ Ask(v, x) \in MildSteps
      /\ GCDshouldRetry("reparent", a, b) \in MildSteps
  BY <1>1, GCDCalls, MildAsk
<1> HIDE DEF Verbs1
<1>3. GCDListFiles(dir) \in Programs
  <2>1. \A d \in {"live", "fossils", dir} : GCDlistFiles(d) \in Programs
    BY <1>1, <1>2, ShortPrograms DEF GCDlistFiles, Verbs1
  <2>2. Where(Ask("idsaved", "dir"), {"notfound"}, "hang") \in MildSteps  BY <1>1, <1>2, MildWhere DEF Verbs1, Treatments
  <2> QED  BY <2>1, <2>2, ShortPrograms DEF GCDListFiles
<1>4. \A x \in Asked : GCDlistByName(x) \in MildSteps  BY <1>2 DEF GCDlistByName, Verbs1
<1>5. \A c \in Choices, s \in MildSteps : [s EXCEPT !.spent = c] \in MildSteps
  BY MildSpent
<1>6. GCDDeleteFile(a) \in Programs
  <2> DEFINE w == Where(GCDlistByName(a), {"notfound"}, "return")
  <2>1. w \in MildSteps  BY <1>1, <1>4, MildWhere DEF Treatments
  <2>2. Always("return") \in Choices  BY AlwaysType DEF Treatments
  <2>3. Where(GCDshouldRetry("delete", a, a), {"notfound"}, "return") \in MildSteps
    BY <1>1, <1>2, MildWhere DEF Treatments, Verbs1
  <2> HIDE DEF w
  <2>4. [w EXCEPT !.spent = Always("return")] \in MildSteps  BY <1>5, <2>1, <2>2
  <2> QED  BY <2>3, <2>4, ShortPrograms DEF GCDDeleteFile, w
<1>7. \A d \in Asked : GCDCreateDirectory(d) \in Programs
  <2> SUFFICES ASSUME NEW d \in Asked PROVE GCDCreateDirectory(d) \in Programs  OBVIOUS
  <2>1. Where(Where(Ask("cached", d), {"ok"}, "skip2"), {"notfound"}, "next") \in MildSteps
    BY <1>2, MildWhere DEF Verbs1, Treatments
  <2>2. Where(Where(GCDlistByName(d), {"ok"}, "skip"), {"notfound"}, "next") \in MildSteps
    BY <1>4, MildWhere DEF Treatments
  <2>3. GCDshouldRetry("mkdirsave", d, d) \in MildSteps  BY <1>2 DEF Verbs1
  <2> QED  BY <2>1, <2>2, <2>3, ShortPrograms DEF GCDCreateDirectory
<1>8. ASSUME NEW d \in Asked, NEW create \in BOOLEAN
      PROVE  /\ GCDgetIDFromPath(d, create) \in Programs
             /\ ~create => GCDgetIDFromPath(d, create)[1] \in MildSteps /\ GCDgetIDFromPath(d, create)[2] \in MildSteps
  <2> DEFINE s1 == Where(Where(Ask("cached", d), {"ok"}, "skip"), {"notfound"}, "next")
             s2 == Where(GCDlistByName(d), {"notfound"}, IF create THEN "next" ELSE "fail")
             q == IF create THEN GCDCreateDirectory(d) ELSE <<>>
  <2>1. s1 \in MildSteps  BY <1>2, MildWhere DEF Verbs1, Treatments
  <2>2. s2 \in MildSteps  BY <1>4, MildWhere DEF Treatments
  <2>3. q \in Programs  BY <1>7, ShortPrograms
  <2>4. GCDgetIDFromPath(d, create) = <<s1, s2>> \o q  BY DEF GCDgetIDFromPath
  <2>5. ~create => q = <<>>  OBVIOUS
  <2> HIDE DEF s1, s2, q
  <2> QED  BY <2>1, <2>2, <2>3, <2>4, <2>5 DEF Programs
<1>9. GCDMoveFile(a, b) \in Programs
  <2>1. <<GCDlistByName(a)>> \in Programs /\ <<GCDshouldRetry("reparent", a, b)>> \in Programs
    BY <1>1, <1>2, <1>4, ShortPrograms
  <2>2. GCDgetIDFromPath(ParentOf(a), FALSE) \in Programs /\ GCDgetIDFromPath(ParentOf(b), TRUE) \in Programs
    BY <1>1, <1>8
  <2> QED  BY <2>1, <2>2, ShortPrograms DEF GCDMoveFile
<1>10. GCDGetFileInfo(a) \in Programs
  <2> DEFINE p == GCDgetIDFromPath(ParentOf(a), FALSE)
  <2>1. p[1] \in MildSteps /\ p[2] \in MildSteps  BY <1>1, <1>8
  <2> HIDE DEF p
  <2>2. Where(p[2], {"notfound"}, "absent") \in MildSteps  BY <2>1, MildWhere DEF Treatments
  <2>3. Where(GCDlistByName(a), {"notfound"}, "absent") \in MildSteps  BY <1>1, <1>4, MildWhere DEF Treatments
  <2> QED  BY <2>1, <2>2, <2>3, ShortPrograms DEF GCDGetFileInfo, p
<1>11. GCDDownloadFile(a) \in Programs
  <2>1. GCDshouldRetry("get", a, a) \in MildSteps /\ Ask("read", a) \in MildSteps  BY <1>1, <1>2 DEF Verbs1
  <2> QED  BY <1>1, <1>4, <2>1, ShortPrograms DEF GCDDownloadFile
<1>12. GCDUploadFile(a) \in Programs
  <2>1. <<GCDshouldRetry("putmore", a, a)>> \in Programs  BY <1>1, <1>2, ShortPrograms DEF Verbs1
  <2>2. GCDgetIDFromPath("dir", TRUE) \in Programs  BY <1>1, <1>8
  <2> QED  BY <2>1, <2>2, ShortPrograms DEF GCDUploadFile
<1> QED  BY <1>1, <1>3, <1>6, <1>7, <1>9, <1>10, <1>11, <1>12

LEMMA FFCalls ==
    ASSUME NEW v \in MildVerbs, NEW x \in Asked, NEW y \in Asked, Mild(v, x)
    PROVE  FFsendRequest(v, x, y) \in MildSteps
<1> DEFINE on == On(NoError, {"busy", "throttled", "denied", "expired", "drop"}, "again")
           spent == [z \in Answers |-> IF z = "drop" THEN "fail" ELSE "panic"]
           s == Step(v, x, y, on, 12)
<1>1. on \in Choices  BY OnType, NoErrorType DEF Treatments
<1>2. spent \in Choices  BY DEF Choices, Treatments
<1>3. FFsendRequest(v, x, y) = [s EXCEPT !.spent = spent]  BY DEF FFsendRequest
<1> HIDE DEF on, spent
<1>4. s \in MildSteps  BY <1>1, MildStep
<1> HIDE DEF s
<1> QED  BY <1>2, <1>3, <1>4, MildSpent

LEMMA FFPrograms ==
    ASSUME NEW a \in Paths, NEW b \in Paths, NEW dir \in Listings
    PROVE  /\ FFListFiles(dir) \in Programs /\ FFDeleteFile(a) \in Programs /\ FFMoveFile(a, b) \in Programs
           /\ FFGetFileInfo(a) \in Programs /\ FFDownloadFile(a) \in Programs /\ FFUploadFile(a) \in Programs
           /\ FFCreateDirectory \in Programs
<1> DEFINE Verbs1 == {"pages", "lookup", "stat", "statdir", "mkdirsave", "get", "put", "delete", "cached", "read"}
<1>1. /\ a \in Asked /\ b \in Asked /\ dir \in Asked /\ "dir" \in Asked /\ "root" \in Asked
      /\ "move" \in MildVerbs /\ Mild("move", a)
      /\ \A v \in Verbs1, x \in Asked : v \in MildVerbs /\ Mild(v, x)
  <2>1. a \in Asked /\ b \in Asked /\ dir \in Asked /\ "dir" \in Asked /\ "root" \in Asked  BY NamesAsked
  <2>2. \A v \in Verbs1 \cup {"move"} : v \in MildVerbs  BY DEF MildVerbs
  <2>3. \A v \in Verbs1 : v \notin Copying  BY DEF Copying
  <2> HIDE DEF Verbs1
  <2> QED  BY <2>1, <2>2, <2>3, MildNames
<1>2. /\ \A v \in Verbs1, x, y \in Asked : FFsendRequest(v, x, y) \in MildSteps /\ Ask(v, x) \in MildSteps
      /\ FFsendRequest("move", a, b) \in MildSteps
  BY <1>1, FFCalls, MildAsk
<1> HIDE DEF Verbs1
<1>3. FFListFiles(dir) \in Programs
  <2> DEFINE s == FFsendRequest("statdir", IF dir = "chunks" THEN "dir" ELSE "root", dir)
  <2>1. s \in MildSteps /\ FFsendRequest("pages", dir, dir) \in MildSteps  BY <1>1, <1>2 DEF Verbs1
  <2>2. Where(s, {"nodir"}, "return") \in MildSteps  BY <2>1, MildWhere DEF Treatments
  <2> QED  BY <2>1, <2>2, ShortPrograms DEF FFListFiles
<1>4. FFGetFileInfo(a) \in Programs
  BY <1>1, <1>2, MildWhere, ShortPrograms DEF FFGetFileInfo, FFgetFileInfo, Verbs1, Treatments
<1>5. FFlookup(a) \in MildSteps
  <2> DEFINE w == Where(FFgetFileInfo(a), {"notfound"}, "return")
  <2>1. w \in MildSteps  BY <1>1, <1>2, MildWhere DEF FFgetFileInfo, Verbs1, Treatments
  <2>2. FFlookup(a) = [w EXCEPT !.spent["drop"] = "return"]  BY DEF FFlookup
  <2> HIDE DEF w
  <2>3. NoError \in Choices  BY NoErrorType
  <2>4. w.spent \in Choices  BY <2>1, MildChoices
  <2>5. [w.spent EXCEPT !["drop"] = "return"] \in Choices  BY <2>4, ChoiceUpdate DEF Treatments
  <2>6. FFlookup(a) = [w EXCEPT !.spent = [w.spent EXCEPT !["drop"] = "return"]]  BY <2>1, <2>2 DEF MildSteps, AllSteps
  <2> QED  BY <2>1, <2>5, <2>6, MildSpent
<1>6. FFDeleteFile(a) \in Programs /\ FFMoveFile(a, b) \in Programs
  BY <1>1, <1>2, <1>5, ShortPrograms DEF FFDeleteFile, FFMoveFile, Verbs1
<1>7. FFcreateDirectory \in MildSteps  BY <1>1, <1>2 DEF FFcreateDirectory, Verbs1
<1>8. FFCreateDirectory \in Programs  BY <1>7, MildWhere, ShortPrograms DEF FFCreateDirectory, Treatments
<1>9. FFcreateParentDirectory \in Programs
  <2>1. Where(Where(Ask("cached", "dir"), {"ok"}, "skip2"), {"notfound"}, "next") \in MildSteps
    BY <1>1, <1>2, MildWhere DEF Verbs1, Treatments
  <2>2. Where(Where(FFcreateDirectory, {"ok"}, "skip"), {"exists"}, "next") \in MildSteps
    BY <1>7, MildWhere DEF Treatments
  <2>3. FFsendRequest("lookup", "dir", "dir") \in MildSteps  BY <1>1, <1>2 DEF Verbs1
  <2> QED  BY <2>1, <2>2, <2>3, ShortPrograms DEF FFcreateParentDirectory
<1>10. FFDownloadFile(a) \in Programs  BY <1>1, <1>2, ShortPrograms DEF FFDownloadFile, Verbs1
<1>11. FFUploadFile(a) \in Programs
  <2> DEFINE s == FFsendRequest("put", a, a)
  <2>1. s \in MildSteps  BY <1>1, <1>2 DEF Verbs1
  <2>2. Always("panic") \in Choices  BY AlwaysType DEF Treatments
  <2> HIDE DEF s
  <2>3. [s EXCEPT !.spent = Always("panic")] \in MildSteps  BY <2>1, <2>2, MildSpent
  <2> QED  BY <1>9, <2>3, ShortPrograms DEF FFUploadFile, s
<1> QED  BY <1>3, <1>4, <1>6, <1>8, <1>10, <1>11

LEMMA SFTPPrograms ==
    ASSUME NEW a \in Paths, NEW b \in Paths, NEW dir \in Listings
    PROVE  /\ SFTPListFiles(dir) \in Programs /\ SFTPDeleteFile(a) \in Programs /\ SFTPMoveFile(a, b) \in Programs
           /\ SFTPGetFileInfo(a) \in Programs /\ SFTPDownloadFile(a) \in Programs /\ SFTPCreateDirectory \in Programs
<1> DEFINE Verbs1 == {"readdir", "stat", "statdir", "mkdir", "get", "delete", "read"}
<1>1. /\ a \in Asked /\ b \in Asked /\ dir \in Asked /\ "dir" \in Asked /\ "move" \in Copying
      /\ \A v \in Verbs1 : v \in MildVerbs \ Copying /\ \A x \in Asked : Mild(v, x)
  <2>1. a \in Asked /\ b \in Asked /\ dir \in Asked /\ "dir" \in Asked /\ "move" \in Copying  BY NamesAsked DEF Copying
  <2>2. \A v \in Verbs1 : v \in MildVerbs  BY DEF MildVerbs
  <2>3. \A v \in Verbs1 : v \notin Copying  BY DEF Copying
  <2> HIDE DEF Verbs1
  <2> QED  BY <2>1, <2>2, <2>3, MildNames
<1>2. \A v \in Verbs1, x \in Asked : Ask(v, x) \in MildSteps  BY <1>1, MildAsk
<1> HIDE DEF Verbs1
<1>3. NoError \in Choices /\ On(NoError, Errors, "next") \in Choices /\ Always("next") \in Choices
  BY NoErrorType, OnType, AlwaysType DEF Treatments
<1>4. ASSUME NEW s \in MildSteps PROVE SFTPRetry(s) \in MildSteps
  <2>1. Where(s, {"drop"}, "again") \in MildSteps  BY MildWhere DEF Treatments
  <2> QED  BY <1>3, <2>1, MildTries DEF SFTPRetry
<1>5. SFTPListFiles(dir) \in Programs  BY <1>1, <1>2, <1>4, ShortPrograms DEF SFTPListFiles, Verbs1
<1>6. SFTPDeleteFile(a) \in Programs /\ SFTPGetFileInfo(a) \in Programs
  <2>1. \A t \in {"return", "absent"} : Where(Ask("stat", a), {"notfound"}, t) \in MildSteps
    BY <1>1, <1>2, MildWhere DEF Treatments, Verbs1
  <2>2. Ask("delete", a) \in MildSteps  BY <1>1, <1>2 DEF Verbs1
  <2> QED  BY <1>4, <2>1, <2>2, ShortPrograms DEF SFTPDeleteFile, SFTPGetFileInfo
<1>7. ASSUME NEW t \in {"fail", "return"}, NEW v \in {"stat", "statdir"}, NEW x \in Asked
      PROVE  [SFTPRetry(Step(v, x, x, On(On(NoError, Errors, "next"), {"ok"}, t), 0)) EXCEPT !.spent = Always("next")] \in MildSteps
  <2> DEFINE r == SFTPRetry(Step(v, x, x, On(On(NoError, Errors, "next"), {"ok"}, t), 0))
  <2>1. On(On(NoError, Errors, "next"), {"ok"}, t) \in Choices  BY <1>3, OnType DEF Treatments
  <2>2. v \in MildVerbs \ Copying  BY <1>1 DEF Verbs1
  <2>3. r \in MildSteps  BY <1>4, <2>1, <2>2, OtherStep
  <2> HIDE DEF r
  <2>4. [r EXCEPT !.spent = Always("next")] \in MildSteps  BY <1>3, <2>3, MildSpent
  <2> QED  BY <2>4 DEF r
<1>8. SFTPMoveFile(a, b) \in Programs
  <2>1. Step("move", a, b, NoError, 0) \in MildSteps  BY <1>1, <1>3, CopyStep
  <2> QED  BY <1>1, <1>4, <1>7, <2>1, ShortPrograms DEF SFTPMoveFile
<1>9. SFTPCreateDirectory \in Programs
  <2>1. Ask("mkdir", "dir") \in MildSteps  BY <1>1, <1>2 DEF Verbs1
  <2> QED  BY <1>1, <1>4, <1>7, <2>1, ShortPrograms DEF SFTPCreateDirectory
<1>10. SFTPDownloadFile(a) \in Programs
  <2>1. \A v \in {"get", "read"} : Where(Ask(v, a), {"drop"}, "restart") \in MildSteps
    BY <1>1, <1>2, MildWhere DEF Treatments, Verbs1
  <2>2. \A v \in {"get", "read"} : [Where(Ask(v, a), {"drop"}, "restart") EXCEPT !.tries = 8] \in MildSteps
    BY <1>3, <2>1, MildTries
  <2> QED  BY <2>2, ShortPrograms DEF SFTPDownloadFile
<1> QED  BY <1>5, <1>6, <1>8, <1>9, <1>10

LEMMA B2Calls ==
    ASSUME NEW v \in MildVerbs, NEW x \in Asked, Mild(v, x)
    PROVE  B2call(v, x) \in MildSteps
<1> DEFINE choice(z) == CASE z \in {"ok", "more"} -> NoError[z]
                          [] z = "expired"        -> "login"
                          [] z = "denied"         -> "fail"
                          [] z = "notfound"       -> IF v = "head" THEN "absent" ELSE "again"
                          [] z \in DOMAIN B2retry \ {"times"} -> B2retry[z]
                          [] OTHER                -> "again"
<1>1. \A z \in Answers : NoError[z] \in Treatments  BY NoErrorType DEF Choices
<1>2. \A z \in DOMAIN B2retry \ {"times"} : B2retry[z] \in Treatments  BY DEF B2retry, Treatments
<1>3. ASSUME NEW z \in Answers PROVE choice(z) \in Treatments
  <2>1. {"login", "fail", "absent", "again"} \subseteq Treatments  BY DEF Treatments
  <2> HIDE DEF Treatments
  <2> QED  BY <1>1, <1>2, <2>1
<1>4. B2retry.times = 16  BY DEF B2retry
<1> DEFINE on == [z \in Answers |-> choice(z)]
<1>5. B2call(v, x) = Step(v, x, x, on, 16)  BY <1>4, Zenon DEF B2call
<1> HIDE DEF choice
<1>6. on \in Choices  BY <1>3 DEF Choices
<1> HIDE DEF on
<1> QED  BY <1>5, <1>6, MildStep

LEMMA B2Programs ==
    ASSUME NEW a \in Paths, NEW b \in Paths, NEW dir \in Listings
    PROVE  /\ B2ListFiles(dir) \in Programs /\ B2DeleteFile(a) \in Programs /\ B2MoveFile(a, b) \in Programs
           /\ B2GetFileInfo(a) \in Programs /\ B2DownloadFile(a) \in Programs /\ B2UploadFile(a) \in Programs
<1> DEFINE Verbs1 == {"uploadurl", "versions", "head", "pages", "purge", "delversion", "hide", "hidden", "get", "getlast",
                      "read", "upload"}
<1>1. /\ a \in Asked /\ b \in Asked /\ dir \in Asked /\ "chunk" \in Asked
      /\ \A v \in Verbs1 : v \in MildVerbs \ Copying
  <2>1. a \in Asked /\ b \in Asked /\ "chunk" \in Asked  BY DEF Asked, Paths
  <2>2. dir \in Asked  BY DEF Asked, Listings
  <2>3. \A v \in Verbs1 : v \in MildVerbs  BY DEF MildVerbs
  <2>4. \A v \in Verbs1 : v \notin Copying  BY DEF Copying
  <2> HIDE DEF Verbs1
  <2> QED  BY <2>1, <2>2, <2>3, <2>4
<1>2. \A v \in Verbs1, x \in Asked : B2call(v, x) \in MildSteps /\ Ask(v, x) \in MildSteps
  BY <1>1, B2Calls, MildAsk DEF Mild
<1>3. \A x \in Asked, single, all \in BOOLEAN : B2ListFileNames(x, single, all) \in MildSteps
  BY <1>1, <1>2 DEF B2ListFileNames, Verbs1
<1>4. \A v \in Verbs1 : B2ClientDeleteFile(v) \in MildSteps  BY <1>1, <1>2 DEF B2ClientDeleteFile
<1>5. \A x \in Asked : B2ClientDownloadFile("get", x) \in MildSteps /\ B2ClientDownloadFile("getlast", x) \in MildSteps
  BY <1>2 DEF B2ClientDownloadFile, Verbs1
<1>6. B2HideFile(a) \in MildSteps /\ B2getUploadURL \in MildSteps /\ B2ClientUploadFile(a) \in MildSteps
  BY <1>1, <1>2 DEF B2HideFile, B2getUploadURL, B2ClientUploadFile, Verbs1
<1>7. \A x \in {b, "chunk"}, t \in {"return", "absent"} : Where(Ask("hidden", x), {"notfound"}, t) \in MildSteps
  BY <1>1, <1>2, MildWhere DEF Verbs1, Treatments
<1>8. B2ListFiles(dir) \in Programs /\ B2UploadFile(a) \in Programs
  BY <1>1, <1>3, <1>6, ShortPrograms DEF B2ListFiles, B2UploadFile
<1>9. B2DeleteFile(a) \in Programs
  <2>1. Where(B2ListFileNames(a, TRUE, FALSE), {"notfound"}, "return") \in MildSteps
    BY <1>1, <1>3, MildWhere DEF Treatments
  <2>2. B2ListFileNames(a, TRUE, TRUE) \in MildSteps  BY <1>1, <1>3
  <2> QED  BY <1>4, <2>1, <2>2, ShortPrograms DEF B2DeleteFile, Verbs1
<1>10. B2MoveFile(a, b) \in Programs
  <2>1. B2ListFileNames(b, TRUE, TRUE) \in MildSteps  BY <1>1, <1>3
  <2> QED  BY <1>4, <1>6, <1>7, <2>1, ShortPrograms DEF B2MoveFile, Verbs1
<1>11. B2GetFileInfo(a) \in Programs
  <2>1. B2ListFileNames(a, TRUE, TRUE) \in MildSteps /\ B2ListFileNames(a, TRUE, FALSE) \in MildSteps  BY <1>1, <1>3
  <2> QED  BY <1>7, <2>1, ShortPrograms DEF B2GetFileInfo
<1>12. B2DownloadFile(a) \in Programs
  <2> DEFINE w == Where(B2ListFileNames(a, TRUE, TRUE), {"denied"}, "next")
  <2>1. w \in MildSteps  BY <1>1, <1>3, MildWhere DEF Treatments
  <2>2. Always("next") \in Choices  BY AlwaysType DEF Treatments
  <2> HIDE DEF w
  <2>3. [w EXCEPT !.spent = Always("next")] \in MildSteps  BY <2>1, <2>2, MildSpent
  <2>4. Ask("read", "chunk") \in MildSteps /\ Ask("read", a) \in MildSteps  BY <1>1, <1>2 DEF Verbs1
  <2> QED  BY <1>1, <1>5, <2>3, <2>4, ShortPrograms DEF B2DownloadFile, w
<1> QED  BY <1>8, <1>9, <1>10, <1>11, <1>12

-----------------------------------------------------------------------------
(* The upload through a temporary file.                                    *)

(* A step that is what Step or Ask make of verb and a, with other treatments. *)
Like(s, verb, a) == s \in AllSteps /\ s.verb = verb /\ s.a = a /\ s.spent = Always("fail")

LEMMA LikeStep ==
    ASSUME NEW verb \in MildVerbs \cup {"create"}, NEW a \in Asked, NEW b \in Asked, NEW on \in Choices
    PROVE  Like(Step(verb, a, b, on, 0), verb, a) /\ Step(verb, a, b, on, 0).on = on
<1>1. \A n \in Nat : /\ Step(verb, a, b, on, n) \in AllSteps /\ Step(verb, a, b, on, n).verb = verb
                    /\ Step(verb, a, b, on, n).a = a /\ Step(verb, a, b, on, n).on = on
                    /\ Step(verb, a, b, on, n).spent = Always("fail")
  <2>1. TAKE n \in Nat
  <2> QED  BY StepTypes
<1>2. 0 \in Nat  OBVIOUS
<1> QED  BY <1>1, <1>2 DEF Like

LEMMA LikeWhere ==
    ASSUME NEW verb, NEW a, NEW s, Like(s, verb, a), NEW set, NEW then \in Treatments
    PROVE  /\ Like(Where(s, set, then), verb, a)
           /\ \A x \in Answers : Where(s, set, then).on[x] = IF x \in set THEN then ELSE s.on[x]
<1>1. s.on \in Choices  BY DEF Like, AllSteps
<1>2. On(s.on, set, then) \in Choices  BY <1>1, OnType
<1>3. \A x \in Answers : On(s.on, set, then)[x] = IF x \in set THEN then ELSE s.on[x]  BY DEF On
<1> QED  BY <1>2, <1>3 DEF Where, Like, AllSteps

(* The rename comes after the write of the temporary file, and only then. *)
UploadsThroughTemp(p) ==
    /\ p \in Seq(AllSteps) /\ Len(p) = 7
    /\ \A i \in {1, 2, 6, 7} : p[i] \in MildSteps /\ p[i].verb \in {"statdir", "mkdir", "stat", "delete"}
    /\ \A i \in {1, 2, 6, 7} : p[i].verb = "delete" => p[i].a = "temp"
    /\ p[3].verb = "create" /\ p[3].a = "temp"
    /\ p[4].verb = "write" /\ p[4].a = "temp"
    /\ p[5].verb \in {"rename", "move"} /\ p[5].a = "temp" /\ p[5].b = "chunk"
    /\ \A i \in 1 .. 7 : p[i].spent = Always("fail")
    /\ \A x \in Answers : /\ p[1].on[x] \notin {"skip2", "skip3"} /\ p[2].on[x] \notin {"skip", "skip2"}
                          /\ p[3].on[x] # "skip" /\ (p[3].on[x] \in Moves => x = "ok")
                          /\ p[4].on[x] \in Moves => x = "ok"

LEMMA ErrorsFail ==
    /\ NoError \in Choices
    /\ \A x \in Answers : NoError[x] \in {"next", "stay", "fail"} /\ (NoError[x] = "next" => x = "ok")
<1>1. ASSUME NEW x \in Answers PROVE NoError[x] \in {"next", "stay", "fail"} /\ (NoError[x] = "next" => x = "ok")
  <2>1. NoError[x] = CASE x = "ok" -> "next" [] x = "more" -> "stay" [] OTHER -> "fail"  BY Zenon DEF NoError
  <2> QED  BY <2>1
<1> QED  BY <1>1, NoErrorType

LEMMA MildLike ==
    ASSUME NEW s, NEW verb \in MildVerbs \ Copying, NEW a, Like(s, verb, a)
    PROVE  s \in MildSteps
<1>1. verb # "create"  BY DEF MildVerbs
<1> QED  BY <1>1 DEF Like, MildSteps, Mild

LEMMA FunctionIsSequence ==
    ASSUME NEW S, NEW n \in Nat, NEW f \in [1 .. n -> S]
    PROVE  f \in Seq(S) /\ Len(f) = n
OBVIOUS

LEMMA FiveElements ==
    ASSUME NEW S, NEW s \in S, NEW t \in S, NEW u \in S, NEW v \in S, NEW w \in S
    PROVE  LET p == <<s, t, u, v, w>>
           IN  p \in Seq(S) /\ Len(p) = 5 /\ p[1] = s /\ p[2] = t /\ p[3] = u /\ p[4] = v /\ p[5] = w
OBVIOUS

LEMMA TwoAndFive ==
    ASSUME NEW S, NEW s \in S, NEW t \in S, NEW w \in Seq(S), Len(w) = 5
    PROVE  LET p == <<s, t>> \o w
           IN  /\ p \in Seq(S) /\ Len(p) = 7 /\ DOMAIN p = 1 .. 7
               /\ p[1] = s /\ p[2] = t /\ p[3] = w[1] /\ p[4] = w[2] /\ p[5] = w[3] /\ p[6] = w[4] /\ p[7] = w[5]
<1> DEFINE h == <<s, t>>
           p == h \o w
<1>1. h \in Seq(S) /\ Len(h) = 2 /\ h[1] = s /\ h[2] = t  OBVIOUS
<1> HIDE DEF h
<1>2. p \in Seq(S) /\ Len(p) = 7 /\ \A i \in 1 .. 7 : p[i] = IF i <= 2 THEN h[i] ELSE w[i - 2]
  <2>1. /\ p \in Seq(S) /\ Len(p) = Len(h) + Len(w)
        /\ \A i \in 1 .. Len(h) + Len(w) : p[i] = IF i <= Len(h) THEN h[i] ELSE w[i - Len(h)]
    BY <1>1, ConcatProperties
  <2> HIDE DEF p
  <2> QED  BY <1>1, <2>1
<1> HIDE DEF p
<1>3. DOMAIN p = 1 .. 7  BY <1>2
<1>4. p[1] = h[1] /\ p[2] = h[2] /\ p[3] = w[1] /\ p[4] = w[2] /\ p[5] = w[3] /\ p[6] = w[4] /\ p[7] = w[5]  BY <1>2
<1> QED  BY <1>1, <1>2, <1>3, <1>4 DEF p, h

LEMMA StepUpdate ==
    ASSUME NEW s \in AllSteps, NEW n \in Nat, NEW c \in Choices
    PROVE  LET r == [s EXCEPT !.tries = n, !.on = c]
           IN  r \in AllSteps /\ r.on = c /\ r.verb = s.verb /\ r.a = s.a /\ r.b = s.b /\ r.spent = s.spent
BY DEF AllSteps

LEMMA UploadShape ==
    ASSUME NEW p, p \in Seq(AllSteps), Len(p) = 7, NEW v \in {"rename", "move"},
           Like(p[1], "statdir", "dir"), Like(p[2], "mkdir", "dir"), Like(p[3], "create", "temp"),
           Like(p[4], "write", "temp"), Like(p[5], v, "temp"), Like(p[6], "stat", "chunk"), Like(p[7], "delete", "temp"),
           \A x \in Answers : p[1].on[x] \notin {"skip2", "skip3"},
           \A x \in Answers : p[2].on[x] \notin {"skip", "skip2"},
           \A x \in Answers : p[3].on[x] # "skip" /\ (p[3].on[x] \in Moves => x = "ok"),
           \A x \in Answers : p[4].on[x] \in Moves => x = "ok",
           p[5].b = "chunk"
    PROVE  UploadsThroughTemp(p)
<1>1. {"statdir", "mkdir", "stat", "delete"} \subseteq MildVerbs \ Copying  BY DEF MildVerbs, Copying
<1>2. p[1] \in MildSteps /\ p[2] \in MildSteps /\ p[6] \in MildSteps /\ p[7] \in MildSteps  BY <1>1, MildLike
<1>3. \A i \in {1, 2, 6, 7} : p[i] \in MildSteps /\ p[i].verb \in {"statdir", "mkdir", "stat", "delete"}
  BY <1>2 DEF Like
<1>6. \A i \in {1, 2, 6, 7} : p[i].verb = "delete" => p[i].a = "temp"
  BY DEF Like
<1>4. ASSUME NEW i \in 1 .. 7 PROVE p[i].spent = Always("fail")
  <2>1. i = 1 \/ i = 2 \/ i = 3 \/ i = 4 \/ i = 5 \/ i = 6 \/ i = 7  OBVIOUS
  <2> QED  BY <2>1 DEF Like
<1>5. /\ p[3].verb = "create" /\ p[3].a = "temp" /\ p[4].verb = "write" /\ p[4].a = "temp"
      /\ p[5].verb \in {"rename", "move"} /\ p[5].a = "temp"
  BY DEF Like
<1> QED  BY <1>3, <1>4, <1>5, <1>6, Zenon DEF UploadsThroughTemp

(* The steps of WriteAndRename. *)
LEMMA WriteAndRenameSteps ==
    ASSUME NEW v \in {"rename", "move"}
    PROVE  LET w == WriteAndRename("chunk", v)
           IN  /\ w \in Seq(AllSteps) /\ Len(w) = 5
               /\ Like(w[1], "create", "temp") /\ Like(w[2], "write", "temp") /\ Like(w[3], v, "temp")
               /\ Like(w[4], "stat", "chunk") /\ Like(w[5], "delete", "temp")
               /\ w[1].on = NoError /\ w[2].on = NoError /\ w[3].b = "chunk"
<1> DEFINE ren == Step(v, "temp", "chunk", On(On(NoError, Errors, "next"), {"ok"}, "return"), 0)
<1>1. /\ "temp" \in Asked /\ "chunk" \in Asked /\ {"create", "write", "stat", "delete", v} \subseteq MildVerbs \cup {"create"}
  BY DEF Asked, MildVerbs
<1>2. NoError \in Choices /\ On(NoError, Errors, "next") \in Choices
  BY NoErrorType, OnType DEF Treatments
<1>3. On(On(NoError, Errors, "next"), {"ok"}, "return") \in Choices  BY <1>2, OnType DEF Treatments
<1>4. /\ Like(Ask("create", "temp"), "create", "temp") /\ Ask("create", "temp").on = NoError
      /\ Like(Ask("write", "temp"), "write", "temp") /\ Ask("write", "temp").on = NoError
      /\ Like(Ask("stat", "chunk"), "stat", "chunk")
      /\ Like(Ignoring("delete", "temp"), "delete", "temp")
  BY <1>1, <1>2, LikeStep DEF Ask, Ignoring
<1>5. Like(ren, v, "temp") /\ ren.b = "chunk"
  <2>1. Like(ren, v, "temp")  BY <1>1, <1>3, LikeStep
  <2>2. ren.b = "chunk"  BY DEF Step
  <2> QED  BY <2>1, <2>2
<1>6. WriteAndRename("chunk", v) = <<Ask("create", "temp"), Ask("write", "temp"), ren, Ask("stat", "chunk"), Ignoring("delete", "temp")>>
  BY DEF WriteAndRename
<1> HIDE DEF ren
<1>7. /\ Ask("create", "temp") \in AllSteps /\ Ask("write", "temp") \in AllSteps /\ ren \in AllSteps
      /\ Ask("stat", "chunk") \in AllSteps /\ Ignoring("delete", "temp") \in AllSteps
  BY <1>4, <1>5 DEF Like
<1>8. LET w == <<Ask("create", "temp"), Ask("write", "temp"), ren, Ask("stat", "chunk"), Ignoring("delete", "temp")>>
      IN  /\ w \in Seq(AllSteps) /\ Len(w) = 5
          /\ w[1] = Ask("create", "temp") /\ w[2] = Ask("write", "temp") /\ w[3] = ren /\ w[4] = Ask("stat", "chunk")
          /\ w[5] = Ignoring("delete", "temp")
  BY <1>7, FiveElements
<1> QED  BY <1>4, <1>5, <1>6, <1>8

LEMMA FileUploads ==
    ASSUME NEW v \in {"rename", "move"},
           NEW p, p = << Where(Where(Ask("statdir", "dir"), {"ok"}, "skip"), {"nodir"}, "next"),
                         Where(Ask("mkdir", "dir"), {"exists"}, "next") >> \o WriteAndRename("chunk", v)
    PROVE  UploadsThroughTemp(p)
<1> DEFINE s1 == Where(Where(Ask("statdir", "dir"), {"ok"}, "skip"), {"nodir"}, "next")
           s2 == Where(Ask("mkdir", "dir"), {"exists"}, "next")
           w == WriteAndRename("chunk", v)
<1>1. "dir" \in Asked /\ {"statdir", "mkdir", "stat", "delete"} \subseteq MildVerbs \ Copying  BY DEF Asked, MildVerbs, Copying
<1>2. /\ Like(Ask("statdir", "dir"), "statdir", "dir") /\ Ask("statdir", "dir").on = NoError
      /\ Like(Ask("mkdir", "dir"), "mkdir", "dir") /\ Ask("mkdir", "dir").on = NoError
  BY <1>1, LikeStep, ErrorsFail DEF Ask
<1>3. Like(s1, "statdir", "dir") /\ \A x \in Answers : s1.on[x] \notin {"skip2", "skip3"}
  <2> DEFINE s0 == Where(Ask("statdir", "dir"), {"ok"}, "skip")
  <2>1. Like(s0, "statdir", "dir") /\ \A x \in Answers : s0.on[x] \notin {"skip2", "skip3"}
    BY <1>2, LikeWhere, ErrorsFail DEF Treatments
  <2> HIDE DEF s0
  <2>2. Like(Where(s0, {"nodir"}, "next"), "statdir", "dir") /\ \A x \in Answers : Where(s0, {"nodir"}, "next").on[x] \notin {"skip2", "skip3"}
    BY <2>1, LikeWhere DEF Treatments
  <2> QED  BY <2>2 DEF s0
<1>4. Like(s2, "mkdir", "dir") /\ \A x \in Answers : s2.on[x] \notin {"skip", "skip2"}
  <2> DEFINE s0 == Ask("mkdir", "dir")
  <2>1. Like(s0, "mkdir", "dir") /\ \A x \in Answers : s0.on[x] \notin {"skip", "skip2"}  BY <1>2, ErrorsFail
  <2> HIDE DEF s0
  <2>2. Like(Where(s0, {"exists"}, "next"), "mkdir", "dir") /\ \A x \in Answers : Where(s0, {"exists"}, "next").on[x] \notin {"skip", "skip2"}
    BY <2>1, LikeWhere DEF Treatments
  <2> QED  BY <2>2 DEF s0
<1>5. /\ w \in Seq(AllSteps) /\ Len(w) = 5
      /\ Like(w[1], "create", "temp") /\ Like(w[2], "write", "temp") /\ Like(w[3], v, "temp")
      /\ Like(w[4], "stat", "chunk") /\ Like(w[5], "delete", "temp")
      /\ w[1].on = NoError /\ w[2].on = NoError /\ w[3].b = "chunk"
  BY WriteAndRenameSteps
<1>6. p = <<s1, s2>> \o w  OBVIOUS
<1> HIDE DEF s1, s2, w
<1>7. s1 \in AllSteps /\ s2 \in AllSteps  BY <1>3, <1>4 DEF Like
<1>8. /\ p \in Seq(AllSteps) /\ Len(p) = 7 /\ p[1] = s1 /\ p[2] = s2 /\ p[3] = w[1] /\ p[4] = w[2] /\ p[5] = w[3]
      /\ p[6] = w[4] /\ p[7] = w[5]
  <2>1. LET q == <<s1, s2>> \o w
        IN  /\ q \in Seq(AllSteps) /\ Len(q) = 7 /\ DOMAIN q = 1 .. 7
            /\ q[1] = s1 /\ q[2] = s2 /\ q[3] = w[1] /\ q[4] = w[2] /\ q[5] = w[3] /\ q[6] = w[4] /\ q[7] = w[5]
    BY <1>5, <1>7, TwoAndFive
  <2> QED  BY <1>6, <2>1
<1>9. \A x \in Answers : p[3].on[x] # "skip" /\ (p[3].on[x] \in Moves => x = "ok") /\ (p[4].on[x] \in Moves => x = "ok")
  BY <1>5, <1>8, ErrorsFail DEF Moves
<1>10. /\ Like(p[1], "statdir", "dir") /\ Like(p[2], "mkdir", "dir") /\ Like(p[3], "create", "temp")
       /\ Like(p[4], "write", "temp") /\ Like(p[5], v, "temp") /\ Like(p[6], "stat", "chunk") /\ Like(p[7], "delete", "temp")
  BY <1>3, <1>4, <1>5, <1>8
<1>11. (\A x \in Answers : p[1].on[x] \notin {"skip2", "skip3"}) /\ (\A x \in Answers : p[2].on[x] \notin {"skip", "skip2"})
  BY <1>3, <1>4, <1>8
<1>12. p[5].b = "chunk"  BY <1>5, <1>8
<1> QED  BY <1>8, <1>9, <1>10, <1>11, <1>12, UploadShape

(* With retries of the whole upload. *)
LEMMA SFTPUploads == UploadsThroughTemp(SFTPUploadFile("chunk"))
<1> DEFINE s1 == Where(Step("statdir", "dir", "dir", On(NoError, Errors, "skip"), 0), {"nodir"}, "next")
           s2 == Ignoring("mkdir", "dir")
           w == WriteAndRename("chunk", "move")
           again(step) == [step EXCEPT !.tries = 8,
                                       !.on["drop"] = IF @ = "fail" THEN "restart" ELSE @]
           q == <<s1, s2>> \o w
           p == [i \in DOMAIN q |-> IF i = 1 THEN Where(q[1], {"ok"}, "skip") ELSE again(q[i])]
<1>1. "dir" \in Asked /\ {"statdir", "mkdir", "stat", "delete"} \subseteq MildVerbs \ Copying  BY DEF Asked, MildVerbs, Copying
<1>2. NoError \in Choices /\ On(NoError, Errors, "skip") \in Choices /\ On(NoError, Errors, "next") \in Choices
  BY NoErrorType, OnType DEF Treatments
<1>3. \A x \in Answers : On(NoError, Errors, "skip")[x] \notin {"skip2", "skip3"} /\ On(NoError, Errors, "next")[x] \notin {"skip", "skip2"}
  BY ErrorsFail DEF On
<1>4. Like(s1, "statdir", "dir") /\ \A x \in Answers : s1.on[x] \notin {"skip2", "skip3"}
  <2> DEFINE s0 == Step("statdir", "dir", "dir", On(NoError, Errors, "skip"), 0)
  <2>1. Like(s0, "statdir", "dir") /\ \A x \in Answers : s0.on[x] \notin {"skip2", "skip3"}  BY <1>1, <1>2, <1>3, LikeStep
  <2> HIDE DEF s0
  <2>2. Like(Where(s0, {"nodir"}, "next"), "statdir", "dir") /\ \A x \in Answers : Where(s0, {"nodir"}, "next").on[x] \notin {"skip2", "skip3"}
    BY <2>1, LikeWhere DEF Treatments
  <2> QED  BY <2>2 DEF s0
<1>5. Like(s2, "mkdir", "dir") /\ \A x \in Answers : s2.on[x] \notin {"skip", "skip2"}  BY <1>1, <1>2, <1>3, LikeStep DEF Ignoring
<1>6. /\ w \in Seq(AllSteps) /\ Len(w) = 5
      /\ Like(w[1], "create", "temp") /\ Like(w[2], "write", "temp") /\ Like(w[3], "move", "temp")
      /\ Like(w[4], "stat", "chunk") /\ Like(w[5], "delete", "temp")
      /\ w[1].on = NoError /\ w[2].on = NoError /\ w[3].b = "chunk"
  BY WriteAndRenameSteps
<1>7. SFTPUploadFile("chunk") = p  BY DEF SFTPUploadFile
<1> HIDE DEF s1, s2, w, again
<1>8. s1 \in AllSteps /\ s2 \in AllSteps  BY <1>4, <1>5 DEF Like
<1>9. /\ q \in Seq(AllSteps) /\ Len(q) = 7 /\ q[1] = s1 /\ q[2] = s2 /\ q[3] = w[1] /\ q[4] = w[2] /\ q[5] = w[3]
      /\ q[6] = w[4] /\ q[7] = w[5] /\ DOMAIN q = 1 .. 7
  BY <1>6, <1>8, TwoAndFive
<1>10. ASSUME NEW s, NEW verb, NEW a, Like(s, verb, a)
       PROVE  /\ Like(again(s), verb, a)
              /\ \A x \in Answers : again(s).on[x] = s.on[x] \/ again(s).on[x] = "restart"
              /\ again(s).b = s.b
  <2> DEFINE on == [s.on EXCEPT !["drop"] = IF s.on["drop"] = "fail" THEN "restart" ELSE s.on["drop"]]
  <2>1. s.on \in Choices /\ s \in AllSteps  BY <1>10 DEF Like, AllSteps
  <2>2. "drop" \in Answers  BY DEF Answers
  <2>3. on \in Choices /\ \A x \in Answers : on[x] = s.on[x] \/ on[x] = "restart"
    <3>1. (IF s.on["drop"] = "fail" THEN "restart" ELSE s.on["drop"]) \in Treatments  BY <2>1, <2>2 DEF Choices, Treatments
    <3>2. on \in Choices  BY <2>1, <3>1, ChoiceUpdate
    <3> QED  BY <2>1, <3>2 DEF Choices
  <2>4. again(s) = [s EXCEPT !.tries = 8, !.on = on]  BY <2>1 DEF again, AllSteps
  <2> HIDE DEF on
  <2>5. again(s) \in AllSteps /\ again(s).on = on /\ again(s).verb = s.verb /\ again(s).a = s.a /\ again(s).b = s.b
        /\ again(s).spent = s.spent
    <3>1. 8 \in Nat  OBVIOUS
    <3> DEFINE r == [s EXCEPT !.tries = 8, !.on = on]
    <3>2. s \in AllSteps /\ on \in Choices  BY <2>1, <2>3
    <3>3. r \in AllSteps /\ r.on = on /\ r.verb = s.verb /\ r.a = s.a /\ r.b = s.b /\ r.spent = s.spent
      BY ONLY <3>1, <3>2, StepUpdate
    <3> HIDE DEF r
    <3> QED  BY <2>4, <3>3 DEF r
  <2> QED  BY <1>10, <2>3, <2>5 DEF Like
<1>11. Like(Where(s1, {"ok"}, "skip"), "statdir", "dir") /\ \A x \in Answers : Where(s1, {"ok"}, "skip").on[x] \notin {"skip2", "skip3"}
  BY <1>4, LikeWhere DEF Treatments
<1> HIDE DEF q
<1>12. /\ p[1] = Where(s1, {"ok"}, "skip") /\ p[2] = again(s2) /\ p[3] = again(w[1]) /\ p[4] = again(w[2]) /\ p[5] = again(w[3])
       /\ p[6] = again(w[4]) /\ p[7] = again(w[5])
  BY <1>9
<1>13. /\ Like(p[1], "statdir", "dir") /\ Like(p[2], "mkdir", "dir") /\ Like(p[3], "create", "temp") /\ Like(p[4], "write", "temp")
       /\ Like(p[5], "move", "temp") /\ Like(p[6], "stat", "chunk") /\ Like(p[7], "delete", "temp")
  BY <1>5, <1>6, <1>10, <1>11, <1>12
<1>14. /\ \A x \in Answers : p[1].on[x] \notin {"skip2", "skip3"}
       /\ \A x \in Answers : p[2].on[x] = s2.on[x] \/ p[2].on[x] = "restart"
       /\ \A x \in Answers : p[3].on[x] = NoError[x] \/ p[3].on[x] = "restart"
       /\ \A x \in Answers : p[4].on[x] = NoError[x] \/ p[4].on[x] = "restart"
  <2>1. \A x \in Answers : p[1].on[x] \notin {"skip2", "skip3"}  BY <1>11, <1>12
  <2>2. \A x \in Answers : p[2].on[x] = s2.on[x] \/ p[2].on[x] = "restart"
    <3>1. \A x \in Answers : again(s2).on[x] = s2.on[x] \/ again(s2).on[x] = "restart"  BY <1>5, <1>10
    <3> QED  BY <1>12, <3>1
  <2>3. \A x \in Answers : p[3].on[x] = NoError[x] \/ p[3].on[x] = "restart"
    <3>1. \A x \in Answers : again(w[1]).on[x] = w[1].on[x] \/ again(w[1]).on[x] = "restart"  BY <1>6, <1>10
    <3> QED  BY <1>6, <1>12, <3>1
  <2>4. \A x \in Answers : p[4].on[x] = NoError[x] \/ p[4].on[x] = "restart"
    <3>1. \A x \in Answers : again(w[2]).on[x] = w[2].on[x] \/ again(w[2]).on[x] = "restart"  BY <1>6, <1>10
    <3> QED  BY <1>6, <1>12, <3>1
  <2> HIDE DEF p
  <2> QED  BY <2>1, <2>2, <2>3, <2>4
<1>15. DOMAIN p = 1 .. 7  BY <1>9
<1>16. p \in [1 .. 7 -> AllSteps]
  <2>1. ASSUME NEW i \in 1 .. 7 PROVE p[i] \in AllSteps
    <3>1. i = 1 \/ i = 2 \/ i = 3 \/ i = 4 \/ i = 5 \/ i = 6 \/ i = 7  OBVIOUS
    <3> HIDE DEF p
    <3> QED  BY <1>13, <3>1 DEF Like
  <2>2. p = [i \in 1 .. 7 |-> p[i]]  BY <1>9
  <2> HIDE DEF p
  <2> QED  BY <2>1, <2>2
<1> HIDE DEF p
<1>17. p \in Seq(AllSteps) /\ Len(p) = 7
  <2>1. 7 \in Nat  OBVIOUS
  <2> QED  BY <1>16, <2>1, FunctionIsSequence
<1>18. /\ \A x \in Answers : p[1].on[x] \notin {"skip2", "skip3"}
       /\ \A x \in Answers : p[2].on[x] \notin {"skip", "skip2"}
       /\ \A x \in Answers : p[3].on[x] # "skip" /\ (p[3].on[x] \in Moves => x = "ok")
       /\ \A x \in Answers : p[4].on[x] \in Moves => x = "ok"
  <2>1. \A x \in Answers : NoError[x] # "skip" /\ (NoError[x] \in Moves => x = "ok")  BY ErrorsFail DEF Moves
  <2>2. "restart" \notin Moves  BY DEF Moves
  <2> QED  BY <1>5, <1>14, <2>1, <2>2
<1>20. p[5].b = "chunk"
  <2>1. again(w[3]).b = w[3].b  BY <1>6, <1>10
  <2> QED  BY <1>6, <1>12, <2>1 DEF p
<1>19. UploadsThroughTemp(p)  BY <1>13, <1>17, <1>18, <1>20, UploadShape
<1> QED  BY <1>7, <1>19

-----------------------------------------------------------------------------
(* The programs of all backends.                                           *)

Backends == {"s3", "s3c", "wasabi", "azure", "gcs", "storj", "dropbox", "swift", "hubic", "file", "samba", "sftp", "webdav",
             "onedrive", "business", "acd", "gcd", "filefabric", "b2"}

Methods7 == {"ListFiles", "DeleteFile", "MoveFile", "GetFileInfo", "DownloadFile", "UploadFile", "CreateDirectory"}

(* What the tasks call. *)
GoodCall(c) ==
    /\ c.op \in Methods7
    /\ c.op = "ListFiles" => c.a \in {"chunks", "snapshots"}
    /\ c.op \in {"DeleteFile", "MoveFile", "GetFileInfo", "DownloadFile"} => c.a \in Paths
    /\ c.op = "MoveFile" => c.b \in Paths
    /\ c.op = "UploadFile" => c.a = "chunk"

LEMMA MethodChosen ==
    ASSUME NEW P, NEW c, GoodCall(c),
           NEW list, NEW delete, NEW mv, NEW info, NEW download, NEW upload, NEW mkdir,
           c.op = "ListFiles" => list \in P, c.op = "DeleteFile" => delete \in P, c.op = "MoveFile" => mv \in P,
           c.op = "GetFileInfo" => info \in P, c.op = "DownloadFile" => download \in P, c.op = "UploadFile" => upload \in P,
           c.op = "CreateDirectory" => mkdir \in P
    PROVE  Methods(c, list, delete, mv, info, download, upload, mkdir) \in P
BY DEF GoodCall, Methods7, Methods

(* Only three of them write under a temporary name. *)
LEMMA MildPrograms ==
    ASSUME NEW k \in Backends, NEW c, GoodCall(c), ~(k \in {"file", "samba", "sftp"} /\ c.op = "UploadFile")
    PROVE  Program(k, c) \in Programs
<1> DEFINE a == c.a
           b == c.b
<1>1. /\ c.op = "ListFiles" => a \in Listings
      /\ c.op \in {"DeleteFile", "MoveFile", "GetFileInfo", "DownloadFile", "UploadFile"} => a \in Paths
      /\ c.op = "MoveFile" => b \in Paths
  BY DEF GoodCall, Listings, Paths
<1>2. Nothing \in Programs  BY ShortPrograms DEF Nothing
<1>3. "chunk" \in Paths /\ "chunks" \in Listings  BY DEF Paths, Listings
<1>4. c.op \in Methods7  BY DEF GoodCall
<1>5. CASE k = "s3"
  <2>1. \A x, y \in Paths, d \in Listings :
            /\ S3ListFiles(d) \in Programs /\ S3DeleteFile(x) \in Programs /\ S3MoveFile(x, y) \in Programs
            /\ S3GetFileInfo(x) \in Programs /\ S3DownloadFile(x) \in Programs /\ S3UploadFile(x) \in Programs
    BY S3Programs
  <2>2. Program(k, c) = Methods(c, S3ListFiles(a), S3DeleteFile(a), S3MoveFile(a, b), S3GetFileInfo(a),
                                S3DownloadFile(a), S3UploadFile(a), Nothing)
    BY <1>5 DEF Program
  <2> HIDE DEF a, b
  <2> QED  BY <1>1, <1>2, <1>3, <1>5, <2>1, <2>2, MethodChosen
<1>6. CASE k = "s3c"
  <2>1. \A x, y \in Paths, d \in Listings :
            /\ S3CListFiles(d) \in Programs /\ S3CDeleteFile(x) \in Programs /\ S3CMoveFile(x, y) \in Programs
            /\ S3CGetFileInfo(x) \in Programs /\ S3CDownloadFile(x) \in Programs /\ S3CUploadFile(x) \in Programs
    BY S3CPrograms
  <2>2. Program(k, c) = Methods(c, S3CListFiles(a), S3CDeleteFile(a), S3CMoveFile(a, b), S3CGetFileInfo(a),
                                S3CDownloadFile(a), S3CUploadFile(a), Nothing)
    BY <1>6 DEF Program
  <2> HIDE DEF a, b
  <2> QED  BY <1>1, <1>2, <1>3, <1>6, <2>1, <2>2, MethodChosen
<1>7. CASE k = "wasabi"
  <2>1. \A x, y \in Paths, d \in Listings :
            /\ WasabiListFiles(d) \in Programs /\ WasabiDeleteFile(x) \in Programs /\ WasabiMoveFile(x, y) \in Programs
            /\ WasabiGetFileInfo(x) \in Programs /\ WasabiDownloadFile(x) \in Programs /\ WasabiUploadFile(x) \in Programs
    BY WasabiPrograms
  <2>2. Program(k, c) = Methods(c, WasabiListFiles(a), WasabiDeleteFile(a), WasabiMoveFile(a, b), WasabiGetFileInfo(a),
                                WasabiDownloadFile(a), WasabiUploadFile(a), Nothing)
    BY <1>7 DEF Program
  <2> HIDE DEF a, b
  <2> QED  BY <1>1, <1>2, <1>3, <1>7, <2>1, <2>2, MethodChosen
<1>8. CASE k = "azure"
  <2>1. \A x, y \in Paths, d \in Listings :
            /\ AzureListFiles(d) \in Programs /\ AzureDeleteFile(x) \in Programs /\ AzureMoveFile(x, y) \in Programs
            /\ AzureGetFileInfo(x) \in Programs /\ AzureDownloadFile(x) \in Programs /\ AzureUploadFile(x) \in Programs
    BY AzurePrograms
  <2>2. Program(k, c) = Methods(c, AzureListFiles(a), AzureDeleteFile(a), AzureMoveFile(a, b), AzureGetFileInfo(a),
                                AzureDownloadFile(a), AzureUploadFile(a), Nothing)
    BY <1>8 DEF Program
  <2> HIDE DEF a, b
  <2> QED  BY <1>1, <1>2, <1>3, <1>8, <2>1, <2>2, MethodChosen
<1>9. CASE k = "gcs"
  <2>1. \A x, y \in Paths, d \in Listings :
            /\ GCSListFiles(d) \in Programs /\ GCSDeleteFile(x) \in Programs /\ GCSMoveFile(x, y) \in Programs
            /\ GCSGetFileInfo(x) \in Programs /\ GCSDownloadFile(x) \in Programs /\ GCSUploadFile(x) \in Programs
    BY GCSPrograms
  <2>2. Program(k, c) = Methods(c, GCSListFiles(a), GCSDeleteFile(a), GCSMoveFile(a, b), GCSGetFileInfo(a),
                                GCSDownloadFile(a), GCSUploadFile(a), Nothing)
    BY <1>9 DEF Program
  <2> HIDE DEF a, b
  <2> QED  BY <1>1, <1>2, <1>3, <1>9, <2>1, <2>2, MethodChosen
<1>10. CASE k = "storj"
  <2>1. \A x, y \in Paths, d \in Listings :
            /\ StorjListFiles(d) \in Programs /\ StorjDeleteFile(x) \in Programs /\ StorjMoveFile(x, y) \in Programs
            /\ StorjGetFileInfo(x) \in Programs /\ StorjDownloadFile(x) \in Programs /\ StorjUploadFile(x) \in Programs
    BY StorjPrograms
  <2>2. Program(k, c) = Methods(c, StorjListFiles(a), StorjDeleteFile(a), StorjMoveFile(a, b), StorjGetFileInfo(a),
                                StorjDownloadFile(a), StorjUploadFile(a), Nothing)
    BY <1>10 DEF Program
  <2> HIDE DEF a, b
  <2> QED  BY <1>1, <1>2, <1>3, <1>10, <2>1, <2>2, MethodChosen
<1>11. CASE k = "dropbox"
  <2>1. \A x, y \in Paths, d \in Listings :
            /\ DropboxListFiles(d) \in Programs /\ DropboxDeleteFile(x) \in Programs /\ DropboxMoveFile(x, y) \in Programs
            /\ DropboxGetFileInfo(x) \in Programs /\ DropboxDownloadFile(x) \in Programs /\ DropboxUploadFile(x) \in Programs /\ DropboxCreateDirectory \in Programs
    BY DropboxPrograms
  <2>2. Program(k, c) = Methods(c, DropboxListFiles(a), DropboxDeleteFile(a), DropboxMoveFile(a, b), DropboxGetFileInfo(a),
                                DropboxDownloadFile(a), DropboxUploadFile(a), DropboxCreateDirectory)
    BY <1>11 DEF Program
  <2> HIDE DEF a, b
  <2> QED  BY <1>1, <1>2, <1>3, <1>11, <2>1, <2>2, MethodChosen
<1>12. CASE k = "swift"
  <2>1. \A x, y \in Paths, d \in Listings :
            /\ SwiftListFiles(d) \in Programs /\ SwiftDeleteFile(x) \in Programs /\ SwiftMoveFile(x, y) \in Programs
            /\ SwiftGetFileInfo(x) \in Programs /\ SwiftDownloadFile(x) \in Programs /\ SwiftUploadFile(x) \in Programs
    BY SwiftPrograms
  <2>2. Program(k, c) = Methods(c, SwiftListFiles(a), SwiftDeleteFile(a), SwiftMoveFile(a, b), SwiftGetFileInfo(a),
                                SwiftDownloadFile(a), SwiftUploadFile(a), Nothing)
    BY <1>12 DEF Program
  <2> HIDE DEF a, b
  <2> QED  BY <1>1, <1>2, <1>3, <1>12, <2>1, <2>2, MethodChosen
<1>13. CASE k = "hubic"
  <2>1. \A x, y \in Paths, d \in Listings :
            /\ HubicListFiles(d) \in Programs /\ HubicDeleteFile(x) \in Programs /\ HubicMoveFile(x, y) \in Programs
            /\ HubicGetFileInfo(x) \in Programs /\ HubicDownloadFile(x) \in Programs /\ HubicUploadFile(x) \in Programs /\ HubicCreateDirectory \in Programs
    BY HubicPrograms
  <2>2. Program(k, c) = Methods(c, HubicListFiles(a), HubicDeleteFile(a), HubicMoveFile(a, b), HubicGetFileInfo(a),
                                HubicDownloadFile(a), HubicUploadFile(a), HubicCreateDirectory)
    BY <1>13 DEF Program
  <2> HIDE DEF a, b
  <2> QED  BY <1>1, <1>2, <1>3, <1>13, <2>1, <2>2, MethodChosen
<1>14. CASE k = "file"
  <2>1. \A x, y \in Paths, d \in Listings :
            /\ FileListFiles(d) \in Programs /\ FileDeleteFile(x) \in Programs /\ FileMoveFile(x, y) \in Programs
            /\ FileGetFileInfo(x) \in Programs /\ FileDownloadFile(x) \in Programs /\ FileCreateDirectory \in Programs
    BY FilePrograms
  <2>2. Program(k, c) = Methods(c, FileListFiles(a), FileDeleteFile(a), FileMoveFile(a, b), FileGetFileInfo(a),
                                FileDownloadFile(a), FileUploadFile(a), FileCreateDirectory)
    BY <1>14 DEF Program
  <2> HIDE DEF a, b
  <2> QED  BY <1>1, <1>2, <1>3, <1>14, <2>1, <2>2, MethodChosen
<1>15. CASE k = "samba"
  <2>1. \A x, y \in Paths, d \in Listings :
            /\ SambaListFiles(d) \in Programs /\ SambaDeleteFile(x) \in Programs /\ SambaMoveFile(x, y) \in Programs
            /\ SambaGetFileInfo(x) \in Programs /\ SambaDownloadFile(x) \in Programs /\ SambaCreateDirectory \in Programs
    BY SambaPrograms
  <2>2. Program(k, c) = Methods(c, SambaListFiles(a), SambaDeleteFile(a), SambaMoveFile(a, b), SambaGetFileInfo(a),
                                SambaDownloadFile(a), SambaUploadFile(a), SambaCreateDirectory)
    BY <1>15 DEF Program
  <2> HIDE DEF a, b
  <2> QED  BY <1>1, <1>2, <1>3, <1>15, <2>1, <2>2, MethodChosen
<1>16. CASE k = "sftp"
  <2>1. \A x, y \in Paths, d \in Listings :
            /\ SFTPListFiles(d) \in Programs /\ SFTPDeleteFile(x) \in Programs /\ SFTPMoveFile(x, y) \in Programs
            /\ SFTPGetFileInfo(x) \in Programs /\ SFTPDownloadFile(x) \in Programs /\ SFTPCreateDirectory \in Programs
    BY SFTPPrograms
  <2>2. Program(k, c) = Methods(c, SFTPListFiles(a), SFTPDeleteFile(a), SFTPMoveFile(a, b), SFTPGetFileInfo(a),
                                SFTPDownloadFile(a), SFTPUploadFile(a), SFTPCreateDirectory)
    BY <1>16 DEF Program
  <2> HIDE DEF a, b
  <2> QED  BY <1>1, <1>2, <1>3, <1>16, <2>1, <2>2, MethodChosen
<1>17. CASE k = "webdav"
  <2>1. \A x, y \in Paths, d \in Listings :
            /\ WebDAVListFiles(d) \in Programs /\ WebDAVDeleteFile(x) \in Programs /\ WebDAVMoveFile(x, y) \in Programs
            /\ WebDAVGetFileInfo(x) \in Programs /\ WebDAVDownloadFile(x) \in Programs /\ WebDAVUploadFile(x) \in Programs /\ WebDAVCreateDirectory \in Programs
    BY WebDAVPrograms
  <2>2. Program(k, c) = Methods(c, WebDAVListFiles(a), WebDAVDeleteFile(a), WebDAVMoveFile(a, b), WebDAVGetFileInfo(a),
                                WebDAVDownloadFile(a), WebDAVUploadFile(a), WebDAVCreateDirectory)
    BY <1>17 DEF Program
  <2> HIDE DEF a, b
  <2> QED  BY <1>1, <1>2, <1>3, <1>17, <2>1, <2>2, MethodChosen
<1>18. CASE k = "onedrive"
  <2> DEFINE up(x) == OneUploadFile(x, FALSE)
  <2>1. \A x, y \in Paths, d \in Listings :
            /\ OneListFiles(d) \in Programs /\ OneDeleteFile(x) \in Programs /\ OneMoveFile(x, y) \in Programs
            /\ OneGetFileInfo(x) \in Programs /\ OneDownloadFile(x) \in Programs /\ up(x) \in Programs /\ OneCreateDirectory \in Programs
    BY OnePrograms
  <2>2. Program(k, c) = Methods(c, OneListFiles(a), OneDeleteFile(a), OneMoveFile(a, b), OneGetFileInfo(a),
                                OneDownloadFile(a), up(a), OneCreateDirectory)
    BY <1>18 DEF Program
  <2> HIDE DEF a, b, up
  <2> QED  BY <1>1, <1>2, <1>3, <1>18, <2>1, <2>2, MethodChosen
<1>19. CASE k = "business"
  <2> DEFINE up(x) == OneUploadFile(x, TRUE)
  <2>1. \A x, y \in Paths, d \in Listings :
            /\ OneListFiles(d) \in Programs /\ OneDeleteFile(x) \in Programs /\ OneMoveFile(x, y) \in Programs
            /\ OneGetFileInfo(x) \in Programs /\ OneDownloadFile(x) \in Programs /\ up(x) \in Programs /\ OneCreateDirectory \in Programs
    BY OnePrograms
  <2>2. Program(k, c) = Methods(c, OneListFiles(a), OneDeleteFile(a), OneMoveFile(a, b), OneGetFileInfo(a),
                                OneDownloadFile(a), up(a), OneCreateDirectory)
    BY <1>19 DEF Program
  <2> HIDE DEF a, b, up
  <2> QED  BY <1>1, <1>2, <1>3, <1>19, <2>1, <2>2, MethodChosen
<1>20. CASE k = "acd"
  <2>1. \A x, y \in Paths, d \in Listings :
            /\ ACDListFiles(d) \in Programs /\ ACDDeleteFile(x) \in Programs /\ ACDMoveFile(x, y) \in Programs
            /\ ACDGetFileInfo(x) \in Programs /\ ACDDownloadFile(x) \in Programs /\ ACDUploadFile(x) \in Programs /\ ACDCreateDirectory \in Programs
    BY ACDPrograms
  <2>2. Program(k, c) = Methods(c, ACDListFiles(a), ACDDeleteFile(a), ACDMoveFile(a, b), ACDGetFileInfo(a),
                                ACDDownloadFile(a), ACDUploadFile(a), ACDCreateDirectory)
    BY <1>20 DEF Program
  <2> HIDE DEF a, b
  <2> QED  BY <1>1, <1>2, <1>3, <1>20, <2>1, <2>2, MethodChosen
<1>21. CASE k = "gcd"
  <2>1. \A x, y \in Paths, d \in Listings :
            /\ GCDListFiles(d) \in Programs /\ GCDDeleteFile(x) \in Programs /\ GCDMoveFile(x, y) \in Programs
            /\ GCDGetFileInfo(x) \in Programs /\ GCDDownloadFile(x) \in Programs /\ GCDUploadFile(x) \in Programs /\ GCDCreateDirectory("dir") \in Programs
    BY GCDPrograms
  <2>2. Program(k, c) = Methods(c, GCDListFiles(a), GCDDeleteFile(a), GCDMoveFile(a, b), GCDGetFileInfo(a),
                                GCDDownloadFile(a), GCDUploadFile(a), GCDCreateDirectory("dir"))
    BY <1>21 DEF Program
  <2> HIDE DEF a, b
  <2> QED  BY <1>1, <1>2, <1>3, <1>21, <2>1, <2>2, MethodChosen
<1>22. CASE k = "filefabric"
  <2>1. \A x, y \in Paths, d \in Listings :
            /\ FFListFiles(d) \in Programs /\ FFDeleteFile(x) \in Programs /\ FFMoveFile(x, y) \in Programs
            /\ FFGetFileInfo(x) \in Programs /\ FFDownloadFile(x) \in Programs /\ FFUploadFile(x) \in Programs /\ FFCreateDirectory \in Programs
    BY FFPrograms
  <2>2. Program(k, c) = Methods(c, FFListFiles(a), FFDeleteFile(a), FFMoveFile(a, b), FFGetFileInfo(a),
                                FFDownloadFile(a), FFUploadFile(a), FFCreateDirectory)
    BY <1>22 DEF Program
  <2> HIDE DEF a, b
  <2> QED  BY <1>1, <1>2, <1>3, <1>22, <2>1, <2>2, MethodChosen
<1>23. CASE k = "b2"
  <2>1. \A x, y \in Paths, d \in Listings :
            /\ B2ListFiles(d) \in Programs /\ B2DeleteFile(x) \in Programs /\ B2MoveFile(x, y) \in Programs
            /\ B2GetFileInfo(x) \in Programs /\ B2DownloadFile(x) \in Programs /\ B2UploadFile(x) \in Programs
    BY B2Programs
  <2>2. Program(k, c) = Methods(c, B2ListFiles(a), B2DeleteFile(a), B2MoveFile(a, b), B2GetFileInfo(a),
                                B2DownloadFile(a), B2UploadFile(a), Nothing)
    BY <1>23 DEF Program
  <2> HIDE DEF a, b
  <2> QED  BY <1>1, <1>2, <1>3, <1>23, <2>1, <2>2, MethodChosen
<1> QED  BY <1>5, <1>6, <1>7, <1>8, <1>9, <1>10, <1>11, <1>12, <1>13, <1>14, <1>15, <1>16, <1>17, <1>18, <1>19, <1>20, <1>21, <1>22, <1>23 DEF Backends

LEMMA TempPrograms ==
    ASSUME NEW k \in {"file", "samba", "sftp"}, NEW c, c.op = "UploadFile", c.a = "chunk"
    PROVE  UploadsThroughTemp(Program(k, c))
<1>1. Program(k, c) = CASE k = "file" -> FileUploadFile("chunk") [] k = "samba" -> SambaUploadFile("chunk")
                        [] k = "sftp" -> SFTPUploadFile("chunk")
  BY DEF Program, Methods
<1>2. UploadsThroughTemp(FileUploadFile("chunk")) /\ UploadsThroughTemp(SambaUploadFile("chunk"))
  BY FileUploads DEF FileUploadFile, SambaUploadFile
<1>3. UploadsThroughTemp(SFTPUploadFile("chunk"))  BY SFTPUploads
<1> QED  BY <1>1, <1>2, <1>3

-----------------------------------------------------------------------------
(* Nothing but whole files.                                                *)

Whole == {"whole", "hide"}
Partial == {"whole", "part", "hide"}

Server == {f \in [Files -> Seq(Partial)] : f["chunk"] \in Seq(Whole) /\ f["fossil"] \in Seq(Whole)}

Renames(k, c) == k \in {"file", "samba", "sftp"} /\ c.op = "UploadFile"

(* The temporary file is whole when it comes to be renamed. *)
FilesInv ==
    /\ kind \in Backends
    /\ task = [op |-> task.op, at |-> task.at, attempt |-> task.attempt] /\ (task = NoTask \/ task.op \in TaskKinds)
    /\ call = NoCall \/ (GoodCall(call) /\ task # NoTask)
    /\ srv \in Server
    /\ Renames(kind, call) /\ pc = 5 => srv["temp"] \in Seq(Whole)

LEMMA FilesWhole == FilesInv => WholeFiles
<1> SUFFICES ASSUME FilesInv, NEW n \in Paths, NEW i \in DOMAIN srv[n] PROVE srv[n][i] # "part"
  BY DEF WholeFiles, Paths
<1>1. srv[n] \in Seq(Whole)  BY DEF FilesInv, Server, Paths
<1>2. srv[n][i] \in Whole  BY <1>1
<1> QED  BY <1>2 DEF Whole

LEMMA SomeParts ==
    /\ \A s \in Seq(Whole) : s \in Seq(Partial)
    /\ <<>> \in Seq(Whole) /\ <<"whole">> \in Seq(Whole) /\ <<"hide">> \in Seq(Whole) /\ <<"part">> \in Seq(Partial)
    /\ <<"hide", "whole">> \in Seq(Whole)
<1>1. ASSUME NEW s \in Seq(Whole) PROVE s \in Seq(Partial)
  <2>1. Whole \subseteq Partial  BY DEF Whole, Partial
  <2> QED  BY <2>1
<1>2. "whole" \in Whole /\ "hide" \in Whole /\ "part" \in Partial  BY DEF Whole, Partial
<1> QED  BY <1>1, <1>2

(* A file is given another content. *)
LEMMA ServerUpdate ==
    ASSUME NEW f \in Server, NEW x, NEW v, x \in Paths => v \in Seq(Whole), x = "temp" => v \in Seq(Partial)
    PROVE  [f EXCEPT ![x] = v] \in Server
<1>1. f \in [Files -> Seq(Partial)] /\ f["chunk"] \in Seq(Whole) /\ f["fossil"] \in Seq(Whole)  BY DEF Server
<1>2. x \in Files => v \in Seq(Partial)  BY SomeParts DEF Files, Paths
<1> DEFINE g == [f EXCEPT ![x] = v]
<1>3. g \in [Files -> Seq(Partial)]  BY <1>1, <1>2
<1>4. "chunk" \in Files /\ "fossil" \in Files  BY DEF Files
<1>5. g["chunk"] = (IF x = "chunk" THEN v ELSE f["chunk"]) /\ g["fossil"] = (IF x = "fossil" THEN v ELSE f["fossil"])
  BY <1>1, <1>4
<1> HIDE DEF g
<1>6. g["chunk"] \in Seq(Whole) /\ g["fossil"] \in Seq(Whole)  BY <1>1, <1>5 DEF Paths
<1> QED  BY <1>3, <1>6 DEF Server, g

LEMMA TailType == ASSUME NEW S, NEW s \in Seq(S) PROVE Tail(s) \in Seq(S)
<1>1. CASE s = <<>>
  <2>1. Tail(<<>>) = <<>>  OBVIOUS
  <2> QED  BY <1>1, <2>1
<1>2. CASE s # <<>>  BY <1>2
<1> QED  BY <1>1, <1>2

LEMMA LongerType ==
    ASSUME NEW S, NEW x \in S, NEW s \in Seq(S)
    PROVE  <<x>> \o s \in Seq(S)
OBVIOUS

(* Changes of the parts of one file that make no part of a file of a whole one. *)
LEMMA ContentTypes ==
    ASSUME NEW f \in Server
    PROVE  /\ \A x \in Paths : /\ f[x] \in Seq(Whole) /\ Tail(f[x]) \in Seq(Whole)
                              /\ <<"whole">> \o f[x] \in Seq(Whole) /\ <<"hide">> \o f[x] \in Seq(Whole)
           /\ f["temp"] \in Seq(Partial) /\ Tail(f["temp"]) \in Seq(Partial) /\ <<"whole">> \o f["temp"] \in Seq(Partial)
<1>1. \A x \in Paths : f[x] \in Seq(Whole)  BY DEF Paths, Server
<1>2. f["temp"] \in Seq(Partial)  BY DEF Server, Files
<1>3. "whole" \in Whole /\ "hide" \in Whole /\ "whole" \in Partial  BY DEF Whole, Partial
<1> QED  BY <1>1, <1>2, <1>3, TailType, LongerType

LEMMA WithoutType ==
    ASSUME NEW S, NEW s \in Seq(S), NEW i \in DOMAIN s
    PROVE  Without(s, i) \in Seq(S)
<1>1. Len(s) \in Nat /\ i \in 1 .. Len(s) /\ \A j \in 1 .. Len(s) : s[j] \in S  OBVIOUS
<1>2. \A j \in 1 .. (Len(s) - 1) : j \in 1 .. Len(s) /\ j + 1 \in 1 .. Len(s)  BY <1>1
<1>3. Without(s, i) \in [1 .. (Len(s) - 1) -> S]  BY <1>1, <1>2 DEF Without
<1>4. Len(s) - 1 \in Nat  BY <1>1
<1> QED  BY <1>3, <1>4, FunctionIsSequence

(* A request of any other program than the upload through a temporary file. *)
LEMMA MildFiles ==
    ASSUME srv \in Server, NEW v, NEW x, NEW y, v # "create", Mild(v, x), Answer(v, x, y) \in {"ok", "more"}
    PROVE  FilesAfter(v, x, y) \in Server
<1> DEFINE g == FilesAfter(v, x, y)
<1>1. v \in Copying => x \in Paths  BY DEF Mild
<1>2. /\ \A z \in Paths : /\ srv[z] \in Seq(Whole) /\ Tail(srv[z]) \in Seq(Whole)
                         /\ <<"whole">> \o srv[z] \in Seq(Whole) /\ <<"hide">> \o srv[z] \in Seq(Whole)
      /\ srv["temp"] \in Seq(Partial) /\ Tail(srv["temp"]) \in Seq(Partial) /\ <<"whole">> \o srv["temp"] \in Seq(Partial)
  BY ContentTypes
<1>3. /\ \A s \in Seq(Whole) : s \in Seq(Partial)
      /\ <<>> \in Seq(Whole) /\ <<"whole">> \in Seq(Whole)
  BY SomeParts
<1>4. "chunk" \in Paths /\ "chunk" # "temp" /\ "temp" \notin Paths  BY DEF Paths
<1>5. CASE v \in {"put", "putonce", "write"}
  <2>1. g = [srv EXCEPT ![x] = <<"whole">>]  BY <1>5 DEF FilesAfter
  <2> DEFINE w == <<"whole">>
  <2>2. w \in Seq(Whole) /\ w \in Seq(Partial)  BY <1>3
  <2> HIDE DEF w, g
  <2>3. [srv EXCEPT ![x] = w] \in Server  BY <2>2, ServerUpdate
  <2> QED  BY <2>1, <2>3 DEF w, g
<1>6. CASE v \in {"putmore", "upload"}
  <2> DEFINE w == <<"whole">> \o srv[x]
  <2>1. g = [srv EXCEPT ![x] = w]  BY <1>6 DEF FilesAfter
  <2>2. (x \in Paths => w \in Seq(Whole)) /\ (x = "temp" => w \in Seq(Partial))  BY <1>2
  <2> HIDE DEF w
  <2>3. [srv EXCEPT ![x] = w] \in Server  BY <2>2, ServerUpdate
  <2> QED  BY <2>1, <2>3
<1>7. CASE v = "copy"
  <2>1. g = [srv EXCEPT ![y] = srv[x]]  BY <1>7 DEF FilesAfter
  <2> DEFINE w == srv[x]
  <2>2. w \in Seq(Whole) /\ w \in Seq(Partial)  BY <1>1, <1>2, <1>3, <1>7 DEF Copying
  <2> HIDE DEF w, g
  <2>3. [srv EXCEPT ![y] = w] \in Server  BY <2>2, ServerUpdate
  <2> QED  BY <2>1, <2>3 DEF w, g
<1>8. CASE v \in {"rename", "move", "moveid"}
  <2> DEFINE h == [srv EXCEPT ![y] = srv[x]]
             w == srv[x]
             e == <<>>
  <2>1. g = [h EXCEPT ![x] = e]  BY <1>8 DEF FilesAfter
  <2>2. w \in Seq(Whole) /\ w \in Seq(Partial) /\ e \in Seq(Whole) /\ e \in Seq(Partial)  BY <1>1, <1>2, <1>3, <1>8 DEF Copying
  <2>3. h = [srv EXCEPT ![y] = w]  OBVIOUS
  <2> HIDE DEF w, h, e, g
  <2>4. h \in Server  BY <2>2, <2>3, ServerUpdate
  <2>5. [h EXCEPT ![x] = e] \in Server  BY <2>2, <2>4, ServerUpdate
  <2> QED  BY <2>1, <2>5 DEF g
<1>9. CASE v = "reparent"
  <2>1. CASE did
    <3>1. g = srv  BY <1>9, <2>1 DEF FilesAfter
    <3> QED  BY <3>1
  <2>2. CASE ~did
    <3> DEFINE u == <<Head(srv[x])>> \o srv[y]
               h == [srv EXCEPT ![y] = u]
               t == Tail(srv[x])
    <3>1. Answer(v, x, y) = Found(did \/ There(x))  BY <1>9 DEF Answer
    <3>2. There(x)  BY <2>2, <3>1 DEF Found
    <3>3. x \in Paths /\ srv[x] # <<>> /\ srv[x] \in Seq(Whole)  BY <1>1, <1>2, <1>9, <3>2 DEF Copying, There
    <3>4. Head(srv[x]) \in Whole  BY <3>3
    <3>5. y \in Paths => u \in Seq(Whole)  BY <1>2, <3>4, LongerType
    <3>6. y = "temp" => u \in Seq(Partial)
      <4>1. Head(srv[x]) \in Partial  BY <3>4 DEF Whole, Partial
      <4> QED  BY <1>2, <4>1, LongerType
    <3>7. g = [srv EXCEPT ![y] = <<Head(srv[x])>> \o srv[y], ![x] = Tail(srv[x])]  BY <1>9, <2>2 DEF FilesAfter
    <3>8. g = [h EXCEPT ![x] = t]  BY <3>7
    <3> HIDE DEF u
    <3>9. h \in Server  BY <3>5, <3>6, ServerUpdate
    <3> HIDE DEF h
    <3>10. t \in Seq(Whole)  BY <3>3, TailType
    <3>11. x # "temp"  BY <3>3, <1>4
    <3> HIDE DEF t, g
    <3>12. [h EXCEPT ![x] = t] \in Server  BY <3>9, <3>10, <3>11, ServerUpdate
    <3> QED  BY <3>8, <3>12 DEF g
  <2> QED  BY <2>1, <2>2
<1>10. CASE v = "delete"
  <2> DEFINE w == Tail(srv[x])
  <2>1. g = [srv EXCEPT ![x] = w]  BY <1>10 DEF FilesAfter
  <2>2. (x \in Paths => w \in Seq(Whole)) /\ (x = "temp" => w \in Seq(Partial))  BY <1>2
  <2> HIDE DEF w
  <2>3. [srv EXCEPT ![x] = w] \in Server  BY <2>2, ServerUpdate
  <2> QED  BY <2>1, <2>3
<1>11. CASE v = "trash"
  <2>1. CASE ids[x] \in Files
    <3> DEFINE z == ids[x]
               w == Tail(srv[z])
    <3>1. g = [srv EXCEPT ![z] = w]  BY <1>11, <2>1 DEF FilesAfter
    <3> HIDE DEF z
    <3>2. (z \in Paths => w \in Seq(Whole)) /\ (z = "temp" => w \in Seq(Partial))  BY <1>2
    <3> HIDE DEF w
    <3>3. [srv EXCEPT ![z] = w] \in Server  BY <3>2, ServerUpdate
    <3> QED  BY <3>1, <3>3
  <2>2. CASE ids[x] \notin Files
    <3>1. g = srv  BY <1>11, <2>2 DEF FilesAfter
    <3> QED  BY <3>1
  <2> QED  BY <2>1, <2>2
<1>12. CASE v = "hide"
  <2> DEFINE w == <<"hide">> \o srv["chunk"]
  <2>1. g = [srv EXCEPT !["chunk"] = w]  BY <1>12 DEF FilesAfter
  <2>2. w \in Seq(Whole)  BY <1>2, <1>4
  <2> HIDE DEF w
  <2>3. [srv EXCEPT !["chunk"] = w] \in Server  BY <1>4, <2>2, ServerUpdate
  <2> QED  BY <2>1, <2>3
<1>13. CASE v = "delversion"
  <2> DEFINE w == Tail(srv["chunk"])
  <2>1. g = [srv EXCEPT !["chunk"] = w]  BY <1>13 DEF FilesAfter
  <2>2. w \in Seq(Whole)  BY <1>2, <1>4
  <2> HIDE DEF w
  <2>3. [srv EXCEPT !["chunk"] = w] \in Server  BY <1>4, <2>2, ServerUpdate
  <2> QED  BY <2>1, <2>3
<1>14. CASE v = "purge"
  <2>1. CASE PurgeAt \in DOMAIN srv["chunk"]
    <3> DEFINE w == Without(srv["chunk"], PurgeAt)
    <3>1. g = [srv EXCEPT !["chunk"] = w]  BY <1>14, <2>1 DEF FilesAfter
    <3>2. srv["chunk"] \in Seq(Whole)  BY <1>2, <1>4
    <3>3. w \in Seq(Whole)  BY <2>1, <3>2, WithoutType
    <3> HIDE DEF w
    <3>4. [srv EXCEPT !["chunk"] = w] \in Server  BY <1>4, <3>3, ServerUpdate
    <3> QED  BY <3>1, <3>4
  <2>2. CASE PurgeAt \notin DOMAIN srv["chunk"]
    <3>1. g = srv  BY <1>14, <2>2 DEF FilesAfter
    <3> QED  BY <3>1
  <2> QED  BY <2>1, <2>2
<1>15. CASE v \notin {"put", "putonce", "write", "putmore", "upload", "copy", "rename", "move", "moveid", "reparent", "delete",
                     "trash", "hide", "delversion", "purge"}
  <2>1. g = srv  BY <1>15 DEF FilesAfter
  <2> QED  BY <2>1
<1> QED  BY <1>5, <1>6, <1>7, <1>8, <1>9, <1>10, <1>11, <1>12, <1>13, <1>14, <1>15

(* What the tasks call is what the programs are for. *)
LEMMA StepCalls ==
    ASSUME NEW op \in TaskKinds
    PROVE  /\ "find" \in DOMAIN Steps(op) /\ (op = "fossilize" => "move" \in DOMAIN Steps(op))
           /\ \A at \in DOMAIN Steps(op) : GoodCall(Steps(op)[at].call)
<1> USE DEF FindChunk, Do, Call, GoodCall, Methods7, Paths
<1>1. CASE op = "fossilize"
  <2>1. Steps(op) = Fossilize  BY <1>1 DEF Steps
  <2> QED  BY <1>1, <2>1 DEF Fossilize
<1>2. CASE op = "resurrect"
  <2>1. Steps(op) = Resurrect  BY <1>2 DEF Steps
  <2> QED  BY <1>2, <2>1 DEF Resurrect
<1>3. CASE op = "upload"
  <2>1. Steps(op) = UploadChunk  BY <1>3 DEF Steps
  <2> QED  BY <1>3, <2>1 DEF UploadChunk
<1>4. CASE op = "download"
  <2>1. Steps(op) = DownloadChunk  BY <1>4 DEF Steps
  <2> QED  BY <1>4, <2>1 DEF DownloadChunk
<1>5. CASE op = "rewrite"
  <2>1. Steps(op) = RewriteChunk  BY <1>5 DEF Steps
  <2> QED  BY <1>5, <2>1 DEF RewriteChunk
<1>6. CASE op \in {"delete fossil", "delete chunk"}
  <2>1. PICK path \in Paths : Steps(op) = DeleteTask(path)  BY <1>6 DEF Steps
  <2>2. DOMAIN Steps(op) = {"find"} /\ Steps(op)["find"].call = Call("DeleteFile", path, path)  BY <2>1 DEF DeleteTask
  <2>3. GoodCall(Call("DeleteFile", path, path))  OBVIOUS
  <2> QED  BY <1>6, <2>2, <2>3
<1>7. CASE op \in {"list", "revisions"}
  <2>1. \/ Steps(op) = [find |-> Do(Call("ListFiles", "chunks", "chunks"), "done", "fatal")]
        \/ Steps(op) = [find |-> Do(Call("ListFiles", "snapshots", "snapshots"), "done", "fatal")]
    BY <1>7 DEF Steps
  <2> QED  BY <1>7, <2>1
<1>8. CASE op = "directory"
  <2>1. Steps(op) = [find |-> Do(Call("CreateDirectory", "dir", "dir"), "done", "fatal")]  BY <1>8 DEF Steps
  <2> QED  BY <1>8, <2>1
<1> QED  BY <1>1, <1>2, <1>3, <1>4, <1>5, <1>6, <1>7, <1>8, TasksAssumption

LEMMA AnswerType == ASSUME NEW v, NEW x, NEW y PROVE Answer(v, x, y) \in Answers
BY DEF Answer, Answers, Found, Moving

(* The request in progress, if it is carried out. *)
LEMMA RequestFiles ==
    ASSUME FilesInv, InCall, NEW s, s = Prog[pc], Answer(s.verb, s.a, s.b) \in {"ok", "more"}
    PROVE  /\ FilesAfter(s.verb, s.a, s.b) \in Server
           /\ Renames(kind, call) /\ pc \in {4, 5} => FilesAfter(s.verb, s.a, s.b)["temp"] \in Seq(Whole)
<1>1. srv \in Server /\ kind \in Backends /\ GoodCall(call) /\ pc \in 1 .. Len(Prog)
  BY DEF FilesInv, InCall
<1>2. ASSUME s \in MildSteps PROVE FilesAfter(s.verb, s.a, s.b) \in Server
  BY <1>1, <1>2, MildFiles DEF MildSteps
<1>3. CASE ~Renames(kind, call)
  <2>1. Prog \in Seq(MildSteps)  BY <1>1, <1>3, MildPrograms DEF Prog, Renames, Programs
  <2>2. s \in MildSteps  BY <1>1, <2>1
  <2> QED  BY <1>2, <1>3, <2>2
<1>4. CASE Renames(kind, call)
  <2>1. UploadsThroughTemp(Prog)  BY <1>1, <1>4, TempPrograms DEF Prog, Renames, GoodCall
  <2>2. pc \in 1 .. 7  BY <1>1, <2>1 DEF UploadsThroughTemp
  <2>3. srv \in [Files -> Seq(Partial)] /\ "temp" \in Files  BY <1>1 DEF Server, Files
  <2>4. <<"whole">> \in Seq(Whole) /\ <<"part">> \in Seq(Partial) /\ <<>> \in Seq(Whole) /\ \A q \in Seq(Whole) : q \in Seq(Partial)
    BY SomeParts
  <2>5. CASE pc \in {1, 2, 6, 7}
    <3>1. s \in MildSteps  BY <2>1, <2>5 DEF UploadsThroughTemp
    <3> QED  BY <1>2, <2>5, <3>1
  <2>6. CASE pc = 3
    <3>1. s.verb = "create" /\ s.a = "temp"  BY <2>1, <2>6 DEF UploadsThroughTemp
    <3> DEFINE w == <<"part">>
    <3>2. FilesAfter(s.verb, s.a, s.b) = [srv EXCEPT !["temp"] = w]  BY <3>1 DEF FilesAfter
    <3>3. w \in Seq(Partial) /\ "temp" \notin Paths  BY <2>4 DEF Paths
    <3> HIDE DEF w
    <3>4. [srv EXCEPT !["temp"] = w] \in Server  BY <1>1, <3>3, ServerUpdate
    <3> QED  BY <2>6, <3>2, <3>4
  <2>7. CASE pc = 4
    <3>1. s.verb = "write" /\ s.a = "temp"  BY <2>1, <2>7 DEF UploadsThroughTemp
    <3> DEFINE w == <<"whole">>
    <3>2. FilesAfter(s.verb, s.a, s.b) = [srv EXCEPT !["temp"] = w]  BY <3>1 DEF FilesAfter
    <3>3. w \in Seq(Whole) /\ w \in Seq(Partial)  BY <2>4
    <3> HIDE DEF w
    <3>4. [srv EXCEPT !["temp"] = w] \in Server  BY <1>1, <3>3, ServerUpdate
    <3>5. [srv EXCEPT !["temp"] = w]["temp"] = w  BY <2>3
    <3> QED  BY <3>2, <3>3, <3>4, <3>5
  <2>8. CASE pc = 5
    <3>1. s.verb \in {"rename", "move"} /\ s.a = "temp"  BY <2>1, <2>8 DEF UploadsThroughTemp
    <3> DEFINE w == srv["temp"]
               h == [srv EXCEPT ![s.b] = w]
               e == <<>>
    <3>2. FilesAfter(s.verb, s.a, s.b) = [h EXCEPT !["temp"] = e]  BY <3>1 DEF FilesAfter
    <3>3. w \in Seq(Whole)  BY <1>4, <2>8 DEF FilesInv
    <3>4. w \in Seq(Partial) /\ e \in Seq(Whole) /\ e \in Seq(Partial)  BY <2>4, <3>3
    <3> HIDE DEF w, e
    <3>5. h \in Server  BY <1>1, <3>3, <3>4, ServerUpdate
    <3> HIDE DEF h
    <3>6. [h EXCEPT !["temp"] = e] \in Server  BY <3>4, <3>5, ServerUpdate
    <3>7. [h EXCEPT !["temp"] = e]["temp"] = e  BY <2>3, <3>5 DEF Server
    <3> QED  BY <3>2, <3>4, <3>6, <3>7
  <2> QED  BY <2>2, <2>5, <2>6, <2>7, <2>8
<1> QED  BY <1>3, <1>4

(* An upload comes to the renaming by writing the whole file. *)
LEMMA RenamedWhole ==
    ASSUME FilesInv, InCall, NEW answer \in Answers, Conclude(Prog[pc], answer), Renames(kind, call), pc' = 5
    PROVE  pc = 5 \/ (pc = 4 /\ answer = "ok")
<1>1. kind \in Backends /\ GoodCall(call) /\ pc \in 1 .. Len(Prog)
  BY DEF FilesInv, InCall
<1>2. UploadsThroughTemp(Prog)  BY <1>1, TempPrograms DEF Prog, Renames, GoodCall
<1>3. pc \in 1 .. 7  BY <1>1, <1>2 DEF UploadsThroughTemp
<1> DEFINE s == Prog[pc]
<1>4. s.spent[answer] = "fail"  BY <1>2, <1>3 DEF UploadsThroughTemp, Always
<1>5. PICK then : /\ then \in {s.on[answer], s.spent[answer]}
                  /\ pc' = CASE then \in Moves -> pc + Advance(then) [] then = "restart" -> 1 [] OTHER -> pc
  <2> DEFINE count == IF s.on[answer] = "restart" THEN tries.program ELSE tries.request
  <2>1. Verdict(s, answer, count) \in {s.on[answer], s.spent[answer]}  BY DEF Verdict
  <2>2. pc' = CASE Verdict(s, answer, count) \in Moves -> pc + Advance(Verdict(s, answer, count))
                [] Verdict(s, answer, count) = "restart" -> 1 [] OTHER -> pc
    BY DEF Conclude
  <2> HIDE DEF count
  <2> QED  BY <2>1, <2>2
<1>6. then \in Moves => then = s.on[answer]  BY <1>4, <1>5 DEF Moves
<1>7. pc = 1 => then # "skip3"  BY <1>2, <1>4, <1>5 DEF UploadsThroughTemp
<1>8. pc = 2 => then # "skip2"  BY <1>2, <1>4, <1>5 DEF UploadsThroughTemp
<1>9. pc = 3 => then # "skip"  BY <1>2, <1>4, <1>5 DEF UploadsThroughTemp
<1>10. pc = 4 /\ then \in Moves => answer = "ok"  BY <1>2, <1>6 DEF UploadsThroughTemp
<1> HIDE DEF s
<1>11. CASE then \in Moves
  <2>1. Advance(then) \in 1 .. 4 /\ (Advance(then) = 2 => then = "skip") /\ (Advance(then) = 3 => then = "skip2")
        /\ (Advance(then) = 4 => then = "skip3")
    BY <1>11 DEF Moves, Advance
  <2>2. pc' = pc + Advance(then)  BY <1>5, <1>11
  <2> QED  BY <1>3, <1>7, <1>8, <1>9, <1>10, <1>11, <2>1, <2>2
<1>12. CASE then \notin Moves
  <2>1. pc' = 1 \/ pc' = pc  BY <1>5, <1>12
  <2> QED  BY <2>1
<1> QED  BY <1>11, <1>12

LEMMA NoTaskFiles ==
    /\ NoTask = [op |-> NoTask.op, at |-> NoTask.at, attempt |-> NoTask.attempt]
    /\ \A k : ~Renames(k, NoCall)
BY DEF NoTask, Renames, NoCall, Call

LEMMA FilesInit == Init => FilesInv
<1> SUFFICES ASSUME Init PROVE FilesInv  OBVIOUS
<1>1. kind \in Backends  BY TasksAssumption DEF Init, Backends
<1>2. PICK v \in {<<>>, <<"whole">>, <<"hide", "whole">>}, w \in {<<>>, <<"whole">>} :
         srv = [chunk |-> v, fossil |-> w, temp |-> <<>>]
  <2>1. CASE kind = "b2"  BY <2>1 DEF Init
  <2>2. CASE kind # "b2"  BY <2>2 DEF Init
  <2> QED  BY <2>1, <2>2
<1>3. v \in Seq(Whole) /\ w \in Seq(Whole) /\ <<>> \in Seq(Whole)  BY SomeParts
<1> HIDE DEF Whole
<1>4. v \in Seq(Partial) /\ w \in Seq(Partial) /\ <<>> \in Seq(Partial)  BY <1>3, SomeParts
<1> DEFINE e == <<>>
<1> HIDE DEF e
<1>5. srv = [chunk |-> v, fossil |-> w, temp |-> e]  BY <1>2 DEF e
<1>6. e \in Seq(Partial)  BY <1>4 DEF e
<1>7. srv \in Server  BY <1>3, <1>4, <1>5, <1>6 DEF Server, Files
<1>8. task = NoTask /\ call = NoCall /\ pc = 1  BY DEF Init
<1> QED  BY <1>1, <1>7, <1>8, NoTaskFiles DEF FilesInv

(* Entering a method, with the files as they are. *)
LEMMA EnterFiles ==
    ASSUME FilesInv, NEW op \in TaskKinds, NEW at \in DOMAIN Steps(op), Enter(Steps(op)[at].call), UNCHANGED <<kind, srv>>,
           NEW l, NEW n, task' = [op |-> op, at |-> l, attempt |-> n]
    PROVE  FilesInv'
<1>1. GoodCall(call') /\ pc' = 1  BY StepCalls DEF Enter
<1>2. op # "none"  BY TasksAssumption
<1>3. task'.op = op /\ task'.at = l /\ task'.attempt = n  OBVIOUS
<1>4. task' # NoTask  BY <1>2, <1>3 DEF NoTask
<1>5. kind' \in Backends /\ srv' \in Server  BY DEF FilesInv
<1> QED  BY <1>1, <1>3, <1>4, <1>5 DEF FilesInv

(* Leaving a task. *)
LEMMA LeaveFiles ==
    ASSUME FilesInv, task' = NoTask, Leave, UNCHANGED <<kind, srv>>
    PROVE  FilesInv'
<1>1. kind' \in Backends /\ srv' \in Server /\ call' = NoCall /\ pc' = 1  BY DEF FilesInv, Leave
<1> QED  BY <1>1, NoTaskFiles DEF FilesInv

(* A request is answered or fails. *)
LEMMA ConcludeFiles ==
    ASSUME FilesInv, InCall, NEW answer \in Answers, Conclude(Prog[pc], answer), UNCHANGED <<kind, task, call>>,
           NEW s, s = Prog[pc],
           \/ srv' = srv /\ ~(answer = "ok" /\ pc = 4 /\ Renames(kind, call))
           \/ srv' = FilesAfter(s.verb, s.a, s.b) /\ Answer(s.verb, s.a, s.b) \in {"ok", "more"}
    PROVE  FilesInv'
<1>1. srv' \in Server
  <2>1. srv \in Server  BY DEF FilesInv
  <2> QED  BY <2>1, RequestFiles
<1>2. ASSUME Renames(kind, call), pc' = 5 PROVE srv'["temp"] \in Seq(Whole)
  <2>1. pc = 5 \/ (pc = 4 /\ answer = "ok")  BY <1>2, RenamedWhole
  <2>2. CASE srv' = srv /\ ~(answer = "ok" /\ pc = 4 /\ Renames(kind, call))  BY <1>2, <2>1, <2>2 DEF FilesInv
  <2>3. CASE srv' = FilesAfter(s.verb, s.a, s.b) /\ Answer(s.verb, s.a, s.b) \in {"ok", "more"}
    BY <1>2, <2>1, <2>3, RequestFiles
  <2> QED  BY <2>2, <2>3
<1>3. Renames(kind, call)' = Renames(kind, call)  BY DEF Renames
<1> QED  BY <1>1, <1>2, <1>3 DEF FilesInv, GoodCall

LEMMA FilesNext == FilesInv /\ [Next]_vars => FilesInv'
<1> SUFFICES ASSUME FilesInv, [Next]_vars PROVE FilesInv'  OBVIOUS
<1>1. task = [op |-> task.op, at |-> task.at, attempt |-> task.attempt]  BY DEF FilesInv
<1>2. ASSUME Returned PROVE task.op \in TaskKinds
  BY <1>2 DEF Returned, FilesInv
<1>3. ASSUME UNCHANGED <<kind, srv, task, call, pc>> PROVE FilesInv'
  BY <1>3 DEF FilesInv, GoodCall, Renames
<1>4. ASSUME NEW op \in TaskKinds, NEW at \in {"find", "move"}, Begin(op, at) PROVE FilesInv'
  <2>1. at \in DOMAIN Steps(op)  BY <1>4, StepCalls DEF Begin
  <2>2. task' = [op |-> op, at |-> at, attempt |-> 0]  BY <1>4 DEF Begin
  <2> QED  BY <1>4, <2>1, <2>2, EnterFiles DEF Begin
<1>5. CASE Login  BY <1>3, <1>5 DEF Login
<1>6. CASE Answered
  <2> DEFINE s == Prog[pc]
             answer == Answer(s.verb, s.a, s.b)
  <2>1. InCall /\ Conclude(Prog[pc], answer) /\ UNCHANGED <<kind, task, call>>
        /\ srv' = IF answer \in {"ok", "more"} THEN FilesAfter(s.verb, s.a, s.b) ELSE srv
    BY <1>6 DEF Answered
  <2>2. answer \in Answers  BY AnswerType
  <2> HIDE DEF s
  <2>3. s = Prog[pc]  BY DEF s
  <2> QED  BY <2>1, <2>2, <2>3, ConcludeFiles
<1>7. CASE Failed
  <2> DEFINE s == Prog[pc]
  <2>1. PICK answer \in IF s.verb = "idsaved" THEN {"notfound"} ELSE FaultsOf(kind) :
            /\ Conclude(s, answer)
            /\ \/ srv' = srv
               \/ Answer(s.verb, s.a, s.b) \in {"ok", "more"} /\ srv' = FilesAfter(s.verb, s.a, s.b)
    BY <1>7 DEF Failed
  <2>2. InCall /\ UNCHANGED <<kind, task, call>>  BY <1>7 DEF Failed
  <2>3. answer \in Answers /\ answer # "ok"  BY <2>1 DEF FaultsOf, Answers
  <2> HIDE DEF s
  <2>4. s = Prog[pc]  BY DEF s
  <2> QED  BY <2>1, <2>2, <2>3, <2>4, ConcludeFiles
<1>8. CASE NoRequest  BY <1>3, <1>8 DEF NoRequest
<1>9. CASE NextCall
  <2>1. task.op \in TaskKinds /\ After \in DOMAIN Steps(task.op) /\ Enter(Steps(task.op)[After].call) /\ UNCHANGED <<kind, srv>>
    BY <1>2, <1>9 DEF NextCall
  <2>2. task' = [task EXCEPT !.at = After]  BY <1>9 DEF NextCall
  <2>3. task' = [op |-> task.op, at |-> After, attempt |-> task.attempt]  BY <1>1, <2>2
  <2> HIDE DEF After
  <2> QED  BY <2>1, <2>3, EnterFiles
<1>10. CASE Complete  BY <1>10, LeaveFiles DEF Complete
<1>11. CASE RetryDownload
  <2>1. task.op \in TaskKinds /\ Enter(Steps(task.op)["find"].call) /\ UNCHANGED <<kind, srv>>
    BY <1>2, <1>11 DEF RetryDownload
  <2>2. task' = [task EXCEPT !.at = "find", !.attempt = @ + 1]  BY <1>11 DEF RetryDownload
  <2>3. task' = [op |-> task.op, at |-> "find", attempt |-> task.attempt + 1]  BY <1>1, <2>2
  <2>4. "find" \in DOMAIN Steps(task.op)  BY <2>1, StepCalls
  <2> QED  BY <2>1, <2>3, <2>4, EnterFiles
<1>12. CASE Fatal \/ Crash  BY <1>12, LeaveFiles DEF Fatal, Crash, Exit
<1>13. CASE OtherClient  BY <1>3, <1>13 DEF OtherClient
<1>14. CASE UNCHANGED vars  BY <1>3, <1>14 DEF vars
<1> QED  BY <1>4, <1>5, <1>6, <1>7, <1>8, <1>9, <1>10, <1>11, <1>12, <1>13, <1>14 DEF Next, Progress

(* Whatever fails, is tried again, is carried out without an answer or is   *)
(* cut off by the end of the process: there is nothing but whole files     *)
(* under the names of the chunk and of its fossil, on every backend.       *)
THEOREM FilesAreWhole == Spec => []WholeFiles
<1>1. Spec => []FilesInv  BY FilesInit, FilesNext, PTL DEF Spec
<1> QED  BY <1>1, FilesWhole, PTL

-----------------------------------------------------------------------------
(* Programs that list.                                                     *)

NamesIn(dir) == {Listable(dir)[i] : i \in DOMAIN Listable(dir)}

(* An error that makes the method go on with nothing, or end in failure. *)
Quiet == {"fail", "again", "reset", "login", "hang", "panic"}

(* The backends that take a missing directory for an empty one. *)
DirKinds == {"file", "samba", "filefabric"}

(* A step of a listing goes on after a success only, and an error ends the listing with a *)
(* success only if it says that there is no directory. *)
Hears(on) == on["ok"] = "next" /\ on["more"] = "stay" /\ \A x \in Errors : on[x] \in Quiet
Spends(s) == \A x \in Answers : s.spent[x] \in {"fail", "panic"}

ListStep(k, s) ==
    /\ s.verb \in {"pages", "readdir", "statdir", "idsaved", "parse"}
    /\ s.on["ok"] = "next" /\ s.on["more"] = "stay"
    /\ \A x \in Errors :
          /\ s.on[x] \in Quiet \cup {"return", "restart"}
          /\ s.on[x] = "restart" => s.verb = "parse"
          /\ s.on[x] = "return" => x = "nodir" /\ s.verb \in {"readdir", "statdir"} /\ k \in DirKinds
    /\ Spends(s)

GoodList(k, p, dir) ==
    /\ Len(p) >= 1
    /\ \A i \in 1 .. Len(p) :
          /\ ListStep(k, p[i])
          /\ p[i].verb = "pages" => p[i].a \in Listings
          /\ p[i].verb = "readdir" => p[i].a = dir
          /\ p[i].verb = "statdir" => p[i].a = IF dir = "chunks" THEN "dir" ELSE "root"
    /\ \A n \in NamesIn(dir) : \E i \in 1 .. Len(p) : p[i].verb \in {"pages", "readdir"} /\ n \in NamesIn(p[i].a)

(* The listings that promise to be complete. *)
Promises(k, c) == c.op = "ListFiles" /\ k # "storj" /\ ~(k = "s3c" /\ c.a = "snapshots")

LEMMA HearsNoError == Hears(NoError)
<1>1. "ok" \in Answers /\ "more" \in Answers /\ Errors \subseteq Answers  BY DEF Answers, Errors
<1>2. NoError["ok"] = "next" /\ NoError["more"] = "stay"  BY <1>1 DEF NoError
<1>3. ASSUME NEW x \in Errors PROVE NoError[x] = "fail"
  <2>1. x # "ok" /\ x # "more" /\ x \in Answers  BY <1>1 DEF Errors
  <2>2. NoError[x] = CASE x = "ok" -> "next" [] x = "more" -> "stay" [] OTHER -> "fail"  BY <2>1, Zenon DEF NoError
  <2> QED  BY <2>1, <2>2
<1> QED  BY <1>2, <1>3 DEF Hears, Quiet

LEMMA HearsOn ==
    ASSUME NEW on, Hears(on), NEW set, "ok" \notin set, "more" \notin set, NEW then \in Quiet
    PROVE  Hears(On(on, set, then))
<1>1. \A x \in Answers : On(on, set, then)[x] = IF x \in set THEN then ELSE on[x]  BY DEF On
<1>2. "ok" \in Answers /\ "more" \in Answers /\ Errors \subseteq Answers  BY DEF Answers, Errors
<1> QED  BY <1>1, <1>2 DEF Hears

LEMMA AlwaysFails == \A x \in Answers : Always("fail")[x] = "fail"
BY DEF Always

LEMMA ListStepOn ==
    ASSUME NEW k, NEW v \in {"pages", "readdir", "statdir", "idsaved", "parse"}, NEW a, NEW b, NEW on, Hears(on), NEW n
    PROVE  /\ ListStep(k, Step(v, a, b, on, n)) /\ Step(v, a, b, on, n).verb = v /\ Step(v, a, b, on, n).a = a
           /\ Step(v, a, b, on, n).on = on /\ Spends(Step(v, a, b, on, n))
<1>1. /\ Step(v, a, b, on, n).verb = v /\ Step(v, a, b, on, n).a = a /\ Step(v, a, b, on, n).on = on
      /\ Step(v, a, b, on, n).spent = Always("fail")
  BY DEF Step
<1>2. Spends(Step(v, a, b, on, n))  BY <1>1, AlwaysFails DEF Spends
<1> QED  BY <1>1, <1>2 DEF ListStep, Hears, Quiet

(* A step of which some answers are treated differently. *)
LEMMA ListStepWhere ==
    ASSUME NEW k, NEW s \in AllSteps, ListStep(k, s), NEW set, "ok" \notin set, "more" \notin set, NEW then,
           then \in Quiet \/ (then = "return" /\ set = {"nodir"} /\ s.verb \in {"readdir", "statdir"} /\ k \in DirKinds)
    PROVE  ListStep(k, Where(s, set, then)) /\ Where(s, set, then).verb = s.verb /\ Where(s, set, then).a = s.a
<1> DEFINE w == Where(s, set, then)
<1>1. w.verb = s.verb /\ w.a = s.a /\ w.spent = s.spent /\ w.on = On(s.on, set, then)  BY DEF Where, AllSteps
<1>2. \A x \in Answers : w.on[x] = IF x \in set THEN then ELSE s.on[x]  BY <1>1 DEF On
<1>3. "ok" \in Answers /\ "more" \in Answers /\ Errors \subseteq Answers  BY DEF Answers, Errors
<1> HIDE DEF w
<1>4. w.on["ok"] = "next" /\ w.on["more"] = "stay"  BY <1>2, <1>3 DEF ListStep
<1>5. ASSUME NEW x \in Errors
      PROVE  /\ w.on[x] \in Quiet \cup {"return", "restart"}
             /\ w.on[x] = "restart" => w.verb = "parse"
             /\ w.on[x] = "return" => x = "nodir" /\ w.verb \in {"readdir", "statdir"} /\ k \in DirKinds
  <2>1. CASE x \in set
    <3>1. w.on[x] = then  BY <1>2, <1>3, <2>1
    <3> QED  BY <1>1, <2>1, <3>1 DEF Quiet
  <2>2. CASE x \notin set
    <3>1. w.on[x] = s.on[x]  BY <1>2, <1>3, <2>2
    <3>2. /\ s.on[x] \in Quiet \cup {"return", "restart"}
          /\ s.on[x] = "restart" => s.verb = "parse"
          /\ s.on[x] = "return" => x = "nodir" /\ s.verb \in {"readdir", "statdir"} /\ k \in DirKinds
      BY DEF ListStep
    <3> QED  BY <1>1, <3>1, <3>2
  <2> QED  BY <2>1, <2>2
<1>6. Spends(w)  BY <1>1 DEF ListStep, Spends
<1>7. ListStep(k, w)  BY <1>1, <1>4, <1>5, <1>6 DEF ListStep
<1> QED  BY <1>1, <1>7 DEF w

LEMMA ListStepNoDir ==
    ASSUME NEW k \in DirKinds, NEW s \in AllSteps, ListStep(k, s), s.verb \in {"readdir", "statdir"}
    PROVE  /\ ListStep(k, Where(s, {"nodir"}, "return")) /\ Where(s, {"nodir"}, "return").verb = s.verb
           /\ Where(s, {"nodir"}, "return").a = s.a
<1> DEFINE set == {"nodir"}
           then == "return"
<1>1. "ok" \notin set /\ "more" \notin set  OBVIOUS
<1>2. then = "return" /\ set = {"nodir"} /\ s.verb \in {"readdir", "statdir"} /\ k \in DirKinds  OBVIOUS
<1> HIDE DEF set, then
<1>3. ListStep(k, Where(s, set, then)) /\ Where(s, set, then).verb = s.verb /\ Where(s, set, then).a = s.a
  BY <1>1, <1>2, ListStepWhere
<1> QED  BY <1>3 DEF set, then

LEMMA SimpleList ==
    ASSUME NEW k, NEW s, ListStep(k, s), s.verb \in {"pages", "readdir"}, NEW dir \in Listings, s.a = dir
    PROVE  GoodList(k, <<s>>, dir)
<1>1. Len(<<s>>) = 1 /\ <<s>>[1] = s  OBVIOUS
<1>2. 1 \in 1 .. Len(<<s>>)  BY <1>1
<1>3. ASSUME NEW i \in 1 .. Len(<<s>>) PROVE <<s>>[i] = s  BY <1>1
<1> DEFINE p == <<s>>
<1> HIDE DEF p
<1>4. \A i \in 1 .. Len(p) : p[i] = s  BY <1>3 DEF p
<1>5. 1 \in 1 .. Len(p) /\ Len(p) = 1  BY <1>1, <1>2 DEF p
<1>6. GoodList(k, p, dir)  BY <1>4, <1>5 DEF GoodList
<1> QED  BY <1>6 DEF p

LEMMA NamesAre ==
    /\ NamesIn("chunks") = {"a", "chunk", "fossil"} /\ NamesIn("live") = {"a", "chunk"} /\ NamesIn("fossils") = {"fossil"}
    /\ NamesIn("snapshots") = {"a", "s"}
<1>1. NamesIn("chunks") = {"a", "chunk", "fossil"}
  <2>1. Listable("chunks") = <<"a", "chunk", "fossil">>  BY DEF Listable
  <2>2. DOMAIN <<"a", "chunk", "fossil">> = {1, 2, 3}  OBVIOUS
  <2> QED  BY <2>1, <2>2 DEF NamesIn
<1>2. NamesIn("live") = {"a", "chunk"}
  <2>1. Listable("live") = <<"a", "chunk">>  BY DEF Listable
  <2>2. DOMAIN <<"a", "chunk">> = {1, 2}  OBVIOUS
  <2> QED  BY <2>1, <2>2 DEF NamesIn
<1>3. NamesIn("fossils") = {"fossil"}
  <2>1. Listable("fossils") = <<"fossil">>  BY DEF Listable
  <2>2. DOMAIN <<"fossil">> = {1}  OBVIOUS
  <2> QED  BY <2>1, <2>2 DEF NamesIn
<1>4. NamesIn("snapshots") = {"a", "s"}
  <2>1. Listable("snapshots") = <<"a", "s">>  BY DEF Listable
  <2>2. DOMAIN <<"a", "s">> = {1, 2}  OBVIOUS
  <2> QED  BY <2>1, <2>2 DEF NamesIn
<1> QED  BY <1>1, <1>2, <1>3, <1>4

(* Steps put together. *)
LEMMA OneMore ==
    ASSUME NEW S, NEW p \in Seq(S), NEW v \in S, NEW q \in Seq(S), Len(q) = Len(p) + 1,
           \A i \in 1 .. Len(p) : q[i] = p[i], q[Len(p) + 1] = v
    PROVE  p \o <<v>> = q
<1> DEFINE e == <<v>>
<1>1. e \in Seq(S) /\ Len(e) = 1 /\ e[1] = v  OBVIOUS
<1> HIDE DEF e
<1>2. p \o e \in Seq(S) /\ Len(p \o e) = Len(p) + Len(e)
      /\ \A i \in 1 .. Len(p) + Len(e) : (p \o e)[i] = IF i <= Len(p) THEN p[i] ELSE e[i - Len(p)]
  BY <1>1, ConcatProperties
<1>3. Len(p) \in Nat  OBVIOUS
<1>4. ASSUME NEW i \in 1 .. Len(p) + 1 PROVE (p \o e)[i] = q[i]
  <2>1. CASE i <= Len(p)  BY <1>1, <1>2, <1>3, <2>1
  <2>2. CASE ~(i <= Len(p))
    <3>1. i = Len(p) + 1 /\ i - Len(p) = 1  BY <1>3, <2>2
    <3>2. (p \o e)[i] = e[i - Len(p)]  BY <1>1, <1>2, <2>2
    <3> QED  BY <1>1, <3>1, <3>2
  <2> QED  BY <2>1, <2>2
<1>5. p \o e = q
  <2> DEFINE r == p \o e
  <2>1. r \in Seq(S) /\ Len(r) = Len(q) /\ \A i \in 1 .. Len(r) : r[i] = q[i]  BY <1>1, <1>2, <1>4
  <2> HIDE DEF r
  <2>2. r = q  BY <2>1, SeqEqual
  <2> QED  BY <2>2 DEF r
<1> QED  BY <1>5 DEF e

LEMMA JoinTwo == ASSUME NEW x, NEW y PROVE <<x>> \o <<y>> = <<x, y>>
<1> DEFINE S == {x, y}
           p == <<x>>
           q == <<x, y>>
<1>1. p \in Seq(S) /\ Len(p) = 1 /\ p[1] = x /\ q \in Seq(S) /\ Len(q) = 2 /\ q[1] = x /\ q[2] = y /\ y \in S  OBVIOUS
<1> HIDE DEF p, q, S
<1>2. \A i \in 1 .. Len(p) : q[i] = p[i]  BY <1>1
<1>3. Len(q) = Len(p) + 1 /\ q[Len(p) + 1] = y  BY <1>1
<1>4. p \o <<y>> = q  BY <1>1, <1>2, <1>3, OneMore
<1> QED  BY <1>4 DEF p, q

LEMMA JoinThree == ASSUME NEW x, NEW y, NEW z PROVE <<x>> \o <<y>> \o <<z>> = <<x, y, z>>
<1> DEFINE S == {x, y, z}
           p == <<x, y>>
           q == <<x, y, z>>
<1>1. /\ p \in Seq(S) /\ Len(p) = 2 /\ p[1] = x /\ p[2] = y
      /\ q \in Seq(S) /\ Len(q) = 3 /\ q[1] = x /\ q[2] = y /\ q[3] = z /\ z \in S
  OBVIOUS
<1>2. <<x>> \o <<y>> = p  BY JoinTwo
<1> HIDE DEF p, q, S
<1>3. \A i \in 1 .. Len(p) : i = 1 \/ i = 2  BY <1>1
<1>4. \A i \in 1 .. Len(p) : q[i] = p[i]  BY <1>1, <1>3
<1>5. Len(q) = Len(p) + 1 /\ q[Len(p) + 1] = z  BY <1>1
<1>6. p \o <<z>> = q  BY <1>1, <1>4, <1>5, OneMore
<1> QED  BY <1>2, <1>6 DEF q

LEMMA JoinFour == ASSUME NEW x, NEW y, NEW z, NEW w PROVE <<x, y, z>> \o <<w>> = <<x, y, z, w>>
<1> DEFINE S == {x, y, z, w}
           p == <<x, y, z>>
           q == <<x, y, z, w>>
<1>1. /\ p \in Seq(S) /\ Len(p) = 3 /\ p[1] = x /\ p[2] = y /\ p[3] = z
      /\ q \in Seq(S) /\ Len(q) = 4 /\ q[1] = x /\ q[2] = y /\ q[3] = z /\ q[4] = w /\ w \in S
  OBVIOUS
<1> HIDE DEF p, q, S
<1>2. \A i \in 1 .. Len(p) : i = 1 \/ i = 2 \/ i = 3  BY <1>1
<1>3. \A i \in 1 .. Len(p) : q[i] = p[i]  BY <1>1, <1>2
<1>4. Len(q) = Len(p) + 1 /\ q[Len(p) + 1] = w  BY <1>1
<1>5. p \o <<w>> = q  BY <1>1, <1>3, <1>4, OneMore
<1> QED  BY <1>5 DEF p, q

LEMMA TwoSteps ==
    ASSUME NEW s, NEW t
    PROVE  LET p == <<s, t>> IN Len(p) = 2 /\ p[1] = s /\ p[2] = t /\ \A i \in 1 .. Len(p) : i = 1 \/ i = 2
OBVIOUS

LEMMA ThreeSteps ==
    ASSUME NEW s, NEW t, NEW u
    PROVE  LET p == <<s, t, u>> IN Len(p) = 3 /\ p[1] = s /\ p[2] = t /\ p[3] = u /\ \A i \in 1 .. Len(p) : i = 1 \/ i = 2 \/ i = 3
OBVIOUS

(* The chunks first, then the fossils. *)
LEMMA BothDirectories ==
    ASSUME NEW k, NEW s, ListStep(k, s), s.verb = "pages", s.a = "live", NEW t, ListStep(k, t), t.verb = "pages", t.a = "fossils"
    PROVE  /\ GoodList(k, <<s, t>>, "chunks")
           /\ \A r : ListStep(k, r) /\ r.verb = "idsaved" => GoodList(k, <<r, s, t>>, "chunks")
<1>1. "live" \in Listings /\ "fossils" \in Listings  BY DEF Listings
<1>2. NamesIn("chunks") = NamesIn(s.a) \cup NamesIn(t.a)  BY NamesAre
<1>3. GoodList(k, <<s, t>>, "chunks")
  <2> DEFINE p == <<s, t>>
  <2>1. Len(p) = 2 /\ p[1] = s /\ p[2] = t /\ \A i \in 1 .. Len(p) : i = 1 \/ i = 2  BY TwoSteps
  <2> HIDE DEF p
  <2>2. 1 \in 1 .. Len(p) /\ 2 \in 1 .. Len(p) /\ Len(p) >= 1  BY <2>1
  <2>3. GoodList(k, p, "chunks")  BY <1>1, <1>2, <2>1, <2>2 DEF GoodList
  <2> QED  BY <2>3 DEF p
<1>4. ASSUME NEW r, ListStep(k, r), r.verb = "idsaved" PROVE GoodList(k, <<r, s, t>>, "chunks")
  <2> DEFINE p == <<r, s, t>>
  <2>1. Len(p) = 3 /\ p[1] = r /\ p[2] = s /\ p[3] = t /\ \A i \in 1 .. Len(p) : i = 1 \/ i = 2 \/ i = 3  BY ThreeSteps
  <2> HIDE DEF p
  <2>2. 1 \in 1 .. Len(p) /\ 2 \in 1 .. Len(p) /\ 3 \in 1 .. Len(p) /\ Len(p) >= 1  BY <2>1
  <2>3. GoodList(k, p, "chunks")  BY <1>1, <1>2, <1>4, <2>1, <2>2 DEF GoodList
  <2> QED  BY <2>3 DEF p
<1> QED  BY <1>3, <1>4

(* A step before the listing, or after it. *)
LEMMA ListAndStep ==
    ASSUME NEW k, NEW dir \in Listings, NEW s, ListStep(k, s), s.a = dir, NEW r, ListStep(k, r)
    PROVE  /\ s.verb = "readdir" /\ r.verb = "parse" => GoodList(k, <<s, r>>, dir)
           /\ s.verb = "pages" /\ r.verb = "statdir" /\ r.a = (IF dir = "chunks" THEN "dir" ELSE "root") => GoodList(k, <<r, s>>, dir)
<1>1. ASSUME s.verb = "readdir", r.verb = "parse" PROVE GoodList(k, <<s, r>>, dir)
  <2> DEFINE p == <<s, r>>
  <2>1. Len(p) = 2 /\ p[1] = s /\ p[2] = r /\ \A i \in 1 .. Len(p) : i = 1 \/ i = 2  BY TwoSteps
  <2> HIDE DEF p
  <2>2. 1 \in 1 .. Len(p) /\ Len(p) >= 1  BY <2>1
  <2>3. GoodList(k, p, dir)  BY <1>1, <2>1, <2>2 DEF GoodList
  <2> QED  BY <2>3 DEF p
<1>2. ASSUME s.verb = "pages", r.verb = "statdir", r.a = (IF dir = "chunks" THEN "dir" ELSE "root")
      PROVE  GoodList(k, <<r, s>>, dir)
  <2> DEFINE p == <<r, s>>
  <2>1. Len(p) = 2 /\ p[1] = r /\ p[2] = s /\ \A i \in 1 .. Len(p) : i = 1 \/ i = 2  BY TwoSteps
  <2> HIDE DEF p
  <2>2. 2 \in 1 .. Len(p) /\ Len(p) >= 1  BY <2>1
  <2>3. GoodList(k, p, dir)  BY <1>2, <2>1, <2>2 DEF GoodList
  <2> QED  BY <2>3 DEF p
<1> QED  BY <1>1, <1>2

(* A request for the pages of a directory. *)
Pages(k, s, dir) == ListStep(k, s) /\ s.verb = "pages" /\ s.a = dir

LEMMA PagesSteps ==
    ASSUME NEW k, NEW dir
    PROVE  /\ Pages(k, Ask("pages", dir), dir) /\ Pages(k, HubicCall("pages", dir, dir), dir)
           /\ Pages(k, OneCall("pages", dir, dir), dir) /\ Pages(k, ACDCall("pages", dir, dir), dir)
           /\ Pages(k, GCDshouldRetry("pages", dir, dir), dir)
<1>1. Hears(NoError)  BY HearsNoError
<1>2. Hears(On(On(NoError, {"busy", "drop"}, "again"), {"expired"}, "login"))
  <2>1. Hears(On(NoError, {"busy", "drop"}, "again"))  BY <1>1, HearsOn DEF Quiet
  <2> QED  BY <2>1, HearsOn DEF Quiet
<1>3. Hears(On(On(NoError, {"busy", "throttled", "denied", "drop"}, "again"), {"expired"}, "login"))
  <2>1. Hears(On(NoError, {"busy", "throttled", "denied", "drop"}, "again"))  BY <1>1, HearsOn DEF Quiet
  <2> QED  BY <2>1, HearsOn DEF Quiet
<1>4. Hears(On(On(NoError, {"throttled"}, "again"), {"expired"}, "login"))
  <2>1. Hears(On(NoError, {"throttled"}, "again"))  BY <1>1, HearsOn DEF Quiet
  <2> QED  BY <2>1, HearsOn DEF Quiet
<1>5. Hears(On(NoError, {"busy", "throttled", "denied", "expired", "drop"}, "again"))
  BY <1>1, HearsOn DEF Quiet
<1>6. ASSUME NEW on, Hears(on), NEW n PROVE Pages(k, Step("pages", dir, dir, on, n), dir)
  BY <1>6, ListStepOn DEF Pages
<1>7. Pages(k, Ask("pages", dir), dir)  BY <1>1, <1>6 DEF Ask
<1>8. Pages(k, HubicCall("pages", dir, dir), dir)  BY <1>2, <1>6 DEF HubicCall
<1>9. Pages(k, OneCall("pages", dir, dir), dir)  BY <1>3, <1>6 DEF OneCall
<1>10. Pages(k, ACDCall("pages", dir, dir), dir)  BY <1>4, <1>6 DEF ACDCall
<1>11. Pages(k, GCDshouldRetry("pages", dir, dir), dir)  BY <1>5, <1>6 DEF GCDshouldRetry
<1> QED  BY <1>7, <1>8, <1>9, <1>10, <1>11

(* File Fabric and B2. *)
LEMMA FFPages ==
    ASSUME NEW k, NEW v \in {"pages", "statdir"}, NEW a, NEW b
    PROVE  ListStep(k, FFsendRequest(v, a, b)) /\ FFsendRequest(v, a, b).verb = v /\ FFsendRequest(v, a, b).a = a
<1> DEFINE on == On(NoError, {"busy", "throttled", "denied", "expired", "drop"}, "again")
           t == Step(v, a, b, on, 12)
           sp == [x \in Answers |-> IF x = "drop" THEN "fail" ELSE "panic"]
           s == FFsendRequest(v, a, b)
<1>1. Hears(on)  BY HearsNoError, HearsOn DEF Quiet
<1>2. s.verb = v /\ s.a = a /\ s.on = on /\ s.spent = sp  BY DEF FFsendRequest, Step
<1>3. \A x \in Answers : sp[x] \in {"fail", "panic"}  OBVIOUS
<1> HIDE DEF on, t, sp, s
<1>4. Spends(s)  BY <1>2, <1>3 DEF Spends
<1>5. ListStep(k, s)  BY <1>1, <1>2, <1>4 DEF ListStep, Hears, Quiet
<1> QED  BY <1>2, <1>5 DEF s

LEMMA B2Pages == ASSUME NEW k, NEW a PROVE Pages(k, B2call("pages", a), a)
<1> DEFINE on == [x \in Answers |->
                     CASE x \in {"ok", "more"} -> NoError[x]
                       [] x = "expired"        -> "login"
                       [] x = "denied"         -> "fail"
                       [] x = "notfound"       -> "again"
                       [] x \in DOMAIN B2retry \ {"times"} -> B2retry[x]
                       [] OTHER                -> "again"]
           s == B2call("pages", a)
<1>1. "ok" \in Answers /\ "more" \in Answers /\ Errors \subseteq Answers /\ "ok" \notin Errors /\ "more" \notin Errors
  BY DEF Answers, Errors
<1>2. NoError["ok"] = "next" /\ NoError["more"] = "stay"  BY HearsNoError DEF Hears
<1>3. on["ok"] = "next" /\ on["more"] = "stay"
  <2>1. ASSUME NEW x \in {"ok", "more"} PROVE on[x] = NoError[x]
    <3> DEFINE r == DOMAIN B2retry \ {"times"}
    <3>1. x \notin r /\ x \in Answers /\ x # "expired" /\ x # "denied" /\ x # "notfound"  BY DEF B2retry, Answers
    <3>2. on[x] = CASE x \in {"ok", "more"} -> NoError[x]
                    [] x = "expired"        -> "login"
                    [] x = "denied"         -> "fail"
                    [] x = "notfound"       -> "again"
                    [] x \in r              -> B2retry[x]
                    [] OTHER                -> "again"
      BY <3>1
    <3> HIDE DEF r, on
    <3> QED  BY <3>1, <3>2
  <2> HIDE DEF on
  <2> QED  BY <1>2, <2>1
<1>4. ASSUME NEW x \in Errors PROVE on[x] \in Quiet
  <2>1. x \in Answers /\ x \notin {"ok", "more"}  BY <1>1
  <2>2. \A y \in DOMAIN B2retry \ {"times"} : B2retry[y] \in {"again", "reset"}  BY DEF B2retry
  <2> QED  BY <2>1, <2>2 DEF Quiet
<1>5. s = Step("pages", a, a, on, B2retry.times)  BY DEF B2call
<1>6. Hears(on)  BY <1>3, <1>4 DEF Hears
<1> HIDE DEF on, s
<1> QED  BY <1>5, <1>6, ListStepOn DEF Pages, s

LEMMA FileLists ==
    ASSUME NEW k \in DirKinds, NEW dir \in Listings
    PROVE  GoodList(k, <<Where(Ask("readdir", dir), {"nodir"}, "return")>>, dir)
<1> DEFINE s == Ask("readdir", dir)
           w == Where(s, {"nodir"}, "return")
<1>1. s \in AllSteps
  <2>1. "chunk" \in Paths  BY DEF Paths
  <2> QED  BY <2>1, PlainSteps DEF MildSteps
<1>2. ListStep(k, s) /\ s.verb = "readdir" /\ s.a = dir  BY HearsNoError, ListStepOn DEF Ask
<1> HIDE DEF s
<1>3. ListStep(k, w) /\ w.verb = "readdir" /\ w.a = dir  BY <1>1, <1>2, ListStepNoDir
<1> HIDE DEF w
<1>4. GoodList(k, <<w>>, dir)  BY <1>3, SimpleList
<1> QED  BY <1>4 DEF w, s

LEMMA SFTPLists ==
    ASSUME NEW k, NEW dir \in Listings
    PROVE  GoodList(k, SFTPListFiles(dir), dir)
<1> DEFINE s == Ask("readdir", dir)
           w == Where(s, {"drop"}, "again")
           u == SFTPRetry(s)
<1>1. s \in MildSteps
  <2>1. "chunk" \in Paths  BY DEF Paths
  <2> QED  BY <2>1, PlainSteps
<1>2. ListStep(k, s) /\ s.verb = "readdir" /\ s.a = dir  BY HearsNoError, ListStepOn DEF Ask
<1> HIDE DEF s
<1>3. w \in MildSteps  BY <1>1, MildWhere DEF Treatments
<1>4. s \in AllSteps  BY <1>1 DEF MildSteps
<1>5. ListStep(k, w) /\ w.verb = "readdir" /\ w.a = dir  BY <1>2, <1>4, ListStepWhere DEF Quiet
<1>6. u = [w EXCEPT !.tries = 8]  BY DEF SFTPRetry
<1> HIDE DEF w, u
<1>7. u.verb = w.verb /\ u.a = w.a /\ u.on = w.on /\ u.spent = w.spent  BY <1>3, <1>6 DEF MildSteps, AllSteps
<1>8. ListStep(k, u) /\ u.verb = "readdir" /\ u.a = dir  BY <1>5, <1>7, Zenon DEF ListStep, Spends
<1>9. GoodList(k, <<u>>, dir)  BY <1>8, SimpleList
<1> QED  BY <1>9 DEF SFTPListFiles, u, s

LEMMA WebDAVLists ==
    ASSUME NEW k, NEW dir \in Listings
    PROVE  GoodList(k, WebDAVListFiles(dir), dir)
<1> DEFINE s == WebDAVsendRequest("readdir", dir, dir)
           on == On(NoError, {"drop"}, "restart")
           r == Step("parse", dir, dir, on, 3)
           busy == On(NoError, Errors, "again")
           final == {"exists"} \cup {"notfound"}
<1>1. Hears(busy)
  <2>1. "ok" \notin Errors /\ "more" \notin Errors  BY DEF Errors
  <2> QED  BY <2>1, HearsNoError, HearsOn DEF Quiet
<1>2. "ok" \notin final /\ "more" \notin final  OBVIOUS
<1>3. s = Step("readdir", dir, dir, On(busy, final, "fail"), 7)  BY DEF WebDAVsendRequest
<1> HIDE DEF busy, final
<1>4. Hears(On(busy, final, "fail"))  BY <1>1, <1>2, HearsOn DEF Quiet
<1>5. ListStep(k, s) /\ s.verb = "readdir" /\ s.a = dir  BY <1>3, <1>4, ListStepOn
<1>6. r.verb = "parse" /\ r.on = on /\ r.spent = Always("fail")  BY DEF Step
<1>7. on["ok"] = "next" /\ on["more"] = "stay" /\ \A x \in Errors : on[x] \in Quiet \cup {"restart"}
  <2>1. "ok" \in Answers /\ "more" \in Answers /\ Errors \subseteq Answers  BY DEF Answers, Errors
  <2>2. \A x \in Answers : on[x] = IF x \in {"drop"} THEN "restart" ELSE NoError[x]  BY DEF On
  <2> HIDE DEF on
  <2> QED  BY <2>1, <2>2, HearsNoError DEF Hears
<1> HIDE DEF on, s, r
<1>8. Spends(r)  BY <1>6, AlwaysFails DEF Spends
<1>9. \A x \in Errors : on[x] # "return"  BY <1>7 DEF Quiet
<1>10. ListStep(k, r)  BY <1>6, <1>7, <1>8, <1>9 DEF ListStep
<1>11. GoodList(k, <<s, r>>, dir)  BY <1>5, <1>6, <1>10, ListAndStep
<1> QED  BY <1>11 DEF WebDAVListFiles, WebDAVgetProperties, s, r, on

LEMMA FFLists ==
    ASSUME NEW dir \in Listings
    PROVE  GoodList("filefabric", FFListFiles(dir), dir)
<1> DEFINE d == IF dir = "chunks" THEN "dir" ELSE "root"
           s == FFsendRequest("statdir", d, dir)
           w == Where(s, {"nodir"}, "return")
           u == FFsendRequest("pages", dir, dir)
<1>1. d \in Asked /\ dir \in Asked /\ "statdir" \in MildVerbs /\ Mild("statdir", d)
  BY DEF Asked, MildVerbs, Mild, Copying, Listings
<1>2. s \in AllSteps  BY <1>1, FFCalls DEF MildSteps
<1>3. ListStep("filefabric", s) /\ s.verb = "statdir" /\ s.a = d  BY FFPages
<1>4. ListStep("filefabric", u) /\ u.verb = "pages" /\ u.a = dir  BY FFPages
<1> HIDE DEF s, u, d
<1>5. ListStep("filefabric", w) /\ w.verb = "statdir" /\ w.a = d  BY <1>2, <1>3, ListStepNoDir DEF DirKinds
<1> HIDE DEF w
<1>6. GoodList("filefabric", <<w, u>>, dir)  BY <1>4, <1>5, ListAndStep DEF d
<1> QED  BY <1>6 DEF FFListFiles, w, s, u, d

(* The backends that list the chunks and then the fossils. *)
LEMMA IdLists ==
    ASSUME NEW k, NEW dir \in {"chunks", "snapshots"}
    PROVE  GoodList(k, OneListFiles(dir), dir) /\ GoodList(k, ACDListFiles(dir), dir) /\ GoodList(k, GCDListFiles(dir), dir)
<1> DEFINE O(d) == OneCall("pages", d, d)
           A(d) == ACDCall("pages", d, d)
           G(d) == GCDshouldRetry("pages", d, d)
           i == Where(Ask("idsaved", "dir"), {"notfound"}, "hang")
<1>1. \A d : Pages(k, O(d), d) /\ Pages(k, A(d), d) /\ Pages(k, G(d), d)  BY PagesSteps
<1>2. ListStep(k, i) /\ i.verb = "idsaved"
  <2> DEFINE s == Ask("idsaved", "dir")
  <2>1. s \in AllSteps
    <3>1. "idsaved" \in MildVerbs /\ "dir" \in Asked /\ Mild("idsaved", "dir")  BY DEF MildVerbs, Asked, Mild, Copying
    <3> QED  BY <3>1, MildAsk DEF MildSteps
  <2>2. ListStep(k, s) /\ s.verb = "idsaved"  BY HearsNoError, ListStepOn DEF Ask
  <2> HIDE DEF s
  <2>3. "ok" \notin {"notfound"} /\ "more" \notin {"notfound"} /\ "hang" \in Quiet  BY DEF Quiet
  <2>4. ListStep(k, Where(s, {"notfound"}, "hang")) /\ Where(s, {"notfound"}, "hang").verb = "idsaved"
    <3> DEFINE set == {"notfound"}
    <3>1. "ok" \notin set /\ "more" \notin set  BY <2>3
    <3> HIDE DEF set
    <3>2. ListStep(k, Where(s, set, "hang")) /\ Where(s, set, "hang").verb = s.verb  BY <2>1, <2>2, <2>3, <3>1, ListStepWhere
    <3> QED  BY <2>2, <3>2 DEF set
  <2> QED  BY <2>4 DEF s
<1> HIDE DEF i
<1>3. CASE dir = "snapshots"
  <2>1. OneListFiles(dir) = <<O(dir)>> /\ ACDListFiles(dir) = <<A(dir)>> /\ GCDListFiles(dir) = <<G(dir)>>
    BY <1>3 DEF OneListFiles, OneListEntries, ACDListFiles, ACDListEntries, GCDListFiles, GCDlistFiles
  <2> HIDE DEF O, A, G
  <2>2. dir \in Listings  BY DEF Listings
  <2> QED  BY <1>1, <2>1, <2>2, SimpleList DEF Pages
<1>4. CASE dir = "chunks"
  <2>1. /\ OneListFiles(dir) = <<O("live"), O("fossils")>> /\ ACDListFiles(dir) = <<A("live"), A("fossils")>>
        /\ GCDListFiles(dir) = <<i, G("live"), G("fossils")>>
    <3>1. OneListFiles(dir) = <<O("live")>> \o <<O("fossils")>>  BY <1>4, Zenon DEF OneListFiles, OneListEntries
    <3>2. ACDListFiles(dir) = <<A("live")>> \o <<A("fossils")>>  BY <1>4, Zenon DEF ACDListFiles, ACDListEntries
    <3>3. GCDListFiles(dir) = <<i>> \o <<G("live")>> \o <<G("fossils")>>  BY <1>4, Zenon DEF GCDListFiles, GCDlistFiles, i
    <3> HIDE DEF O, A, G
    <3> QED  BY <3>1, <3>2, <3>3, JoinTwo, JoinThree, Zenon
  <2> HIDE DEF O, A, G
  <2>2. ASSUME NEW s, NEW t, Pages(k, s, "live"), Pages(k, t, "fossils")
        PROVE  GoodList(k, <<s, t>>, "chunks") /\ GoodList(k, <<i, s, t>>, "chunks")
    BY <1>2, <2>2, BothDirectories DEF Pages
  <2>3. GoodList(k, OneListFiles(dir), dir)  BY <1>1, <1>4, <2>1, <2>2
  <2>4. GoodList(k, ACDListFiles(dir), dir)  BY <1>1, <1>4, <2>1, <2>2
  <2>5. GoodList(k, GCDListFiles(dir), dir)  BY <1>1, <1>4, <2>1, <2>2
  <2> QED  BY <2>3, <2>4, <2>5
<1> QED  BY <1>3, <1>4

LEMMA GoodLists ==
    ASSUME NEW k \in Backends, NEW c, GoodCall(c), Promises(k, c)
    PROVE  GoodList(k, Program(k, c), c.a)
<1> DEFINE dir == c.a
<1>1. c.op = "ListFiles" /\ dir \in {"chunks", "snapshots"} /\ dir \in Listings  BY DEF GoodCall, Promises, Listings
<1>2. \A l, d, m, i, g, u, n : Methods(c, l, d, m, i, g, u, n) = l  BY <1>1 DEF Methods
<1>3. GoodList(k, <<Ask("pages", dir)>>, dir)
  <2>1. Pages(k, Ask("pages", dir), dir)  BY PagesSteps
  <2> QED  BY <1>1, <2>1, SimpleList DEF Pages
<1>4. CASE k \in {"s3", "wasabi", "azure", "gcs", "dropbox", "swift"}
  <2>1. Program(k, c) = <<Ask("pages", dir)>>
    <3>1. CASE k = "s3"  BY <1>2, <3>1 DEF Program, S3ListFiles
    <3>2. CASE k = "wasabi"
      <4>1. Program(k, c) = WasabiListFiles(dir)  BY <1>2, <3>2 DEF Program
      <4> QED  BY <4>1 DEF WasabiListFiles, S3ListFiles
    <3>3. CASE k = "azure"  BY <1>2, <3>3 DEF Program, AzureListFiles
    <3>4. CASE k = "gcs"  BY <1>2, <3>4 DEF Program, GCSListFiles
    <3>5. CASE k = "dropbox"  BY <1>2, <3>5 DEF Program, DropboxListFiles
    <3>6. CASE k = "swift"  BY <1>2, <3>6 DEF Program, SwiftListFiles
    <3> QED  BY <1>4, <3>1, <3>2, <3>3, <3>4, <3>5, <3>6
  <2> QED  BY <1>3, <2>1
<1>5. CASE k = "s3c"
  <2>1. dir = "chunks"  BY <1>1, <1>5 DEF Promises
  <2>2. Program(k, c) = <<Ask("pages", dir)>>  BY <1>2, <1>5, <2>1 DEF Program, S3CListFiles
  <2> QED  BY <1>3, <2>2
<1>6. CASE k = "hubic"
  <2>1. Program(k, c) = <<HubicCall("pages", dir, dir)>>  BY <1>2, <1>6 DEF Program, HubicListFiles, HubicListEntries
  <2>2. Pages(k, HubicCall("pages", dir, dir), dir)  BY PagesSteps
  <2> QED  BY <1>1, <2>1, <2>2, SimpleList DEF Pages
<1>7. CASE k \in {"file", "samba"}
  <2>1. Program(k, c) = <<Where(Ask("readdir", dir), {"nodir"}, "return")>>
    <3>1. CASE k = "file"  BY <1>2, <3>1 DEF Program, FileListFiles
    <3>2. CASE k = "samba"  BY <1>2, <3>2 DEF Program, SambaListFiles
    <3> QED  BY <1>7, <3>1, <3>2
  <2>2. k \in DirKinds  BY <1>7 DEF DirKinds
  <2> QED  BY <1>1, <2>1, <2>2, FileLists
<1>8. CASE k = "sftp"
  <2>1. Program(k, c) = SFTPListFiles(dir)  BY <1>2, <1>8 DEF Program
  <2> QED  BY <1>1, <2>1, SFTPLists
<1>9. CASE k = "webdav"
  <2>1. Program(k, c) = WebDAVListFiles(dir)  BY <1>2, <1>9 DEF Program
  <2> QED  BY <1>1, <2>1, WebDAVLists
<1>10. CASE k = "filefabric"
  <2>1. Program(k, c) = FFListFiles(dir)  BY <1>2, <1>10 DEF Program
  <2> QED  BY <1>1, <1>10, <2>1, FFLists
<1>11. CASE k \in {"onedrive", "business"}
  <2>1. Program(k, c) = OneListFiles(dir)
    <3>1. CASE k = "onedrive"
      <4>1. Program(k, c) = Methods(c, OneListFiles(dir), OneDeleteFile(dir), OneMoveFile(dir, c.b), OneGetFileInfo(dir),
                                    OneDownloadFile(dir), OneUploadFile(dir, FALSE), OneCreateDirectory)
        BY <3>1 DEF Program
      <4> QED  BY <1>1, <4>1, Zenon DEF Methods
    <3>2. CASE k = "business"
      <4>1. Program(k, c) = Methods(c, OneListFiles(dir), OneDeleteFile(dir), OneMoveFile(dir, c.b), OneGetFileInfo(dir),
                                    OneDownloadFile(dir), OneUploadFile(dir, TRUE), OneCreateDirectory)
        BY <3>2 DEF Program
      <4> QED  BY <1>1, <4>1, Zenon DEF Methods
    <3> QED  BY <1>11, <3>1, <3>2
  <2> QED  BY <1>1, <2>1, IdLists
<1>12. CASE k = "acd"
  <2>1. Program(k, c) = ACDListFiles(dir)  BY <1>2, <1>12 DEF Program
  <2> QED  BY <1>1, <2>1, IdLists
<1>13. CASE k = "gcd"
  <2>1. Program(k, c) = GCDListFiles(dir)  BY <1>2, <1>13 DEF Program
  <2> QED  BY <1>1, <2>1, IdLists
<1>14. CASE k = "b2"
  <2>1. Program(k, c) = <<B2call("pages", dir)>>  BY <1>2, <1>14 DEF Program, B2ListFiles, B2ListFileNames
  <2>2. Pages(k, B2call("pages", dir), dir)  BY B2Pages
  <2> QED  BY <1>1, <2>1, <2>2, SimpleList DEF Pages
<1>15. k # "storj"  BY DEF Promises
<1> QED  BY <1>4, <1>5, <1>6, <1>7, <1>8, <1>9, <1>10, <1>11, <1>12, <1>13, <1>14, <1>15 DEF Backends

-----------------------------------------------------------------------------
(* The backends that take a missing directory for an empty one.            *)

(* The requests of these, but for the upload through a temporary file. *)
CarefulVerbs == {"readdir", "pages", "statdir", "stat", "get", "read", "delete", "rename", "move", "mkdir", "mkdirsave",
                 "cached", "lookup", "put"}

Careful(p) == \A i \in 1 .. Len(p) : p[i].verb \in CarefulVerbs

LEMMA CarefulShort ==
    /\ \A s : s.verb \in CarefulVerbs => Careful(<<s>>)
    /\ \A s, t : s.verb \in CarefulVerbs /\ t.verb \in CarefulVerbs => Careful(<<s, t>>)
    /\ \A s, t, u, v : s.verb \in CarefulVerbs /\ t.verb \in CarefulVerbs /\ u.verb \in CarefulVerbs /\ v.verb \in CarefulVerbs
                       => Careful(<<s, t, u, v>>)
<1>1. ASSUME NEW s, s.verb \in CarefulVerbs PROVE Careful(<<s>>)
  <2>1. \A i \in 1 .. Len(<<s>>) : <<s>>[i] = s  OBVIOUS
  <2> QED  BY <1>1, <2>1, Zenon DEF Careful
<1>2. ASSUME NEW s, NEW t, s.verb \in CarefulVerbs, t.verb \in CarefulVerbs PROVE Careful(<<s, t>>)
  <2>1. \A i \in 1 .. Len(<<s, t>>) : <<s, t>>[i] = s \/ <<s, t>>[i] = t  OBVIOUS
  <2> QED  BY <1>2, <2>1, Zenon DEF Careful
<1>3. ASSUME NEW s, NEW t, NEW u, NEW v, s.verb \in CarefulVerbs, t.verb \in CarefulVerbs, u.verb \in CarefulVerbs,
             v.verb \in CarefulVerbs
      PROVE  Careful(<<s, t, u, v>>)
  <2>1. \A i \in 1 .. Len(<<s, t, u, v>>) : <<s, t, u, v>>[i] \in {s, t, u, v}  OBVIOUS
  <2> QED  BY <1>3, <2>1, Zenon DEF Careful
<1> QED  BY <1>1, <1>2, <1>3

(* Treating some answers differently is no other request. *)
LEMMA VerbsStay ==
    /\ \A v, a : Ask(v, a).verb = v
    /\ \A v, a, b, on, n : Step(v, a, b, on, n).verb = v
    /\ \A v, a, set, then : Where(Ask(v, a), set, then).verb = v
    /\ \A v, a, b : FFsendRequest(v, a, b).verb = v
    /\ \A v, a, b, set, then : Where(FFsendRequest(v, a, b), set, then).verb = v
    /\ \A v, a, b, x : [FFsendRequest(v, a, b) EXCEPT !.spent = x].verb = v
<1>1. \A v, a : Ask(v, a).verb = v  BY DEF Ask, Step
<1>2. \A v, a, b, on, n : Step(v, a, b, on, n).verb = v  BY DEF Step
<1>3. \A v, a, set, then : Where(Ask(v, a), set, then).verb = v  BY DEF Ask, Step, Where
<1>4. \A v, a, b : FFsendRequest(v, a, b).verb = v  BY DEF FFsendRequest, Step
<1>5. \A v, a, b, set, then : Where(FFsendRequest(v, a, b), set, then).verb = v  BY DEF FFsendRequest, Step, Where
<1>6. \A v, a, b, x : [FFsendRequest(v, a, b) EXCEPT !.spent = x].verb = v  BY DEF FFsendRequest, Step
<1> QED  BY <1>1, <1>2, <1>3, <1>4, <1>5, <1>6

LEMMA FileVerbs ==
    ASSUME NEW a, NEW b, NEW dir
    PROVE  /\ Careful(FileListFiles(dir)) /\ Careful(FileDeleteFile(a)) /\ Careful(FileMoveFile(a, b))
           /\ Careful(FileGetFileInfo(a)) /\ Careful(FileDownloadFile(a)) /\ Careful(FileCreateDirectory)
<1> USE DEF CarefulVerbs
<1>1. Careful(FileListFiles(dir))  BY VerbsStay, CarefulShort DEF FileListFiles
<1>2. Careful(FileDeleteFile(a))  BY VerbsStay, CarefulShort DEF FileDeleteFile
<1>3. Careful(FileMoveFile(a, b))  BY VerbsStay, CarefulShort DEF FileMoveFile
<1>4. Careful(FileGetFileInfo(a))  BY VerbsStay, CarefulShort DEF FileGetFileInfo
<1>5. Careful(FileDownloadFile(a))  BY VerbsStay, CarefulShort DEF FileDownloadFile
<1>6. Careful(FileCreateDirectory)  BY VerbsStay, CarefulShort DEF FileCreateDirectory
<1> QED  BY <1>1, <1>2, <1>3, <1>4, <1>5, <1>6

LEMMA SambaVerbs ==
    ASSUME NEW a, NEW b, NEW dir
    PROVE  /\ Careful(SambaListFiles(dir)) /\ Careful(SambaDeleteFile(a)) /\ Careful(SambaMoveFile(a, b))
           /\ Careful(SambaGetFileInfo(a)) /\ Careful(SambaDownloadFile(a)) /\ Careful(SambaCreateDirectory)
<1> USE DEF CarefulVerbs
<1>1. Careful(SambaListFiles(dir))  BY VerbsStay, CarefulShort DEF SambaListFiles
<1>2. Careful(SambaDeleteFile(a))  BY VerbsStay, CarefulShort DEF SambaDeleteFile
<1>3. Careful(SambaMoveFile(a, b))  BY VerbsStay, CarefulShort DEF SambaMoveFile
<1>4. Careful(SambaGetFileInfo(a))  BY VerbsStay, CarefulShort DEF SambaGetFileInfo
<1>5. Careful(SambaDownloadFile(a))  BY VerbsStay, CarefulShort DEF SambaDownloadFile
<1>6. Careful(SambaCreateDirectory)  BY VerbsStay, CarefulShort DEF SambaCreateDirectory
<1> QED  BY <1>1, <1>2, <1>3, <1>4, <1>5, <1>6

LEMMA FFVerbs ==
    ASSUME NEW a, NEW b, NEW dir
    PROVE  /\ Careful(FFListFiles(dir)) /\ Careful(FFDeleteFile(a)) /\ Careful(FFMoveFile(a, b))
           /\ Careful(FFGetFileInfo(a)) /\ Careful(FFDownloadFile(a)) /\ Careful(FFUploadFile(a)) /\ Careful(FFCreateDirectory)
<1> USE DEF CarefulVerbs
<1> DEFINE look == FFlookup(a)
<1>0. look.verb = "stat"
  <2> DEFINE w == Where(FFgetFileInfo(a), {"notfound"}, "return")
             sp == [w.spent EXCEPT !["drop"] = "return"]
  <2>1. w.verb = "stat" /\ "verb" \in DOMAIN w  BY DEF FFgetFileInfo, FFsendRequest, Step, Where
  <2>2. look = [w EXCEPT !.spent = sp]  BY DEF FFlookup
  <2> HIDE DEF w, sp
  <2>3. look = [x \in DOMAIN w |-> IF x = "spent" THEN sp ELSE w[x]]  BY <2>2
  <2> QED  BY <2>1, <2>3
<1> HIDE DEF look
<1>1. Careful(FFListFiles(dir))  BY VerbsStay, CarefulShort DEF FFListFiles
<1>2. Careful(FFDeleteFile(a))
  <2>1. FFDeleteFile(a) = <<look, FFsendRequest("delete", a, a)>>  BY DEF FFDeleteFile, look
  <2> QED  BY <1>0, <2>1, VerbsStay, CarefulShort
<1>3. Careful(FFMoveFile(a, b))
  <2>1. FFMoveFile(a, b) = <<look, FFsendRequest("move", a, b)>>  BY DEF FFMoveFile, look
  <2> QED  BY <1>0, <2>1, VerbsStay, CarefulShort
<1>4. Careful(FFGetFileInfo(a))  BY VerbsStay, CarefulShort DEF FFGetFileInfo, FFgetFileInfo
<1>5. Careful(FFDownloadFile(a))  BY VerbsStay, CarefulShort DEF FFDownloadFile
<1>6. Careful(FFCreateDirectory)  BY VerbsStay, CarefulShort DEF FFCreateDirectory, FFcreateDirectory
<1>7. Careful(FFUploadFile(a))
  <2> DEFINE s == Where(Where(Ask("cached", "dir"), {"ok"}, "skip2"), {"notfound"}, "next")
             t == Where(Where(FFcreateDirectory, {"ok"}, "skip"), {"exists"}, "next")
             u == FFsendRequest("lookup", "dir", "dir")
             v == [FFsendRequest("put", a, a) EXCEPT !.spent = Always("panic")]
  <2>1. s.verb = "cached"  BY DEF Where, Ask, Step
  <2>2. t.verb = "mkdirsave"  BY DEF Where, FFcreateDirectory, FFsendRequest, Step
  <2>3. u.verb = "lookup" /\ v.verb = "put"  BY VerbsStay
  <2>4. FFUploadFile(a) = <<s, t, u>> \o <<v>>  BY Zenon DEF FFUploadFile, FFcreateParentDirectory
  <2> HIDE DEF s, t, u, v
  <2>5. <<s, t, u>> \o <<v>> = <<s, t, u, v>>  BY JoinFour
  <2> QED  BY <2>1, <2>2, <2>3, <2>4, <2>5, CarefulShort
<1> QED  BY <1>1, <1>2, <1>3, <1>4, <1>5, <1>6, <1>7

LEMMA CarefulPrograms ==
    ASSUME NEW k \in DirKinds, NEW c, GoodCall(c), ~Renames(k, c)
    PROVE  Program(k, c) \in Seq(MildSteps) /\ Careful(Program(k, c))
<1>1. k \in Backends /\ Program(k, c) \in Seq(MildSteps)  BY MildPrograms DEF DirKinds, Backends, Renames, Programs
<1> DEFINE a == c.a
           b == c.b
<1>2. c.op \in Methods7  BY DEF GoodCall
<1>3. CASE k = "file"
  <2>1. Program(k, c) = Methods(c, FileListFiles(a), FileDeleteFile(a), FileMoveFile(a, b), FileGetFileInfo(a),
                                FileDownloadFile(a), FileUploadFile(a), FileCreateDirectory)
    BY <1>3 DEF Program
  <2>2. c.op # "UploadFile"  BY <1>3 DEF Renames
  <2> HIDE DEF a, b
  <2>3. Program(k, c) \in {FileListFiles(a), FileDeleteFile(a), FileMoveFile(a, b), FileGetFileInfo(a), FileDownloadFile(a), FileCreateDirectory}
    BY <1>2, <2>1, <2>2 DEF Methods, Methods7
  <2> QED  BY <1>1, <2>3, FileVerbs
<1>4. CASE k = "samba"
  <2>1. Program(k, c) = Methods(c, SambaListFiles(a), SambaDeleteFile(a), SambaMoveFile(a, b), SambaGetFileInfo(a),
                                SambaDownloadFile(a), SambaUploadFile(a), SambaCreateDirectory)
    BY <1>4 DEF Program
  <2>2. c.op # "UploadFile"  BY <1>4 DEF Renames
  <2> HIDE DEF a, b
  <2>3. Program(k, c) \in {SambaListFiles(a), SambaDeleteFile(a), SambaMoveFile(a, b), SambaGetFileInfo(a), SambaDownloadFile(a), SambaCreateDirectory}
    BY <1>2, <2>1, <2>2 DEF Methods, Methods7
  <2> QED  BY <1>1, <2>3, SambaVerbs
<1>5. CASE k = "filefabric"
  <2>1. Program(k, c) = Methods(c, FFListFiles(a), FFDeleteFile(a), FFMoveFile(a, b), FFGetFileInfo(a),
                                FFDownloadFile(a), FFUploadFile(a), FFCreateDirectory)
    BY <1>5 DEF Program
  <2> HIDE DEF a, b
  <2>3. Program(k, c) \in {FFListFiles(a), FFDeleteFile(a), FFMoveFile(a, b), FFGetFileInfo(a), FFDownloadFile(a), FFUploadFile(a), FFCreateDirectory}
    BY <1>2, <2>1 DEF Methods, Methods7
  <2> QED  BY <1>1, <2>3, FFVerbs
<1> QED  BY <1>3, <1>4, <1>5 DEF DirKinds

(* There are no files, nor another client's, without their directory. *)
DirsInv ==
    /\ kind \in DirKinds /\ (other \/ \E n \in Files : srv[n] # <<>>) => "dir" \in dirs
    /\ kind \in DirKinds /\ Renames(kind, call) /\ pc = 4 => "dir" \in dirs

(* Without the directory there is nothing to move and nowhere to put a file. *)
LEMMA StillEmpty ==
    ASSUME kind \in DirKinds, "dir" \notin dirs, \A n \in Files : srv[n] = <<>>, srv \in [Files -> Seq(Partial)],
           NEW v \in CarefulVerbs \cup {"create"}, NEW x, NEW y, Answer(v, x, y) \in {"ok", "more"}
    PROVE  \A n \in Files : FilesAfter(v, x, y)[n] = <<>>
<1>1. kind \notin Converting /\ kind \in NeedsDirectory  BY DEF DirKinds, Converting, NeedsDirectory
<1>2. ~HasDir("chunk")  BY <1>1 DEF HasDir, DirOf
<1>3. \A n : ~There(n)  BY DEF There
<1>4. \A yes : ~yes => Found(yes) = "notfound"  BY DEF Found
<1>5. v \notin {"put", "create"}
  <2>1. v \in {"put", "create"} => Answer(v, x, y) = "nodir"  BY <1>2 DEF Answer
  <2> QED  BY <2>1
<1>6. v # "rename"
  <2>1. v = "rename" => Answer(v, x, y) = Found(There(x))  BY DEF Answer
  <2> QED  BY <1>3, <1>4, <2>1
<1>7. v # "move"
  <2>1. v = "move" => Answer(v, x, y) = IF There(x) /\ There(y) THEN "exists" ELSE Found(There(x))
    BY <1>1 DEF Answer
  <2> QED  BY <1>3, <1>4, <2>1
<1>8. CASE v = "delete"
  <2>1. Answer(v, x, y) = IF x \in {"dir", "fossildir"} THEN Found(x \in dirs) ELSE Found(There(x))
    BY <1>8 DEF Answer
  <2>2. x \in {"dir", "fossildir"}  BY <1>3, <1>4, <2>1
  <2>3. x \notin Files  BY <2>2 DEF Files
  <2>4. FilesAfter(v, x, y) = [srv EXCEPT ![x] = Tail(@)]  BY <1>8 DEF FilesAfter
  <2> QED  BY <2>3, <2>4
<1>9. CASE v \notin {"put", "create", "rename", "move", "delete"}
  <2>1. FilesAfter(v, x, y) = srv  BY <1>9 DEF FilesAfter, CarefulVerbs
  <2> QED  BY <2>1
<1> QED  BY <1>5, <1>6, <1>7, <1>8, <1>9

(* Where an upload through a temporary file is, in terms of the answers. *)
LEMMA CreatedFirst ==
    ASSUME FilesInv, InCall, NEW answer \in Answers, Conclude(Prog[pc], answer), Renames(kind, call), pc' = 4
    PROVE  pc = 4 \/ (pc = 3 /\ answer = "ok")
<1>1. kind \in Backends /\ GoodCall(call) /\ pc \in 1 .. Len(Prog)
  BY DEF FilesInv, InCall
<1>2. UploadsThroughTemp(Prog)  BY <1>1, TempPrograms DEF Prog, Renames, GoodCall
<1>3. pc \in 1 .. 7  BY <1>1, <1>2 DEF UploadsThroughTemp
<1> DEFINE s == Prog[pc]
<1>4. s.spent[answer] = "fail"  BY <1>2, <1>3 DEF UploadsThroughTemp, Always
<1>5. PICK then : /\ then \in {s.on[answer], s.spent[answer]}
                  /\ pc' = CASE then \in Moves -> pc + Advance(then) [] then = "restart" -> 1 [] OTHER -> pc
  <2> DEFINE count == IF s.on[answer] = "restart" THEN tries.program ELSE tries.request
  <2>1. Verdict(s, answer, count) \in {s.on[answer], s.spent[answer]}  BY DEF Verdict
  <2>2. pc' = CASE Verdict(s, answer, count) \in Moves -> pc + Advance(Verdict(s, answer, count))
                [] Verdict(s, answer, count) = "restart" -> 1 [] OTHER -> pc
    BY DEF Conclude
  <2> HIDE DEF count
  <2> QED  BY <2>1, <2>2
<1>6. then \in Moves => then = s.on[answer]  BY <1>4, <1>5 DEF Moves
<1>7. pc = 1 /\ then \in Moves => then \notin {"skip2", "skip3"}  BY <1>2, <1>6 DEF UploadsThroughTemp
<1>8. pc = 2 /\ then \in Moves => then \notin {"skip", "skip2"}  BY <1>2, <1>6 DEF UploadsThroughTemp
<1>9. pc = 3 /\ then \in Moves => answer = "ok"  BY <1>2, <1>6 DEF UploadsThroughTemp
<1> HIDE DEF s
<1>10. CASE then \in Moves
  <2>1. Advance(then) \in 1 .. 4 /\ (Advance(then) = 2 => then = "skip") /\ (Advance(then) = 3 => then = "skip2")
        /\ (Advance(then) = 4 => then = "skip3")
    BY <1>10 DEF Moves, Advance
  <2>2. pc' = pc + Advance(then)  BY <1>5, <1>10
  <2> QED  BY <1>3, <1>7, <1>8, <1>9, <1>10, <2>1, <2>2
<1>11. CASE then \notin Moves
  <2>1. pc' = 1 \/ pc' = pc  BY <1>5, <1>11
  <2> QED  BY <2>1
<1> QED  BY <1>10, <1>11

(* Which requests the backends send that take a missing directory for an empty one. *)
LEMMA DirRequests ==
    ASSUME FilesInv, InCall, kind \in DirKinds
    PROVE  IF Renames(kind, call) /\ pc = 4 THEN Prog[pc].verb = "write"
           ELSE /\ Prog[pc].verb \in CarefulVerbs \cup {"create"}
                /\ Renames(kind, call) /\ pc = 3 => Prog[pc].verb = "create"
<1>1. GoodCall(call) /\ pc \in 1 .. Len(Prog) /\ kind \in Backends  BY DEF FilesInv, InCall
<1>2. CASE Renames(kind, call)
  <2>1. UploadsThroughTemp(Prog)  BY <1>1, <1>2, TempPrograms DEF Prog, Renames, GoodCall
  <2>2. pc \in 1 .. 7  BY <1>1, <2>1 DEF UploadsThroughTemp
  <2>3. CASE pc \in {1, 2, 6, 7}
    <3>1. Prog[pc].verb \in {"statdir", "mkdir", "stat", "delete"}  BY <2>1, <2>3 DEF UploadsThroughTemp
    <3> QED  BY <2>3, <3>1 DEF CarefulVerbs
  <2>4. CASE pc \in {3, 4, 5}
    <3>1. Prog[3].verb = "create" /\ Prog[4].verb = "write" /\ Prog[5].verb \in {"rename", "move"}
      BY <2>1 DEF UploadsThroughTemp
    <3> QED  BY <1>2, <2>4, <3>1 DEF CarefulVerbs
  <2> QED  BY <2>2, <2>3, <2>4
<1>3. CASE ~Renames(kind, call)
  <2>1. Careful(Prog)  BY <1>1, <1>3, CarefulPrograms DEF Prog
  <2> QED  BY <1>1, <1>3, <2>1 DEF Careful
<1> QED  BY <1>2, <1>3

LEMMA DirsInit == Init => DirsInv
<1> SUFFICES ASSUME Init PROVE DirsInv  OBVIOUS
<1>1. (other => "dir" \in dirs) /\ pc = 1 /\ \A n \in Files : There(n) => DirOf(n) \in dirs  BY DEF Init
<1>2. kind \in DirKinds => kind \notin Converting  BY DEF DirKinds, Converting
<1> QED  BY <1>1, <1>2 DEF DirsInv, There, DirOf

(* A request is answered or fails. *)
LEMMA ConcludeDirs ==
    ASSUME FilesInv, DirsInv, InCall, NEW answer \in Answers, Conclude(Prog[pc], answer), UNCHANGED <<kind, task, call, other>>,
           NEW s, s = Prog[pc], dirs \subseteq dirs', answer = "ok" => Answer(s.verb, s.a, s.b) = "ok",
           srv' = srv \/ (srv' = FilesAfter(s.verb, s.a, s.b) /\ Answer(s.verb, s.a, s.b) \in {"ok", "more"})
    PROVE  DirsInv'
<1> SUFFICES ASSUME kind \in DirKinds PROVE DirsInv'  BY DEF DirsInv
<1>1. srv \in [Files -> Seq(Partial)]  BY DEF FilesInv, Server
<1>2. ASSUME \E n \in Files : srv'[n] # <<>> PROVE "dir" \in dirs'
  <2>1. CASE "dir" \in dirs  BY <2>1
  <2>2. CASE "dir" \notin dirs
    <3>1. \A n \in Files : srv[n] = <<>>  BY <2>2 DEF DirsInv
    <3>2. ~(Renames(kind, call) /\ pc = 4)  BY <2>2 DEF DirsInv
    <3>3. s.verb \in CarefulVerbs \cup {"create"}  BY <3>2, DirRequests
    <3>4. \A n \in Files : srv'[n] = <<>>  BY <1>1, <2>2, <3>1, <3>3, StillEmpty
    <3> QED  BY <1>2, <3>4
  <2> QED  BY <2>1, <2>2
<1>3. ASSUME Renames(kind, call), pc' = 4 PROVE "dir" \in dirs'
  <2>1. pc = 4 \/ (pc = 3 /\ answer = "ok")  BY <1>3, CreatedFirst
  <2>2. CASE pc = 4  BY <1>3, <2>2 DEF DirsInv
  <2>3. CASE pc = 3 /\ answer = "ok"
    <3>1. s.verb = "create"  BY <1>3, <2>3, DirRequests
    <3>2. Answer(s.verb, s.a, s.b) = IF HasDir("chunk") THEN "ok" ELSE "nodir"  BY <3>1 DEF Answer
    <3>3. HasDir("chunk")  BY <2>3, <3>2
    <3>4. "dir" \in dirs  BY <3>3 DEF HasDir, DirOf, DirKinds, Converting, NeedsDirectory
    <3> QED  BY <3>4
  <2> QED  BY <2>1, <2>2, <2>3
<1>4. other => "dir" \in dirs'  BY DEF DirsInv
<1>5. Renames(kind', call') = Renames(kind, call)  BY DEF Renames
<1> QED  BY <1>2, <1>3, <1>4, <1>5 DEF DirsInv

LEMMA DirsGrow == \A v, x : dirs \subseteq DirsAfter(v, x)
BY DEF DirsAfter

LEMMA DirsNext == FilesInv /\ DirsInv /\ [Next]_vars => DirsInv'
<1> SUFFICES ASSUME FilesInv, DirsInv, [Next]_vars PROVE DirsInv'  OBVIOUS
<1>1. ASSUME UNCHANGED <<kind, srv, dirs, other, call, pc>> PROVE DirsInv'
  BY <1>1 DEF DirsInv, Renames
<1>2. ASSUME UNCHANGED <<kind, srv, dirs, other>>, pc' = 1 PROVE DirsInv'
  BY <1>2 DEF DirsInv
<1>3. ASSUME NEW op \in TaskKinds, NEW at \in {"find", "move"}, Begin(op, at) PROVE DirsInv'
  BY <1>2, <1>3 DEF Begin, Enter
<1>4. CASE Login  BY <1>1, <1>4 DEF Login
<1>5. CASE Answered
  <2> DEFINE s == Prog[pc]
             answer == Answer(s.verb, s.a, s.b)
  <2>1. InCall /\ Conclude(Prog[pc], answer) /\ UNCHANGED <<kind, task, call, other>>
        /\ srv' = IF answer \in {"ok", "more"} THEN FilesAfter(s.verb, s.a, s.b) ELSE srv
    BY <1>5 DEF Answered
  <2>2. dirs' = IF answer = "ok" THEN DirsAfter(s.verb, s.a) ELSE dirs  BY <1>5 DEF Answered
  <2>3. dirs \subseteq dirs'  BY <2>2, DirsGrow
  <2>4. answer \in Answers  BY AnswerType
  <2> HIDE DEF s
  <2>5. s = Prog[pc]  BY DEF s
  <2> QED  BY <2>1, <2>3, <2>4, <2>5, ConcludeDirs
<1>6. CASE Failed
  <2> DEFINE s == Prog[pc]
  <2>1. PICK answer \in IF s.verb = "idsaved" THEN {"notfound"} ELSE FaultsOf(kind) :
            /\ Conclude(s, answer)
            /\ \/ srv' = srv /\ dirs' = dirs
               \/ /\ Answer(s.verb, s.a, s.b) \in {"ok", "more"} /\ srv' = FilesAfter(s.verb, s.a, s.b)
                  /\ dirs' = DirsAfter(s.verb, s.a)
    BY <1>6 DEF Failed
  <2>2. InCall /\ UNCHANGED <<kind, task, call, other>>  BY <1>6 DEF Failed
  <2>3. answer \in Answers /\ answer # "ok"  BY <2>1 DEF FaultsOf, Answers
  <2>4. dirs \subseteq dirs'  BY <2>1, DirsGrow
  <2> HIDE DEF s
  <2>5. s = Prog[pc]  BY DEF s
  <2> QED  BY <2>1, <2>2, <2>3, <2>4, <2>5, ConcludeDirs
<1>7. CASE NoRequest  BY <1>1, <1>7 DEF NoRequest
<1>8. CASE NextCall \/ RetryDownload  BY <1>2, <1>8 DEF NextCall, RetryDownload, Enter
<1>9. CASE Complete \/ Fatal \/ Crash  BY <1>2, <1>9 DEF Complete, Fatal, Crash, Exit, Leave
<1>10. CASE OtherClient  BY <1>10 DEF OtherClient, DirsInv
<1>11. CASE UNCHANGED vars  BY <1>1, <1>11 DEF vars
<1> QED  BY <1>3, <1>4, <1>5, <1>6, <1>7, <1>8, <1>9, <1>10, <1>11 DEF Next, Progress

-----------------------------------------------------------------------------
(* Listings.                                                               *)

(* What a listing under way has seen, of what has been there all the time: all of the *)
(* directories passed, and the names up to the last one of the page. *)
Listing ==
    /\ pc \in Nat \ {0} /\ cursor.last \in Nat
    /\ \A n \in cursor.throughout : n \in NamesIn(call.a) /\ Present(n)
    /\ \A i \in 1 .. Len(Prog), n \in cursor.throughout :
          i < pc /\ Prog[i].verb \in {"pages", "readdir"} /\ n \in NamesIn(Prog[i].a) => n \in cursor.seen
    /\ res = "" /\ pc \in 1 .. Len(Prog) =>
          IF Prog[pc].verb = "pages"
          THEN \A j \in DOMAIN Listable(Prog[pc].a) :
                  j \in 1 .. cursor.last /\ Listable(Prog[pc].a)[j] \in cursor.throughout
                     => Listable(Prog[pc].a)[j] \in cursor.seen
          ELSE cursor.last = 0
    /\ res = "ok" => cursor.throughout \subseteq cursor.seen

ListInv ==
    /\ cursor = [last |-> cursor.last, seen |-> cursor.seen, throughout |-> cursor.throughout]
    /\ Promises(kind, call) => Listing

LEMMA ListingIsComplete == ListInv => ListingComplete
BY DEF ListInv, ListingComplete, Listing, Promises

(* Where an answer leads to in a listing. *)
LEMMA ListGoesOn ==
    ASSUME NEW k, NEW s, ListStep(k, s), NEW n
    PROVE  Verdict(s, "ok", n) = "next" /\ Verdict(s, "more", n) = "stay"
<1>1. s.on["ok"] = "next" /\ s.on["more"] = "stay"  BY DEF ListStep
<1> QED  BY <1>1 DEF Verdict

LEMMA ListFails ==
    ASSUME NEW k, NEW s, ListStep(k, s), NEW n, NEW x \in Errors
    PROVE  /\ Verdict(s, x, n) \in Quiet \cup {"return", "restart"}
           /\ Verdict(s, x, n) = "restart" => s.verb = "parse"
           /\ Verdict(s, x, n) = "return" => x = "nodir" /\ s.verb \in {"readdir", "statdir"} /\ k \in DirKinds
<1>1. Verdict(s, x, n) \in {s.on[x], s.spent[x]}  BY DEF Verdict
<1>2. s.spent[x] \in {"fail", "panic"}  BY DEF ListStep, Spends, Errors
<1>3. /\ s.on[x] \in Quiet \cup {"return", "restart"}
      /\ s.on[x] = "restart" => s.verb = "parse"
      /\ s.on[x] = "return" => x = "nodir" /\ s.verb \in {"readdir", "statdir"} /\ k \in DirKinds
  BY DEF ListStep
<1>4. CASE Verdict(s, x, n) = s.on[x]  BY <1>3, <1>4
<1>5. CASE Verdict(s, x, n) = s.spent[x]
  <2>1. Verdict(s, x, n) \in {"fail", "panic"}  BY <1>2, <1>5
  <2> QED  BY <2>1 DEF Quiet
<1> QED  BY <1>1, <1>4, <1>5

(* The listing in progress. *)
LEMMA ListProgram ==
    ASSUME FilesInv, Promises(kind, call)
    PROVE  GoodList(kind, Prog, call.a) /\ call.a \in {"chunks", "snapshots"} /\ Prog \in Programs
<1>1. call # NoCall
  <2>1. NoCall.op = "none"  BY DEF NoCall, Call
  <2> QED  BY <2>1 DEF Promises
<1>2. kind \in Backends /\ GoodCall(call)  BY <1>1 DEF FilesInv
<1>3. call.op = "ListFiles"  BY DEF Promises
<1>4. Prog \in Programs  BY <1>2, <1>3, MildPrograms DEF Prog
<1> QED  BY <1>2, <1>4, GoodLists DEF Prog, Promises, GoodCall

LEMMA ListOutcome ==
    ASSUME FilesInv, InCall, Promises(kind, call), NEW s, s = Prog[pc], NEW answer \in Answers, Conclude(s, answer)
    PROVE  /\ answer = "ok" => pc' = pc + 1 /\ res' = IF pc + 1 > Len(Prog) THEN "ok" ELSE ""
           /\ answer = "more" => pc' = pc /\ res' = ""
           /\ answer \in Errors => \/ pc' = pc /\ res' \in {"", "error", "hang", "panic"}
                                   \/ pc' = 1 /\ res' = "" /\ s.verb = "parse"
                                   \/ /\ pc' = pc /\ res' = "ok" /\ answer = "nodir" /\ s.verb \in {"readdir", "statdir"}
                                      /\ kind \in DirKinds
<1>1. GoodList(kind, Prog, call.a) /\ pc \in 1 .. Len(Prog)  BY ListProgram DEF InCall
<1>2. ListStep(kind, s)  BY <1>1 DEF GoodList
<1> DEFINE count == IF s.on[answer] = "restart" THEN tries.program ELSE tries.request
           then == Verdict(s, answer, count)
<1>3. /\ pc' = CASE then \in Moves -> pc + Advance(then) [] then = "restart" -> 1 [] OTHER -> pc
      /\ res' = CASE then = "return" -> "ok" [] then = "absent" -> "absent" [] then = "fail" -> "error"
                  [] then \in {"hang", "panic"} -> then
                  [] then \in Moves /\ pc + Advance(then) > Len(Prog) -> "ok" [] OTHER -> ""
  BY DEF Conclude
<1> HIDE DEF count
<1>4. /\ answer = "ok" => then = "next"
      /\ answer = "more" => then = "stay"
      /\ answer \in Errors => /\ then \in Quiet \cup {"return", "restart"}
                              /\ then = "restart" => s.verb = "parse"
                              /\ then = "return" => answer = "nodir" /\ s.verb \in {"readdir", "statdir"} /\ kind \in DirKinds
  <2>1. Verdict(s, "ok", count) = "next" /\ Verdict(s, "more", count) = "stay"  BY <1>2, ListGoesOn
  <2>2. ASSUME answer \in Errors
        PROVE  /\ then \in Quiet \cup {"return", "restart"}
               /\ then = "restart" => s.verb = "parse"
               /\ then = "return" => answer = "nodir" /\ s.verb \in {"readdir", "statdir"} /\ kind \in DirKinds
    BY <1>2, <2>2, ListFails
  <2>3. answer = "ok" => then = "next"  BY <2>1
  <2>4. answer = "more" => then = "stay"  BY <2>1
  <2> HIDE DEF then
  <2> QED  BY <2>2, <2>3, <2>4
<1> HIDE DEF then
<1>5. CASE answer = "ok"
  <2>1. "ok" \notin Errors /\ then = "next" /\ Advance(then) = 1 /\ then \in Moves  BY <1>4, <1>5 DEF Errors, Advance, Moves
  <2> QED  BY <1>3, <1>5, <2>1
<1>6. CASE answer = "more"
  <2>1. "more" \notin Errors /\ then = "stay" /\ then \notin Moves  BY <1>4, <1>6 DEF Errors, Moves
  <2> QED  BY <1>3, <1>6, <2>1
<1>7. CASE answer \in Errors
  <2>1. answer # "ok" /\ answer # "more"  BY <1>7 DEF Errors
  <2>2. then \in Quiet \cup {"return", "restart"}  BY <1>4, <1>7
  <2>3. then \notin Moves  BY <2>2 DEF Quiet, Moves
  <2>4. CASE then = "return"  BY <1>3, <1>4, <1>7, <2>1, <2>3, <2>4
  <2>5. CASE then = "restart"  BY <1>3, <1>4, <1>7, <2>1, <2>3, <2>5
  <2>6. CASE then \in Quiet
    <3>1. pc' = pc /\ res' \in {"", "error", "hang", "panic"}  BY <1>3, <2>3, <2>6 DEF Quiet
    <3> QED  BY <2>1, <3>1
  <2> QED  BY <2>2, <2>4, <2>5, <2>6
<1> QED  BY <1>5, <1>6, <1>7 DEF Errors

(* The names of a page. *)
LEMMA PageNames ==
    ASSUME NEW s, s.verb = "pages", s.a \in Listings, cursor.last \in Nat
    PROVE  /\ Answer(s.verb, s.a, s.b) \in {"ok", "more"}
           /\ Answer(s.verb, s.a, s.b) = "ok" => Remaining(s.a, cursor.last) \subseteq Page(s)
           /\ Answer(s.verb, s.a, s.b) = "more" =>
                 \E m \in Remaining(s.a, cursor.last) : Page(s) = {m} /\ \A j \in Remaining(s.a, cursor.last) : m <= j
<1> DEFINE rest == Remaining(s.a, cursor.last)
<1>1. rest \subseteq 1 .. 3
  <2>1. DOMAIN Listable(s.a) \subseteq 1 .. 3
    <3>1. Listable(s.a) \in {<<"a", "chunk", "fossil">>, <<"a", "chunk">>, <<"fossil">>, <<"a", "s">>}
      BY DEF Listings, Listable
    <3> QED  BY <3>1
  <2> QED  BY <2>1 DEF Remaining
<1>2. Page(s) = {i \in rest : \A j \in rest : i <= j}  BY DEF Page
<1>3. Answer(s.verb, s.a, s.b) = IF Cardinality(rest) > 1 THEN "more" ELSE "ok"  BY DEF Answer
<1> HIDE DEF rest
<1>4. IsFiniteSet(1 .. 3)
  <2>1. 1 \in Int /\ 3 \in Int  OBVIOUS
  <2> QED  BY <2>1, FS_Interval
<1>5. IsFiniteSet(rest) /\ Cardinality(rest) \in Nat  BY <1>1, <1>4, FS_Subset, FS_CardinalityType
<1>6. ASSUME ~(Cardinality(rest) > 1), NEW i \in rest, NEW j \in rest PROVE i = j
  <2>1. CASE i # j
    <3>1. IsFiniteSet({i}) /\ Cardinality({i}) = 1  BY FS_Singleton
    <3>2. Cardinality({i} \cup {j}) = 2
      <4>1. j \notin {i}  BY <2>1
      <4> QED  BY <3>1, <4>1, FS_AddElement
    <3>3. {i} \cup {j} \in SUBSET rest  BY <1>6
    <3>4. Cardinality({i} \cup {j}) <= Cardinality(rest)  BY <1>5, <3>3, FS_Subset
    <3> QED  BY <1>5, <1>6, <3>2, <3>4
  <2> QED  BY <2>1
<1>7. ASSUME ~(Cardinality(rest) > 1) PROVE rest \subseteq Page(s)
  <2>1. ASSUME NEW i \in rest, NEW j \in rest PROVE i <= j
    <3>1. i = j  BY <1>6, <1>7, <2>1
    <3> QED  BY <1>1, <3>1
  <2> QED  BY <1>2, <2>1
<1>8. ASSUME Cardinality(rest) > 1 PROVE \E m \in rest : Page(s) = {m} /\ \A j \in rest : m <= j
  <2>1. rest # {}  BY <1>8, FS_EmptySet
  <2>2. \E m \in rest : \A j \in rest : m <= j
    <3>1. CASE 1 \in rest  BY <1>1, <3>1
    <3>2. CASE 1 \notin rest /\ 2 \in rest  BY <1>1, <3>2
    <3>3. CASE 1 \notin rest /\ 2 \notin rest
      <4>1. PICK i \in rest : TRUE  BY <2>1
      <4>2. \A j \in rest : j = 3  BY <1>1, <3>3
      <4> QED  BY <4>1, <4>2
    <3> QED  BY <3>1, <3>2, <3>3
  <2>3. PICK m \in rest : \A j \in rest : m <= j  BY <2>2
  <2>4. \A i \in rest : (\A j \in rest : i <= j) => i = m  BY <1>1, <2>3
  <2>5. Page(s) = {m}  BY <1>2, <2>3, <2>4
  <2> QED  BY <2>3, <2>5
<1> QED  BY <1>3, <1>7, <1>8 DEF rest

(* Nothing else that a listing asks for changes anything. *)
LEMMA ListChanges ==
    ASSUME NEW k, NEW s, ListStep(k, s)
    PROVE  FilesAfter(s.verb, s.a, s.b) = srv /\ s.verb \notin Changing /\ s.verb \notin {"purge", "firstpage"}
BY DEF ListStep, FilesAfter, Changing

LEMMA PresentStays == UNCHANGED <<kind, srv, other>> => \A n : Present(n)' = Present(n)
<1> SUFFICES ASSUME UNCHANGED <<kind, srv, other>>, NEW n PROVE Present(n)' = Present(n)  OBVIOUS
<1>1. Whereabouts' = Whereabouts  BY DEF Whereabouts, There
<1> QED  BY <1>1 DEF Present

(* Where a missing directory is taken for an empty one there is nothing to list. *)
LEMMA NothingThere ==
    ASSUME FilesInv, DirsInv, InCall, ListInv, Promises(kind, call), NEW s, s = Prog[pc], s.verb \in {"readdir", "statdir"},
           kind \in DirKinds, Answer(s.verb, s.a, s.b) = "nodir"
    PROVE  cursor.throughout = {}
<1>1. GoodList(kind, Prog, call.a) /\ call.a \in {"chunks", "snapshots"} /\ pc \in 1 .. Len(Prog)  BY ListProgram DEF InCall
<1>2. /\ s.verb = "readdir" => s.a = call.a
      /\ s.verb = "statdir" => s.a = IF call.a = "chunks" THEN "dir" ELSE "root"
  BY <1>1 DEF GoodList
<1>3. call.a = "chunks" /\ "dir" \notin dirs
  <2>1. CASE s.verb = "readdir"
    <3>1. Answer(s.verb, s.a, s.b) = IF s.a = "snapshots" \/ "dir" \in dirs THEN "ok" ELSE "nodir"  BY <2>1 DEF Answer
    <3> QED  BY <1>1, <1>2, <2>1, <3>1
  <2>2. CASE s.verb = "statdir"
    <3>1. Answer(s.verb, s.a, s.b) = IF s.a \in dirs \cup {"root"} THEN "ok" ELSE "nodir"  BY <2>2 DEF Answer
    <3> QED  BY <1>2, <2>2, <3>1
  <2> QED  BY <2>1, <2>2
<1>4. ~other /\ \A n \in Files : srv[n] = <<>>  BY <1>3 DEF DirsInv
<1>5. Whereabouts = {}
  <2>1. kind # "b2"  BY DEF DirKinds
  <2> QED  BY <1>4, <2>1 DEF Whereabouts, There
<1>6. \A n \in NamesIn("chunks") : ~Present(n)  BY <1>4, <1>5, NamesAre DEF Present
<1> QED  BY <1>3, <1>6 DEF ListInv, Listing

(* Positions in a listing and in a program. *)
LEMMA NoneBefore == /\ \A n : \A i \in 1 .. n : ~(i < 1)
                    /\ \A j : j \notin 1 .. 0
                    /\ 1 \in Nat \ {0} /\ 0 \in Nat
<1>1. ASSUME NEW n, NEW i \in 1 .. n PROVE ~(i < 1)  OBVIOUS
<1> QED  BY <1>1

LEMMA UpTo == \A j \in 1 .. 3, l \in Nat : j \in Nat /\ (~(j > l) => j \in 1 .. l)
OBVIOUS

LEMMA Between == \A m \in 1 .. 3 : \A j \in 1 .. m : m <= j => j = m
OBVIOUS

LEMMA PosBefore ==
    ASSUME NEW p \in Seq(MildSteps), NEW at \in 1 .. Len(p)
    PROVE  /\ at + 1 \in Nat \ {0}
           /\ \A i \in 1 .. Len(p) : i < at + 1 => i < at \/ i = at
           /\ at + 1 > Len(p) => \A i \in 1 .. Len(p) : i < at + 1
<1>1. Len(p) \in Nat  OBVIOUS
<1> QED  BY <1>1

LEMMA FewNames == ASSUME NEW dir \in Listings PROVE DOMAIN Listable(dir) \subseteq 1 .. 3
<1>1. Listable(dir) \in {<<"a", "chunk", "fossil">>, <<"a", "chunk">>, <<"fossil">>, <<"a", "s">>}
  BY DEF Listings, Listable
<1> QED  BY <1>1

(* What it takes for a listing that goes on. *)
LEMMA ListingThen ==
    ASSUME Listing, UNCHANGED <<kind, call, srv, other>>, cursor'.throughout = cursor.throughout,
           pc' \in Nat \ {0}, cursor'.last \in Nat,
           \A i \in 1 .. Len(Prog), n \in cursor.throughout :
              i < pc' /\ Prog[i].verb \in {"pages", "readdir"} /\ n \in NamesIn(Prog[i].a) => n \in cursor'.seen,
           res' = "" /\ pc' \in 1 .. Len(Prog) =>
              IF Prog[pc'].verb = "pages"
              THEN \A j \in DOMAIN Listable(Prog[pc'].a) :
                      j \in 1 .. cursor'.last /\ Listable(Prog[pc'].a)[j] \in cursor.throughout
                         => Listable(Prog[pc'].a)[j] \in cursor'.seen
              ELSE cursor'.last = 0,
           res' = "ok" => cursor.throughout \subseteq cursor'.seen
    PROVE  Listing'
<1>1. Prog' = Prog  BY DEF Prog
<1>2. \A n \in cursor'.throughout : n \in NamesIn(call'.a) /\ Present(n)'
  <2>1. \A n : Present(n)' = Present(n)  BY PresentStays
  <2>2. \A n \in cursor.throughout : n \in NamesIn(call.a) /\ Present(n)  BY DEF Listing
  <2> QED  BY <2>1, <2>2
<1> HIDE DEF Prog
<1> QED  BY <1>1, <1>2 DEF Listing

(* An error in a listing. *)
LEMMA ListFailed ==
    ASSUME FilesInv, ListInv, InCall, res = "", Promises(kind, call), NEW s, s = Prog[pc], NEW answer \in Errors,
           Conclude(s, answer), UNCHANGED <<kind, call, srv, other, cursor>>,
           answer = "nodir" /\ s.verb \in {"readdir", "statdir"} /\ kind \in DirKinds => cursor.throughout = {}
    PROVE  Listing'
<1>1. Listing /\ pc \in 1 .. Len(Prog)  BY DEF ListInv, InCall
<1>2. answer \in Answers  BY DEF Errors
<1>3. \/ pc' = pc /\ res' \in {"", "error", "hang", "panic"}
      \/ pc' = 1 /\ res' = "" /\ s.verb = "parse"
      \/ pc' = pc /\ res' = "ok" /\ cursor.throughout = {}
  BY <1>2, ListOutcome
<1>4. CASE pc' = pc /\ res' # "ok"  BY <1>1, <1>4, ListingThen DEF Listing
<1>5. CASE pc' = 1 /\ res' = "" /\ s.verb = "parse"
  <2>1. cursor.last = 0  BY <1>1, <1>5 DEF Listing
  <2>2. cursor' = cursor  OBVIOUS
  <2>3. \A i \in 1 .. Len(Prog) : ~(i < pc')  BY <1>5, NoneBefore, Zenon
  <2>4. \A j : j \notin 1 .. cursor'.last  BY <2>1, <2>2, NoneBefore, Zenon
  <2>5. pc' \in Nat \ {0} /\ cursor'.last \in Nat /\ cursor'.last = 0 /\ cursor'.throughout = cursor.throughout
    BY <1>5, <2>1, <2>2, NoneBefore, Zenon
  <2> QED  BY <1>1, <1>5, <2>3, <2>4, <2>5, ListingThen
<1>6. CASE pc' = pc /\ res' = "ok" /\ cursor.throughout = {}  BY <1>1, <1>6, ListingThen DEF Listing
<1> QED  BY <1>3, <1>4, <1>5, <1>6

(* The last page, or the only one, has what the pages before it have not. *)
LEMMA LastPage ==
    ASSUME Listing, res = "", pc \in 1 .. Len(Prog), NEW s, s = Prog[pc], s.verb \in {"pages", "readdir"}, s.a \in Listings,
           Answer(s.verb, s.a, s.b) = "ok", NEW n \in cursor.throughout, n \in NamesIn(s.a)
    PROVE  n \in cursor.seen \cup Listed(s, Page(s))
<1>1. PICK j \in DOMAIN Listable(s.a) : n = Listable(s.a)[j]  BY DEF NamesIn
<1>2. Present(n) /\ cursor.last \in Nat  BY DEF Listing
<1>3. DOMAIN Listable(s.a) \subseteq 1 .. 3  BY FewNames
<1>4. Remaining(s.a, cursor.last) \subseteq Page(s)
  <2>1. CASE s.verb = "pages"  BY <1>2, <2>1, PageNames
  <2>2. CASE s.verb = "readdir"  BY <2>2 DEF Page
  <2> QED  BY <2>1, <2>2
<1>5. CASE j > cursor.last
  <2>1. j \in Remaining(s.a, cursor.last)  BY <1>1, <1>2, <1>5 DEF Remaining
  <2> QED  BY <1>1, <1>4, <2>1 DEF Listed
<1>6. CASE ~(j > cursor.last)
  <2>1. j \in 1 .. cursor.last
    <3>1. j \in 1 .. 3  BY <1>3
    <3> QED  BY <1>2, <1>6, <3>1, UpTo, Zenon
  <2>2. s.verb = "pages"
    <3>1. s.verb # "pages" => cursor.last = 0  BY DEF Listing
    <3> QED  BY <2>1, <3>1, NoneBefore, Zenon
  <2> QED  BY <1>1, <2>1, <2>2 DEF Listing
<1> QED  BY <1>5, <1>6

LEMMA CursorMoves ==
    ASSUME cursor = [last |-> cursor.last, seen |-> cursor.seen, throughout |-> cursor.throughout], NEW names, NEW last,
           cursor' = [cursor EXCEPT !.seen = names, !.last = last]
    PROVE  /\ cursor'.seen = names /\ cursor'.last = last /\ cursor'.throughout = cursor.throughout
           /\ cursor' = [last |-> cursor'.last, seen |-> cursor'.seen, throughout |-> cursor'.throughout]
<1>1. cursor' = [last |-> last, seen |-> names, throughout |-> cursor.throughout]  OBVIOUS
<1> QED  BY <1>1

(* A part of the listing is there and is the last one: of this directory, and perhaps of all. *)
LEMMA ListAdvanced ==
    ASSUME FilesInv, ListInv, InCall, res = "", Promises(kind, call), NEW s, s = Prog[pc],
           Answer(s.verb, s.a, s.b) = "ok", Conclude(s, "ok"), UNCHANGED <<kind, call, srv, other>>,
           IF s.verb \in {"pages", "readdir"}
           THEN cursor'.seen = cursor.seen \cup Listed(s, Page(s)) /\ cursor'.last = 0 /\ cursor'.throughout = cursor.throughout
           ELSE cursor' = cursor
    PROVE  Listing'
<1>1. GoodList(kind, Prog, call.a) /\ call.a \in {"chunks", "snapshots"} /\ pc \in 1 .. Len(Prog) /\ Listing
  BY ListProgram DEF InCall, ListInv
<1>2. ListStep(kind, s) /\ (s.verb \in {"pages", "readdir"} => s.a \in Listings)
  <2>1. /\ ListStep(kind, Prog[pc]) /\ (Prog[pc].verb = "pages" => Prog[pc].a \in Listings)
        /\ (Prog[pc].verb = "readdir" => Prog[pc].a = call.a)
    BY <1>1 DEF GoodList
  <2> QED  BY <1>1, <2>1 DEF Listings
<1>3. pc' = pc + 1 /\ res' = IF pc + 1 > Len(Prog) THEN "ok" ELSE ""
  <2>1. "ok" \in Answers  BY DEF Answers
  <2> QED  BY <2>1, ListOutcome
<1>4. cursor'.last = 0 /\ cursor'.throughout = cursor.throughout /\ cursor.seen \subseteq cursor'.seen
  <2>1. CASE s.verb \in {"pages", "readdir"}  BY <2>1
  <2>2. CASE s.verb \notin {"pages", "readdir"}
    <3>1. cursor.last = 0  BY <1>1, <2>2 DEF Listing
    <3> QED  BY <2>2, <3>1
  <2> QED  BY <2>1, <2>2
<1>0. Prog \in Seq(MildSteps)  BY ListProgram DEF Programs
<1>5. \A i \in 1 .. Len(Prog) : i < pc + 1 => i < pc \/ i = pc  BY <1>0, <1>1, PosBefore
<1>6. ASSUME NEW i \in 1 .. Len(Prog), NEW n \in cursor.throughout, i < pc', Prog[i].verb \in {"pages", "readdir"},
             n \in NamesIn(Prog[i].a)
      PROVE  n \in cursor'.seen
  <2>1. CASE i < pc
    <3>1. n \in cursor.seen  BY <1>1, <1>6, <2>1 DEF Listing
    <3> QED  BY <1>4, <3>1
  <2>2. CASE i = pc
    <3>1. s.verb \in {"pages", "readdir"} /\ n \in NamesIn(s.a)  BY <1>6, <2>2
    <3>2. n \in cursor.seen \cup Listed(s, Page(s))  BY <1>1, <1>2, <3>1, LastPage
    <3> QED  BY <3>1, <3>2
  <2> QED  BY <1>3, <1>5, <1>6, <2>1, <2>2
<1>7. ASSUME res' = "ok" PROVE cursor.throughout \subseteq cursor'.seen
  <2>1. pc + 1 > Len(Prog)  BY <1>3, <1>7
  <2>2. \A i \in 1 .. Len(Prog) : i < pc'  BY <1>1, <1>3, <2>1, <1>0, PosBefore
  <2>3. ASSUME NEW n \in cursor.throughout PROVE n \in cursor'.seen
    <3>1. n \in NamesIn(call.a)  BY <1>1, <2>3 DEF Listing
    <3>2. PICK i \in 1 .. Len(Prog) : Prog[i].verb \in {"pages", "readdir"} /\ n \in NamesIn(Prog[i].a)
      BY <1>1, <3>1 DEF GoodList
    <3> QED  BY <1>6, <2>2, <3>2
  <2> QED  BY <2>3
<1>8. pc' \in Nat \ {0} /\ cursor'.last \in Nat  BY <1>0, <1>1, <1>3, <1>4, PosBefore, NoneBefore
<1>9. \A j : j \notin 1 .. cursor'.last  BY <1>4, NoneBefore, Zenon
<1> QED  BY <1>1, <1>4, <1>6, <1>7, <1>8, <1>9, ListingThen

(* There is another page. *)
LEMMA ListPaged ==
    ASSUME FilesInv, ListInv, InCall, res = "", Promises(kind, call), NEW s, s = Prog[pc], s.verb = "pages",
           Answer(s.verb, s.a, s.b) = "more", Conclude(s, "more"), UNCHANGED <<kind, call, srv, other>>,
           cursor'.seen = cursor.seen \cup Listed(s, Page(s)), cursor'.last = CHOOSE i \in Page(s) : TRUE,
           cursor'.throughout = cursor.throughout
    PROVE  Listing'
<1>1. GoodList(kind, Prog, call.a) /\ pc \in 1 .. Len(Prog) /\ Listing
  BY ListProgram DEF InCall, ListInv
<1>2. s.a \in Listings  BY <1>1 DEF GoodList
<1>3. pc' = pc /\ res' = ""
  <2>1. "more" \in Answers  BY DEF Answers
  <2> QED  BY <2>1, ListOutcome
<1>4. cursor.last \in Nat  BY <1>1 DEF Listing
<1>5. PICK m \in Remaining(s.a, cursor.last) : Page(s) = {m} /\ \A j \in Remaining(s.a, cursor.last) : m <= j
  BY <1>2, <1>4, PageNames
<1>6. cursor'.last = m  BY <1>5
<1>7. m \in 1 .. 3 /\ DOMAIN Listable(s.a) \subseteq 1 .. 3  BY <1>2, <1>5, FewNames DEF Remaining
<1>8. ASSUME NEW j \in DOMAIN Listable(s.a), j \in 1 .. m, Listable(s.a)[j] \in cursor.throughout
      PROVE  Listable(s.a)[j] \in cursor'.seen
  <2>1. Present(Listable(s.a)[j])  BY <1>1, <1>8 DEF Listing
  <2>2. CASE j > cursor.last
    <3>1. j \in Remaining(s.a, cursor.last)  BY <1>8, <2>1, <2>2 DEF Remaining
    <3>2. j = m  BY <1>5, <1>7, <1>8, <3>1, Between, Zenon
    <3> QED  BY <1>5, <3>2 DEF Listed
  <2>3. CASE ~(j > cursor.last)
    <3>1. j \in 1 .. cursor.last  BY <1>4, <1>7, <1>8, <2>3, UpTo, Zenon
    <3> QED  BY <1>1, <1>8, <3>1 DEF Listing
  <2> QED  BY <2>2, <2>3
<1>9. cursor.seen \subseteq cursor'.seen  OBVIOUS
<1>10. ASSUME NEW i \in 1 .. Len(Prog), NEW n \in cursor.throughout, i < pc', Prog[i].verb \in {"pages", "readdir"},
              n \in NamesIn(Prog[i].a)
       PROVE  n \in cursor'.seen
  <2>1. n \in cursor.seen  BY <1>1, <1>3, <1>10 DEF Listing
  <2> QED  BY <1>9, <2>1
<1>11. pc' \in Nat \ {0}  BY <1>1, <1>3 DEF Listing
<1>12. cursor'.last \in Nat  BY <1>6, <1>7, UpTo, Zenon
<1>13. \A j \in DOMAIN Listable(Prog[pc'].a) :
          j \in 1 .. cursor'.last /\ Listable(Prog[pc'].a)[j] \in cursor.throughout => Listable(Prog[pc'].a)[j] \in cursor'.seen
  BY <1>3, <1>6, <1>8
<1>14. Prog[pc'].verb = "pages" /\ res' # "ok"  BY <1>3
<1> QED  BY <1>1, <1>10, <1>11, <1>12, <1>13, <1>14, ListingThen

(* Before the first request of a method, and after the last one. *)
LEMMA EnterList ==
    ASSUME FilesInv', NEW c, Enter(c), UNCHANGED <<kind, srv, other>>
    PROVE  ListInv'
<1> DEFINE names == {n \in {Listable(c.a)[i] : i \in DOMAIN Listable(c.a)} : Present(n)}
<1>1. /\ call' = c /\ res' = "" /\ pc' = 1
      /\ cursor' = IF c.op = "ListFiles" THEN [NoCursor EXCEPT !.throughout = names] ELSE NoCursor
  BY DEF Enter
<1>2. names \subseteq NamesIn(c.a) /\ \A n \in names : Present(n)  BY DEF NamesIn
<1> HIDE DEF names
<1>3. /\ cursor' = [last |-> cursor'.last, seen |-> cursor'.seen, throughout |-> cursor'.throughout]
      /\ cursor'.last = 0 /\ cursor'.throughout \in {names, {}}
  <2>1. CASE c.op = "ListFiles"
    <3>1. cursor' = [last |-> 0, seen |-> {}, throughout |-> names]  BY <1>1, <2>1 DEF NoCursor
    <3> QED  BY <3>1
  <2>2. CASE c.op # "ListFiles"
    <3>1. cursor' = [last |-> 0, seen |-> {}, throughout |-> {}]  BY <1>1, <2>2 DEF NoCursor
    <3> QED  BY <3>1
  <2> QED  BY <2>1, <2>2
<1>4. \A n \in cursor'.throughout : n \in NamesIn(call'.a) /\ Present(n)'
  <2>1. \A n : Present(n)' = Present(n)  BY PresentStays
  <2>2. ASSUME NEW n \in cursor'.throughout PROVE n \in NamesIn(call'.a) /\ Present(n)
    <3>1. n \in names  BY <1>3, <2>2
    <3> QED  BY <1>1, <1>2, <3>1
  <2> QED  BY <2>1, <2>2
<1>5. \A i \in 1 .. Len(Prog') : ~(i < pc')  BY <1>1, NoneBefore, Zenon
<1>6. \A j : j \notin 1 .. cursor'.last  BY <1>3, NoneBefore, Zenon
<1>7. pc' \in Nat \ {0} /\ cursor'.last \in Nat  BY <1>1, <1>3, NoneBefore, Zenon
<1>8. Listing'  BY <1>1, <1>3, <1>4, <1>5, <1>6, <1>7 DEF Listing
<1> QED  BY <1>3, <1>8 DEF ListInv

LEMMA LeaveList == Leave => ListInv'
<1> SUFFICES ASSUME Leave PROVE ListInv'  OBVIOUS
<1>1. call' = NoCall /\ cursor' = NoCursor  BY DEF Leave
<1>2. ~Promises(kind', call')  BY <1>1 DEF Promises, NoCall, Call
<1>3. cursor' = [last |-> cursor'.last, seen |-> cursor'.seen, throughout |-> cursor'.throughout]  BY <1>1 DEF NoCursor
<1> QED  BY <1>2, <1>3 DEF ListInv

LEMMA ListInit == Init => ListInv
<1> SUFFICES ASSUME Init PROVE ListInv  OBVIOUS
<1>1. call = NoCall /\ cursor = NoCursor  BY DEF Init
<1>2. ~Promises(kind, call)  BY <1>1 DEF Promises, NoCall, Call
<1>3. cursor = [last |-> cursor.last, seen |-> cursor.seen, throughout |-> cursor.throughout]  BY <1>1 DEF NoCursor
<1> QED  BY <1>2, <1>3 DEF ListInv

(* What is known of the request in progress of a listing. *)
LEMMA ListRequest ==
    ASSUME FilesInv, ListInv, InCall, Promises(kind, call), NEW s, s = Prog[pc]
    PROVE  /\ ListStep(kind, s) /\ (s.verb = "pages" => s.a \in Listings)
           /\ srv = FilesAfter(s.verb, s.a, s.b) /\ s.verb \notin Changing /\ s.verb \notin {"purge", "firstpage"}
<1>1. GoodList(kind, Prog, call.a) /\ pc \in 1 .. Len(Prog)  BY ListProgram DEF InCall
<1>2. ListStep(kind, s) /\ (s.verb = "pages" => s.a \in Listings)  BY <1>1 DEF GoodList
<1> QED  BY <1>2, ListChanges

(* More is to come of a page only. *)
LEMMA MoreOfPages ==
    ASSUME NEW k, NEW s, ListStep(k, s), Answer(s.verb, s.a, s.b) = "more"
    PROVE  s.verb = "pages"
<1>1. CASE s.verb = "readdir"
  <2>1. Answer(s.verb, s.a, s.b) = IF s.a = "snapshots" \/ "dir" \in dirs THEN "ok" ELSE "nodir"  BY <1>1 DEF Answer
  <2> QED  BY <2>1
<1>2. CASE s.verb = "statdir"
  <2>1. Answer(s.verb, s.a, s.b) = IF s.a \in dirs \cup {"root"} THEN "ok" ELSE "nodir"  BY <1>2 DEF Answer
  <2> QED  BY <2>1
<1>3. CASE s.verb \in {"idsaved", "parse"}
  <2>1. Answer(s.verb, s.a, s.b) = "ok"  BY <1>3 DEF Answer
  <2> QED  BY <2>1
<1> QED  BY <1>1, <1>2, <1>3 DEF ListStep

(* A request of a listing is answered. *)
LEMMA AnsweredList ==
    ASSUME FilesInv, DirsInv, ListInv, Answered
    PROVE  ListInv'
<1> DEFINE s == Prog[pc]
           answer == Answer(s.verb, s.a, s.b)
           moved == Verdict(s, answer, tries.request) # "stay"
<1>1. /\ res = "" /\ InCall /\ Conclude(s, answer) /\ UNCHANGED <<kind, other, call>>
      /\ srv' = IF answer \in {"ok", "more"} THEN FilesAfter(s.verb, s.a, s.b) ELSE srv
  BY DEF Answered
<1>2. cursor' = CASE s.verb \in {"pages", "firstpage", "readdir"} /\ answer \in {"ok", "more"} ->
                        [cursor EXCEPT !.seen = @ \cup Listed(s, Page(s)),
                                       !.last = IF moved THEN 0 ELSE CHOOSE i \in Page(s) : TRUE]
                  [] s.verb = "purge" -> [cursor EXCEPT !.last = IF moved THEN 0 ELSE PurgeAt]
                  [] OTHER -> cursor
  BY DEF Answered
<1>3. answer \in Answers  BY AnswerType
<1> DEFINE then == Verdict(s, answer, tries.request)
<1>4. moved = (then # "stay")  OBVIOUS
<1> HIDE DEF moved, then
<1>5. /\ s = Prog[pc] /\ answer = Answer(s.verb, s.a, s.b)  OBVIOUS
<1> HIDE DEF s, answer
<1>6. cursor = [last |-> cursor.last, seen |-> cursor.seen, throughout |-> cursor.throughout]  BY DEF ListInv
<1> DEFINE heard == s.verb \in {"pages", "firstpage", "readdir"} /\ answer \in {"ok", "more"}
           names == cursor.seen \cup Listed(s, Page(s))
           last == IF moved THEN 0 ELSE CHOOSE i \in Page(s) : TRUE
<1>7. ASSUME heard
      PROVE  /\ cursor'.seen = names /\ cursor'.last = last /\ cursor'.throughout = cursor.throughout
             /\ cursor' = [last |-> cursor'.last, seen |-> cursor'.seen, throughout |-> cursor'.throughout]
  <2>1. cursor' = [cursor EXCEPT !.seen = names, !.last = last]  BY <1>2, <1>7
  <2> HIDE DEF names, last
  <2> QED  BY <1>6, <2>1, CursorMoves
<1>8. cursor' = [last |-> cursor'.last, seen |-> cursor'.seen, throughout |-> cursor'.throughout]
  <2>1. CASE heard  BY <1>7, <2>1
  <2>2. CASE ~heard /\ s.verb = "purge"
    <3> DEFINE at == IF moved THEN 0 ELSE PurgeAt
    <3>1. cursor' = [cursor EXCEPT !.last = at]  BY <1>2, <2>2
    <3> HIDE DEF at
    <3>2. cursor' = [last |-> at, seen |-> cursor.seen, throughout |-> cursor.throughout]  BY <1>6, <3>1
    <3> QED  BY <3>2
  <2>3. CASE ~heard /\ s.verb # "purge"
    <3>1. cursor' = cursor  BY <1>2, <2>3
    <3> QED  BY <1>6, <3>1
  <2> QED  BY <2>1, <2>2, <2>3
<1>9. ASSUME Promises(kind, call) PROVE Listing'
  <2>1. ListStep(kind, s) /\ srv = FilesAfter(s.verb, s.a, s.b) /\ s.verb \notin {"purge", "firstpage"}
    BY <1>1, <1>5, <1>9, ListRequest
  <2>2. UNCHANGED <<kind, call, srv, other>>  BY <1>1, <2>1
  <2>3. CASE answer = "ok"
    <3>1. moved  BY <1>4, <2>1, <2>3, ListGoesOn DEF then
    <3>2. IF s.verb \in {"pages", "readdir"}
          THEN cursor'.seen = cursor.seen \cup Listed(s, Page(s)) /\ cursor'.last = 0 /\ cursor'.throughout = cursor.throughout
          ELSE cursor' = cursor
      <4>1. CASE heard
        <5>1. s.verb \in {"pages", "readdir"}  BY <2>1, <4>1
        <5> QED  BY <1>7, <3>1, <4>1, <5>1
      <4>2. CASE ~heard
        <5>1. s.verb \notin {"pages", "readdir"}  BY <2>3, <4>2
        <5>2. cursor' = cursor  BY <1>2, <2>1, <4>2
        <5> QED  BY <5>1, <5>2
      <4> QED  BY <4>1, <4>2
    <3> QED  BY <1>1, <1>5, <1>9, <2>2, <2>3, <3>2, ListAdvanced
  <2>4. CASE answer = "more"
    <3>1. s.verb = "pages"  BY <1>5, <2>1, <2>4, MoreOfPages
    <3>2. ~moved  BY <1>4, <2>1, <2>4, ListGoesOn DEF then
    <3>3. cursor'.seen = cursor.seen \cup Listed(s, Page(s)) /\ cursor'.last = (CHOOSE i \in Page(s) : TRUE)
          /\ cursor'.throughout = cursor.throughout
      BY <1>7, <2>4, <3>1, <3>2
    <3> QED  BY <1>1, <1>5, <1>9, <2>2, <2>4, <3>1, <3>3, ListPaged
  <2>5. CASE answer \in Errors
    <3>1. ~heard  BY <2>5 DEF Errors
    <3>2. cursor' = cursor  BY <1>2, <2>1, <3>1
    <3>3. answer = "nodir" /\ s.verb \in {"readdir", "statdir"} /\ kind \in DirKinds => cursor.throughout = {}
      BY <1>1, <1>5, <1>9, NothingThere
    <3> QED  BY <1>1, <1>5, <1>9, <2>2, <2>5, <3>2, <3>3, ListFailed
  <2> QED  BY <1>3, <2>3, <2>4, <2>5 DEF Errors
<1>10. Promises(kind', call') = Promises(kind, call)  BY <1>1
<1> QED  BY <1>8, <1>9, <1>10 DEF ListInv

(* A request of a listing fails. *)
LEMMA FailedList ==
    ASSUME FilesInv, ListInv, Failed
    PROVE  ListInv'
<1> DEFINE s == Prog[pc]
<1>1. res = "" /\ InCall /\ UNCHANGED <<kind, other, call>>  BY DEF Failed
<1>2. PICK answer \in IF s.verb = "idsaved" THEN {"notfound"} ELSE FaultsOf(kind) :
          /\ Conclude(s, answer)
          /\ srv' = srv \/ s.verb \in Changing
          /\ cursor' = IF s.verb = "purge" /\ cursor.last = 0 /\ HasMarker THEN [cursor EXCEPT !.last = LatestMarker] ELSE cursor
  BY DEF Failed
<1>3. answer \in Errors /\ answer # "nodir"  BY <1>2 DEF FaultsOf, Errors, Answers
<1>4. s = Prog[pc]  OBVIOUS
<1> HIDE DEF s
<1>5. cursor = [last |-> cursor.last, seen |-> cursor.seen, throughout |-> cursor.throughout]  BY DEF ListInv
<1>6. cursor' = [last |-> cursor'.last, seen |-> cursor'.seen, throughout |-> cursor'.throughout]
  <2>1. CASE cursor' = cursor  BY <1>5, <2>1
  <2>2. CASE cursor' = [cursor EXCEPT !.last = LatestMarker]
    <3> DEFINE at == LatestMarker
    <3>1. cursor' = [cursor EXCEPT !.last = at]  BY <2>2
    <3> HIDE DEF at
    <3>2. cursor' = [last |-> at, seen |-> cursor.seen, throughout |-> cursor.throughout]  BY <1>5, <3>1
    <3> QED  BY <3>2
  <2> QED  BY <1>2, <2>1, <2>2
<1>7. ASSUME Promises(kind, call) PROVE Listing'
  <2>1. s.verb \notin Changing /\ s.verb # "purge"  BY <1>1, <1>4, <1>7, ListRequest
  <2>2. UNCHANGED <<kind, call, srv, other, cursor>>  BY <1>1, <1>2, <2>1
  <2> QED  BY <1>1, <1>2, <1>3, <1>4, <1>7, <2>2, ListFailed
<1>8. Promises(kind', call') = Promises(kind, call)  BY <1>1
<1> QED  BY <1>6, <1>7, <1>8 DEF ListInv

LEMMA ListNext == FilesInv /\ DirsInv /\ ListInv /\ [Next]_vars => ListInv'
<1> SUFFICES ASSUME FilesInv, DirsInv, ListInv, [Next]_vars PROVE ListInv'  OBVIOUS
<1>1. FilesInv'  BY FilesNext
<1>3. ASSUME UNCHANGED <<kind, srv, other, call, pc, cursor>>, res' = res PROVE ListInv'
  <2>1. ASSUME Promises(kind, call) PROVE Listing'
    <3>1. Listing  BY <2>1 DEF ListInv
    <3> QED  BY <1>3, <3>1, ListingThen DEF Listing
  <2> QED  BY <1>3, <2>1 DEF ListInv, Promises
<1>4. ASSUME NEW op \in TaskKinds, NEW at \in {"find", "move"}, Begin(op, at) PROVE ListInv'
  BY <1>1, <1>4, EnterList DEF Begin
<1>5. CASE Login
  <2>1. UNCHANGED <<kind, srv, other, call, pc, cursor>> /\ res = "" /\ res' \in {"", "error"}  BY <1>5 DEF Login
  <2>2. ASSUME Promises(kind, call) PROVE Listing'
    <3>1. Listing  BY <2>2 DEF ListInv
    <3> QED  BY <2>1, <3>1, ListingThen DEF Listing
  <2> QED  BY <2>1, <2>2 DEF ListInv, Promises
<1>6. CASE Answered  BY <1>6, AnsweredList
<1>7. CASE Failed  BY <1>7, FailedList
<1>8. CASE NoRequest
  <2>1. UNCHANGED <<kind, call, cursor>> /\ Prog = <<>>  BY <1>8 DEF NoRequest
  <2>2. ~Promises(kind, call)
    <3>1. SUFFICES ASSUME Promises(kind, call) PROVE FALSE  OBVIOUS
    <3>2. Len(Prog) >= 1  BY <3>1, ListProgram DEF GoodList
    <3> QED  BY <2>1, <3>2
  <2> QED  BY <2>1, <2>2 DEF ListInv, Promises
<1>9. CASE NextCall  BY <1>1, <1>9, EnterList DEF NextCall
<1>10. CASE RetryDownload  BY <1>1, <1>10, EnterList DEF RetryDownload
<1>11. CASE Complete \/ Fatal \/ Crash  BY <1>11, LeaveList DEF Complete, Fatal, Crash, Exit
<1>12. CASE OtherClient
  <2>1. /\ UNCHANGED <<kind, srv, call, res, pc>>
        /\ cursor' = [cursor EXCEPT !.throughout = @ \ {"a"}]
    BY <1>12 DEF OtherClient
  <2> DEFINE names == cursor.throughout \ {"a"}
  <2>2. cursor = [last |-> cursor.last, seen |-> cursor.seen, throughout |-> cursor.throughout]  BY DEF ListInv
  <2>3. cursor' = [last |-> cursor.last, seen |-> cursor.seen, throughout |-> names]  BY <2>1, <2>2
  <2>4. /\ cursor'.last = cursor.last /\ cursor'.seen = cursor.seen /\ cursor'.throughout = names
        /\ cursor' = [last |-> cursor'.last, seen |-> cursor'.seen, throughout |-> cursor'.throughout]
    BY <2>3
  <2>5. \A n : n # "a" => Present(n)' = Present(n)
    <3>1. Whereabouts' = Whereabouts  BY <2>1 DEF Whereabouts, There
    <3> QED  BY <3>1 DEF Present
  <2>6. names \subseteq cursor.throughout /\ "a" \notin names  OBVIOUS
  <2> HIDE DEF names
  <2>7. ASSUME Promises(kind, call) PROVE Listing'
    <3>1. Listing  BY <2>7 DEF ListInv
    <3>2. Prog' = Prog  BY <2>1 DEF Prog
    <3>3. \A n \in cursor'.throughout : n \in NamesIn(call'.a) /\ Present(n)'
      <4>1. \A n \in cursor.throughout : n \in NamesIn(call.a) /\ Present(n)  BY <3>1 DEF Listing
      <4>2. ASSUME NEW n \in cursor'.throughout PROVE n \in NamesIn(call'.a) /\ Present(n)'
        <5>1. n \in cursor.throughout /\ n # "a"  BY <2>4, <2>6, <4>2
        <5> QED  BY <2>1, <2>5, <4>1, <5>1
      <4> QED  BY <4>2
    <3> QED  BY <2>1, <2>4, <2>6, <3>1, <3>2, <3>3 DEF Listing
  <2> QED  BY <2>1, <2>4, <2>7 DEF ListInv, Promises
<1>13. CASE UNCHANGED vars  BY <1>3, <1>13 DEF vars
<1> QED  BY <1>4, <1>5, <1>6, <1>7, <1>8, <1>9, <1>10, <1>11, <1>12, <1>13 DEF Next, Progress

(* Whatever fails and is tried again, and whatever other clients add and    *)
(* remove between two pages: a listing that is returned has every name that *)
(* was there from its first request to its last, on every backend but      *)
(* Storj, and but for the snapshots on S3C.                                *)
THEOREM ListingsAreComplete == Spec => []ListingComplete
<1>1. Spec => []FilesInv  BY FilesInit, FilesNext, PTL DEF Spec
<1>2. Spec => []DirsInv  BY <1>1, DirsInit, DirsNext, PTL DEF Spec
<1>3. Spec => []ListInv  BY <1>1, <1>2, ListInit, ListNext, PTL DEF Spec
<1> QED  BY <1>3, ListingIsComplete, PTL

-----------------------------------------------------------------------------
(* Programs that keep the chunk.                                           *)

(* All backends but Amazon Cloud Drive, which may delete the wrong file, and *)
(* B2, where the fossil is a version of the chunk.                         *)
Keeping == Backends \ {"acd", "b2"}

(* The ones that move a file by copying and deleting it. *)
Copiers == {"s3", "s3c", "azure", "gcs", "swift", "hubic"}

(* Requests that change no file. *)
Harmless == {"pages", "firstpage", "readdir", "stat", "statdir", "find", "lookup", "cached", "idsaved", "get", "read", "parse",
             "send", "mkdir", "mkdirsave"}

(* The requests of a call. *)
Fits(c, v, x, y) ==
    \/ v \in Harmless
    \/ c.op = "DeleteFile" /\ v = "delete" /\ x = c.a
    \/ c.op = "UploadFile" /\ v \in {"put", "putmore"} /\ x = "chunk"
    \/ c.op = "MoveFile" /\ v \in {"rename", "move", "reparent"} /\ x = c.a /\ y = c.b

FitSteps(c) == {s \in AllSteps : Fits(c, s.verb, s.a, s.b)}

(* The steps that the backends make of a request. *)
Builds(c, v, x, y) ==
    /\ \A on \in Choices, n \in Nat : Step(v, x, y, on, n) \in FitSteps(c)
    /\ x = y => Ask(v, x) \in FitSteps(c) /\ Ignoring(v, x) \in FitSteps(c)
    /\ HubicCall(v, x, y) \in FitSteps(c) /\ WebDAVsendRequest(v, x, y) \in FitSteps(c) /\ OneCall(v, x, y) \in FitSteps(c)
    /\ GCDshouldRetry(v, x, y) \in FitSteps(c) /\ FFsendRequest(v, x, y) \in FitSteps(c)

LEMMA FitTries ==
    ASSUME NEW c, NEW s \in FitSteps(c), NEW n \in Nat
    PROVE  [s EXCEPT !.tries = n] \in FitSteps(c)
BY DEF FitSteps, AllSteps

LEMMA FitSpent ==
    ASSUME NEW c, NEW s \in FitSteps(c), NEW d \in Choices
    PROVE  [s EXCEPT !.spent = d] \in FitSteps(c)
BY DEF FitSteps, AllSteps

LEMMA FitOnSpent ==
    ASSUME NEW c, NEW s \in FitSteps(c), NEW d \in Choices, NEW e \in Choices
    PROVE  [s EXCEPT !.on = d, !.spent = e] \in FitSteps(c)
BY DEF FitSteps, AllSteps

LEMMA FitSpentOn ==
    ASSUME NEW c, NEW s \in FitSteps(c), NEW d \in Choices, NEW e \in Choices
    PROVE  [s EXCEPT !.spent = d, !.on = e] \in FitSteps(c)
BY DEF FitSteps, AllSteps

LEMMA FitWhere ==
    ASSUME NEW c, NEW s \in FitSteps(c), NEW set, NEW then \in Treatments
    PROVE  Where(s, set, then) \in FitSteps(c)
<1>1. s.on \in Choices  BY DEF FitSteps, AllSteps
<1>2. On(s.on, set, then) \in Choices  BY <1>1, OnType
<1> QED  BY <1>2 DEF Where, FitSteps, AllSteps

LEMMA FitBuilds ==
    ASSUME NEW c, NEW v \in MildVerbs, NEW x \in Asked, NEW y \in Asked, Fits(c, v, x, y)
    PROVE  Builds(c, v, x, y)
<1>1. ASSUME NEW on \in Choices, NEW n \in Nat PROVE Step(v, x, y, on, n) \in FitSteps(c)
  <2>1. /\ Step(v, x, y, on, n) \in AllSteps /\ Step(v, x, y, on, n).verb = v /\ Step(v, x, y, on, n).a = x
        /\ Step(v, x, y, on, n).b = y
    BY StepTypes
  <2> QED  BY <2>1 DEF FitSteps
<1>2. NoError \in Choices /\ \A set : On(NoError, set, "next") \in Choices /\ On(NoError, set, "again") \in Choices
  BY NoErrorType, OnType DEF Treatments
<1>3. x = y => Ask(v, x) \in FitSteps(c) /\ Ignoring(v, x) \in FitSteps(c)  BY <1>1, <1>2 DEF Ask, Ignoring
<1>4. HubicCall(v, x, y) \in FitSteps(c)
  <2>1. On(On(NoError, {"busy", "drop"}, "again"), {"expired"}, "login") \in Choices  BY <1>2, OnType DEF Treatments
  <2> QED  BY <1>1, <2>1 DEF HubicCall
<1>5. WebDAVsendRequest(v, x, y) \in FitSteps(c)
  <2>1. \A set : On(On(NoError, Errors, "again"), set, "fail") \in Choices  BY <1>2, OnType DEF Treatments
  <2> QED  BY <1>1, <2>1 DEF WebDAVsendRequest
<1>6. OneCall(v, x, y) \in FitSteps(c)
  <2>1. On(On(NoError, {"busy", "throttled", "denied", "drop"}, "again"), {"expired"}, "login") \in Choices
    BY <1>2, OnType DEF Treatments
  <2> QED  BY <1>1, <2>1 DEF OneCall
<1>7. GCDshouldRetry(v, x, y) \in FitSteps(c)  BY <1>1, <1>2 DEF GCDshouldRetry
<1>8. FFsendRequest(v, x, y) \in FitSteps(c)
  <2> DEFINE on == On(NoError, {"busy", "throttled", "denied", "expired", "drop"}, "again")
             spent == [z \in Answers |-> IF z = "drop" THEN "fail" ELSE "panic"]
             s == Step(v, x, y, on, 12)
  <2>1. on \in Choices  BY <1>2
  <2>2. spent \in Choices  BY DEF Choices, Treatments
  <2>3. FFsendRequest(v, x, y) = [s EXCEPT !.spent = spent]  BY DEF FFsendRequest
  <2> HIDE DEF on, spent
  <2>4. s \in FitSteps(c)  BY <1>1, <2>1
  <2> HIDE DEF s
  <2> QED  BY <2>2, <2>3, <2>4, FitSpent
<1> QED  BY <1>1, <1>3, <1>4, <1>5, <1>6, <1>7, <1>8 DEF Builds

LEMMA CallBuilds ==
    ASSUME NEW c, GoodCall(c)
    PROVE  /\ \A v \in Harmless, x \in Asked, y \in Asked : Builds(c, v, x, y)
           /\ c.op = "DeleteFile" => Builds(c, "delete", c.a, c.a)
           /\ c.op = "MoveFile" => \A v \in {"rename", "move", "reparent"} : Builds(c, v, c.a, c.b)
           /\ c.op = "UploadFile" => \A v \in {"put", "putmore"} : Builds(c, v, c.a, c.a)
<1>1. Harmless \subseteq MildVerbs /\ {"delete", "rename", "move", "reparent", "put", "putmore"} \subseteq MildVerbs
  BY DEF Harmless, MildVerbs
<1>2. /\ c.op \in {"DeleteFile", "MoveFile", "UploadFile"} => c.a \in Asked
      /\ c.op = "MoveFile" => c.b \in Asked
      /\ c.op = "UploadFile" => c.a = "chunk"
  BY DEF GoodCall, Paths, Asked
<1>3. ASSUME NEW v \in Harmless, NEW x \in Asked, NEW y \in Asked PROVE Builds(c, v, x, y)
  BY <1>1, FitBuilds DEF Fits
<1>4. ASSUME c.op = "DeleteFile" PROVE Builds(c, "delete", c.a, c.a)
  <2>1. Fits(c, "delete", c.a, c.a)  BY <1>4 DEF Fits
  <2> QED  BY <1>1, <1>2, <1>4, <2>1, FitBuilds
<1>5. ASSUME c.op = "MoveFile", NEW v \in {"rename", "move", "reparent"} PROVE Builds(c, v, c.a, c.b)
  <2>1. Fits(c, v, c.a, c.b)  BY <1>5 DEF Fits
  <2> QED  BY <1>1, <1>2, <1>5, <2>1, FitBuilds
<1>6. ASSUME c.op = "UploadFile", NEW v \in {"put", "putmore"} PROVE Builds(c, v, c.a, c.a)
  <2>1. Fits(c, v, c.a, c.a)  BY <1>2, <1>6 DEF Fits
  <2> QED  BY <1>1, <1>2, <1>6, <2>1, FitBuilds
<1> QED  BY <1>3, <1>4, <1>5, <1>6

LEMMA FitPrograms ==
    ASSUME NEW S
    PROVE  /\ <<>> \in Seq(S)
           /\ \A s \in S : <<s>> \in Seq(S)
           /\ \A s, t \in S : <<s, t>> \in Seq(S)
           /\ \A s, t, u \in S : <<s, t, u>> \in Seq(S)
           /\ \A s, t, u, v \in S : <<s, t, u, v>> \in Seq(S)
           /\ \A p, q \in Seq(S) : p \o q \in Seq(S)
OBVIOUS

LEMMA CallNames ==
    ASSUME NEW c, GoodCall(c)
    PROVE  /\ c.op # "CreateDirectory" => c.a \in Asked
           /\ c.op = "MoveFile" => c.b \in Asked
           /\ c.op \in {"DeleteFile", "MoveFile", "GetFileInfo", "DownloadFile", "UploadFile"} => c.a \in Paths
           /\ c.op = "MoveFile" => c.b \in Paths
           /\ {"dir", "root", "live", "fossils", "fossildir", "chunk.fsl"} \subseteq Asked
BY DEF GoodCall, Methods7, Asked, Paths

(* The steps of one request, with any treatments. *)
LEMMA PlainFits ==
    ASSUME NEW c, GoodCall(c)
    PROVE  /\ \A x \in Asked, v \in Harmless :
                 Ask(v, x) \in FitSteps(c) /\ \A set : \A then \in Treatments : Where(Ask(v, x), set, then) \in FitSteps(c)
           /\ c.op = "DeleteFile" =>
                 /\ Ask("delete", c.a) \in FitSteps(c)
                 /\ \A set : \A then \in Treatments : Where(Ask("delete", c.a), set, then) \in FitSteps(c)
           /\ c.op = "UploadFile" =>
                 /\ Ask("put", c.a) \in FitSteps(c) /\ Ignoring("put", c.a) \in FitSteps(c) /\ Ask("send", c.a) \in FitSteps(c)
                 /\ \A set : \A n \in Nat, v \in {"put", "send"} : Step(v, c.a, c.a, On(NoError, set, "again"), n) \in FitSteps(c)
           /\ c.op = "MoveFile" => \A v \in {"rename", "move"} : Step(v, c.a, c.b, NoError, 0) \in FitSteps(c)
<1>1. ASSUME NEW x, NEW v, Builds(c, v, x, x)
      PROVE  Ask(v, x) \in FitSteps(c) /\ \A set : \A then \in Treatments : Where(Ask(v, x), set, then) \in FitSteps(c)
  <2>1. Ask(v, x) \in FitSteps(c)  BY <1>1 DEF Builds
  <2> QED  BY <2>1, FitWhere
<1>2. \A x \in Asked, v \in Harmless : Builds(c, v, x, x)  BY CallBuilds
<1>3. ASSUME c.op = "UploadFile"
      PROVE  /\ Ask("put", c.a) \in FitSteps(c) /\ Ignoring("put", c.a) \in FitSteps(c) /\ Ask("send", c.a) \in FitSteps(c)
             /\ \A set : \A n \in Nat, v \in {"put", "send"} : Step(v, c.a, c.a, On(NoError, set, "again"), n) \in FitSteps(c)
  <2>1. \A set : On(NoError, set, "again") \in Choices  BY NoErrorType, OnType DEF Treatments
  <2>2. "send" \in Harmless /\ c.a \in Asked  BY <1>3, CallNames DEF Harmless
  <2>3. \A v \in {"put", "send"} : Builds(c, v, c.a, c.a)  BY <1>2, <1>3, <2>2, CallBuilds
  <2> QED  BY <2>1, <2>3 DEF Builds
<1>4. ASSUME c.op = "MoveFile", NEW v \in {"rename", "move"} PROVE Step(v, c.a, c.b, NoError, 0) \in FitSteps(c)
  <2>1. Builds(c, v, c.a, c.b) /\ 0 \in Nat  BY <1>4, CallBuilds
  <2> QED  BY <2>1, NoErrorType DEF Builds
<1> QED  BY <1>1, <1>2, <1>3, <1>4, CallBuilds

LEMMA S3Fits ==
    ASSUME NEW c, GoodCall(c)
    PROVE  /\ c.op = "ListFiles" => S3ListFiles(c.a) \in Seq(FitSteps(c))
           /\ c.op = "DeleteFile" => S3DeleteFile(c.a) \in Seq(FitSteps(c))
           /\ c.op = "GetFileInfo" => S3GetFileInfo(c.a) \in Seq(FitSteps(c))
           /\ c.op = "DownloadFile" => S3DownloadFile(c.a) \in Seq(FitSteps(c))
           /\ c.op = "UploadFile" => S3UploadFile(c.a) \in Seq(FitSteps(c))
<1> USE DEF Harmless, Treatments
<1>1. ASSUME c.op = "ListFiles" PROVE S3ListFiles(c.a) \in Seq(FitSteps(c))
  BY <1>1, CallNames, PlainFits, FitPrograms DEF S3ListFiles
<1>2. ASSUME c.op = "DeleteFile" PROVE S3DeleteFile(c.a) \in Seq(FitSteps(c))
  BY <1>2, CallNames, PlainFits, FitPrograms DEF S3DeleteFile
<1>3. ASSUME c.op = "GetFileInfo" PROVE S3GetFileInfo(c.a) \in Seq(FitSteps(c))
  BY <1>3, CallNames, PlainFits, FitPrograms DEF S3GetFileInfo
<1>4. ASSUME c.op = "DownloadFile" PROVE S3DownloadFile(c.a) \in Seq(FitSteps(c))
  BY <1>4, CallNames, PlainFits, FitPrograms DEF S3DownloadFile
<1>5. ASSUME c.op = "UploadFile" PROVE S3UploadFile(c.a) \in Seq(FitSteps(c))
  BY <1>5, CallNames, PlainFits, FitPrograms DEF S3UploadFile
<1> QED  BY <1>1, <1>2, <1>3, <1>4, <1>5

LEMMA S3CFits ==
    ASSUME NEW c, GoodCall(c)
    PROVE  /\ c.op = "ListFiles" => S3CListFiles(c.a) \in Seq(FitSteps(c))
           /\ c.op = "DeleteFile" => S3CDeleteFile(c.a) \in Seq(FitSteps(c))
           /\ c.op = "GetFileInfo" => S3CGetFileInfo(c.a) \in Seq(FitSteps(c))
           /\ c.op = "DownloadFile" => S3CDownloadFile(c.a) \in Seq(FitSteps(c))
           /\ c.op = "UploadFile" => S3CUploadFile(c.a) \in Seq(FitSteps(c))
<1> USE DEF Harmless, Treatments
<1>1. ASSUME c.op = "ListFiles" PROVE S3CListFiles(c.a) \in Seq(FitSteps(c))
  BY <1>1, CallNames, PlainFits, FitPrograms DEF S3CListFiles
<1>2. ASSUME c.op = "DeleteFile" PROVE S3CDeleteFile(c.a) \in Seq(FitSteps(c))
  BY <1>2, CallNames, PlainFits, FitPrograms DEF S3CDeleteFile
<1>3. ASSUME c.op = "GetFileInfo" PROVE S3CGetFileInfo(c.a) \in Seq(FitSteps(c))
  BY <1>3, CallNames, PlainFits, FitPrograms DEF S3CGetFileInfo
<1>4. ASSUME c.op = "DownloadFile" PROVE S3CDownloadFile(c.a) \in Seq(FitSteps(c))
  BY <1>4, CallNames, PlainFits, FitPrograms DEF S3CDownloadFile
<1>5. ASSUME c.op = "UploadFile" PROVE S3CUploadFile(c.a) \in Seq(FitSteps(c))
  BY <1>5, CallNames, PlainFits, FitPrograms DEF S3CUploadFile
<1> QED  BY <1>1, <1>2, <1>3, <1>4, <1>5

LEMMA AzureFits ==
    ASSUME NEW c, GoodCall(c)
    PROVE  /\ c.op = "ListFiles" => AzureListFiles(c.a) \in Seq(FitSteps(c))
           /\ c.op = "DeleteFile" => AzureDeleteFile(c.a) \in Seq(FitSteps(c))
           /\ c.op = "GetFileInfo" => AzureGetFileInfo(c.a) \in Seq(FitSteps(c))
           /\ c.op = "DownloadFile" => AzureDownloadFile(c.a) \in Seq(FitSteps(c))
           /\ c.op = "UploadFile" => AzureUploadFile(c.a) \in Seq(FitSteps(c))
<1> USE DEF Harmless, Treatments
<1>1. ASSUME c.op = "ListFiles" PROVE AzureListFiles(c.a) \in Seq(FitSteps(c))
  BY <1>1, CallNames, PlainFits, FitPrograms DEF AzureListFiles
<1>2. ASSUME c.op = "DeleteFile" PROVE AzureDeleteFile(c.a) \in Seq(FitSteps(c))
  BY <1>2, CallNames, PlainFits, FitPrograms DEF AzureDeleteFile
<1>3. ASSUME c.op = "GetFileInfo" PROVE AzureGetFileInfo(c.a) \in Seq(FitSteps(c))
  BY <1>3, CallNames, PlainFits, FitPrograms DEF AzureGetFileInfo
<1>4. ASSUME c.op = "DownloadFile" PROVE AzureDownloadFile(c.a) \in Seq(FitSteps(c))
  BY <1>4, CallNames, PlainFits, FitPrograms DEF AzureDownloadFile
<1>5. ASSUME c.op = "UploadFile" PROVE AzureUploadFile(c.a) \in Seq(FitSteps(c))
  BY <1>5, CallNames, PlainFits, FitPrograms DEF AzureUploadFile
<1> QED  BY <1>1, <1>2, <1>3, <1>4, <1>5

LEMMA GCSFits ==
    ASSUME NEW c, GoodCall(c)
    PROVE  /\ c.op = "ListFiles" => GCSListFiles(c.a) \in Seq(FitSteps(c))
           /\ c.op = "DeleteFile" => GCSDeleteFile(c.a) \in Seq(FitSteps(c))
           /\ c.op = "GetFileInfo" => GCSGetFileInfo(c.a) \in Seq(FitSteps(c))
           /\ c.op = "DownloadFile" => GCSDownloadFile(c.a) \in Seq(FitSteps(c))
           /\ c.op = "UploadFile" => GCSUploadFile(c.a) \in Seq(FitSteps(c))
<1> USE DEF Harmless, Treatments
<1>1. ASSUME c.op = "ListFiles" PROVE GCSListFiles(c.a) \in Seq(FitSteps(c))
  BY <1>1, CallNames, PlainFits, FitPrograms DEF GCSListFiles
<1>2. ASSUME c.op = "DeleteFile" PROVE GCSDeleteFile(c.a) \in Seq(FitSteps(c))
  BY <1>2, CallNames, PlainFits, FitPrograms DEF GCSDeleteFile
<1>3. ASSUME c.op = "GetFileInfo" PROVE GCSGetFileInfo(c.a) \in Seq(FitSteps(c))
  BY <1>3, CallNames, PlainFits, FitPrograms DEF GCSGetFileInfo
<1>4. ASSUME c.op = "DownloadFile" PROVE GCSDownloadFile(c.a) \in Seq(FitSteps(c))
  BY <1>4, CallNames, PlainFits, FitPrograms DEF GCSDownloadFile
<1>5. ASSUME c.op = "UploadFile" PROVE GCSUploadFile(c.a) \in Seq(FitSteps(c))
  BY <1>5, CallNames, PlainFits, FitPrograms DEF GCSUploadFile, GCSshouldRetry
<1> QED  BY <1>1, <1>2, <1>3, <1>4, <1>5

LEMMA StorjFits ==
    ASSUME NEW c, GoodCall(c)
    PROVE  /\ c.op = "ListFiles" => StorjListFiles(c.a) \in Seq(FitSteps(c))
           /\ c.op = "DeleteFile" => StorjDeleteFile(c.a) \in Seq(FitSteps(c))
           /\ c.op = "MoveFile" => StorjMoveFile(c.a, c.b) \in Seq(FitSteps(c))
           /\ c.op = "GetFileInfo" => StorjGetFileInfo(c.a) \in Seq(FitSteps(c))
           /\ c.op = "DownloadFile" => StorjDownloadFile(c.a) \in Seq(FitSteps(c))
           /\ c.op = "UploadFile" => StorjUploadFile(c.a) \in Seq(FitSteps(c))
<1> USE DEF Harmless, Treatments
<1>1. ASSUME c.op = "ListFiles" PROVE StorjListFiles(c.a) \in Seq(FitSteps(c))
  BY <1>1, CallNames, PlainFits, FitPrograms DEF StorjListFiles
<1>2. ASSUME c.op = "DeleteFile" PROVE StorjDeleteFile(c.a) \in Seq(FitSteps(c))
  BY <1>2, CallNames, PlainFits, FitPrograms DEF StorjDeleteFile
<1>3. ASSUME c.op = "MoveFile" PROVE StorjMoveFile(c.a, c.b) \in Seq(FitSteps(c))
  BY <1>3, CallNames, PlainFits, FitPrograms DEF StorjMoveFile
<1>4. ASSUME c.op = "GetFileInfo" PROVE StorjGetFileInfo(c.a) \in Seq(FitSteps(c))
  BY <1>4, CallNames, PlainFits, FitPrograms DEF StorjGetFileInfo
<1>5. ASSUME c.op = "DownloadFile" PROVE StorjDownloadFile(c.a) \in Seq(FitSteps(c))
  BY <1>5, CallNames, PlainFits, FitPrograms DEF StorjDownloadFile
<1>6. ASSUME c.op = "UploadFile" PROVE StorjUploadFile(c.a) \in Seq(FitSteps(c))
  BY <1>6, CallNames, PlainFits, FitPrograms DEF StorjUploadFile
<1> QED  BY <1>1, <1>2, <1>3, <1>4, <1>5, <1>6

LEMMA DropboxFits ==
    ASSUME NEW c, GoodCall(c)
    PROVE  /\ c.op = "ListFiles" => DropboxListFiles(c.a) \in Seq(FitSteps(c))
           /\ c.op = "DeleteFile" => DropboxDeleteFile(c.a) \in Seq(FitSteps(c))
           /\ c.op = "MoveFile" => DropboxMoveFile(c.a, c.b) \in Seq(FitSteps(c))
           /\ c.op = "GetFileInfo" => DropboxGetFileInfo(c.a) \in Seq(FitSteps(c))
           /\ c.op = "DownloadFile" => DropboxDownloadFile(c.a) \in Seq(FitSteps(c))
           /\ c.op = "UploadFile" => DropboxUploadFile(c.a) \in Seq(FitSteps(c))
           /\ c.op = "CreateDirectory" => DropboxCreateDirectory \in Seq(FitSteps(c))
<1> USE DEF Harmless, Treatments
<1>1. ASSUME c.op = "ListFiles" PROVE DropboxListFiles(c.a) \in Seq(FitSteps(c))
  BY <1>1, CallNames, PlainFits, FitPrograms DEF DropboxListFiles
<1>2. ASSUME c.op = "DeleteFile" PROVE DropboxDeleteFile(c.a) \in Seq(FitSteps(c))
  BY <1>2, CallNames, PlainFits, FitPrograms DEF DropboxDeleteFile
<1>3. ASSUME c.op = "MoveFile" PROVE DropboxMoveFile(c.a, c.b) \in Seq(FitSteps(c))
  BY <1>3, CallNames, PlainFits, FitPrograms DEF DropboxMoveFile
<1>4. ASSUME c.op = "GetFileInfo" PROVE DropboxGetFileInfo(c.a) \in Seq(FitSteps(c))
  BY <1>4, CallNames, PlainFits, FitPrograms DEF DropboxGetFileInfo
<1>5. ASSUME c.op = "DownloadFile" PROVE DropboxDownloadFile(c.a) \in Seq(FitSteps(c))
  BY <1>5, CallNames, PlainFits, FitPrograms DEF DropboxDownloadFile
<1>6. ASSUME c.op = "UploadFile" PROVE DropboxUploadFile(c.a) \in Seq(FitSteps(c))
  BY <1>6, CallNames, PlainFits, FitPrograms DEF DropboxUploadFile
<1>7. ASSUME c.op = "CreateDirectory" PROVE DropboxCreateDirectory \in Seq(FitSteps(c))
  BY <1>7, CallNames, PlainFits, FitPrograms DEF DropboxCreateDirectory
<1> QED  BY <1>1, <1>2, <1>3, <1>4, <1>5, <1>6, <1>7

LEMMA SwiftFits ==
    ASSUME NEW c, GoodCall(c)
    PROVE  /\ c.op = "ListFiles" => SwiftListFiles(c.a) \in Seq(FitSteps(c))
           /\ c.op = "DeleteFile" => SwiftDeleteFile(c.a) \in Seq(FitSteps(c))
           /\ c.op = "GetFileInfo" => SwiftGetFileInfo(c.a) \in Seq(FitSteps(c))
           /\ c.op = "DownloadFile" => SwiftDownloadFile(c.a) \in Seq(FitSteps(c))
           /\ c.op = "UploadFile" => SwiftUploadFile(c.a) \in Seq(FitSteps(c))
<1> USE DEF Harmless, Treatments
<1>1. ASSUME c.op = "ListFiles" PROVE SwiftListFiles(c.a) \in Seq(FitSteps(c))
  BY <1>1, CallNames, PlainFits, FitPrograms DEF SwiftListFiles
<1>2. ASSUME c.op = "DeleteFile" PROVE SwiftDeleteFile(c.a) \in Seq(FitSteps(c))
  BY <1>2, CallNames, PlainFits, FitPrograms DEF SwiftDeleteFile
<1>3. ASSUME c.op = "GetFileInfo" PROVE SwiftGetFileInfo(c.a) \in Seq(FitSteps(c))
  BY <1>3, CallNames, PlainFits, FitPrograms DEF SwiftGetFileInfo
<1>4. ASSUME c.op = "DownloadFile" PROVE SwiftDownloadFile(c.a) \in Seq(FitSteps(c))
  BY <1>4, CallNames, PlainFits, FitPrograms DEF SwiftDownloadFile
<1>5. ASSUME c.op = "UploadFile" PROVE SwiftUploadFile(c.a) \in Seq(FitSteps(c))
  BY <1>5, CallNames, PlainFits, FitPrograms DEF SwiftUploadFile
<1> QED  BY <1>1, <1>2, <1>3, <1>4, <1>5

LEMMA FileFits ==
    ASSUME NEW c, GoodCall(c)
    PROVE  /\ c.op = "ListFiles" => FileListFiles(c.a) \in Seq(FitSteps(c))
           /\ c.op = "DeleteFile" => FileDeleteFile(c.a) \in Seq(FitSteps(c))
           /\ c.op = "MoveFile" => FileMoveFile(c.a, c.b) \in Seq(FitSteps(c))
           /\ c.op = "GetFileInfo" => FileGetFileInfo(c.a) \in Seq(FitSteps(c))
           /\ c.op = "DownloadFile" => FileDownloadFile(c.a) \in Seq(FitSteps(c))
           /\ c.op = "CreateDirectory" => FileCreateDirectory \in Seq(FitSteps(c))
<1> USE DEF Harmless, Treatments
<1>1. ASSUME c.op = "ListFiles" PROVE FileListFiles(c.a) \in Seq(FitSteps(c))
  BY <1>1, CallNames, PlainFits, FitPrograms DEF FileListFiles
<1>2. ASSUME c.op = "DeleteFile" PROVE FileDeleteFile(c.a) \in Seq(FitSteps(c))
  BY <1>2, CallNames, PlainFits, FitPrograms DEF FileDeleteFile
<1>3. ASSUME c.op = "MoveFile" PROVE FileMoveFile(c.a, c.b) \in Seq(FitSteps(c))
  BY <1>3, CallNames, PlainFits, FitPrograms DEF FileMoveFile
<1>4. ASSUME c.op = "GetFileInfo" PROVE FileGetFileInfo(c.a) \in Seq(FitSteps(c))
  BY <1>4, CallNames, PlainFits, FitPrograms DEF FileGetFileInfo
<1>5. ASSUME c.op = "DownloadFile" PROVE FileDownloadFile(c.a) \in Seq(FitSteps(c))
  BY <1>5, CallNames, PlainFits, FitPrograms DEF FileDownloadFile
<1>6. ASSUME c.op = "CreateDirectory" PROVE FileCreateDirectory \in Seq(FitSteps(c))
  BY <1>6, CallNames, PlainFits, FitPrograms DEF FileCreateDirectory
<1> QED  BY <1>1, <1>2, <1>3, <1>4, <1>5, <1>6

LEMMA SambaFits ==
    ASSUME NEW c, GoodCall(c)
    PROVE  /\ c.op = "ListFiles" => SambaListFiles(c.a) \in Seq(FitSteps(c))
           /\ c.op = "DeleteFile" => SambaDeleteFile(c.a) \in Seq(FitSteps(c))
           /\ c.op = "MoveFile" => SambaMoveFile(c.a, c.b) \in Seq(FitSteps(c))
           /\ c.op = "GetFileInfo" => SambaGetFileInfo(c.a) \in Seq(FitSteps(c))
           /\ c.op = "DownloadFile" => SambaDownloadFile(c.a) \in Seq(FitSteps(c))
           /\ c.op = "CreateDirectory" => SambaCreateDirectory \in Seq(FitSteps(c))
<1> USE DEF Harmless, Treatments
<1>1. ASSUME c.op = "ListFiles" PROVE SambaListFiles(c.a) \in Seq(FitSteps(c))
  BY <1>1, CallNames, PlainFits, FitPrograms DEF SambaListFiles
<1>2. ASSUME c.op = "DeleteFile" PROVE SambaDeleteFile(c.a) \in Seq(FitSteps(c))
  BY <1>2, CallNames, PlainFits, FitPrograms DEF SambaDeleteFile
<1>3. ASSUME c.op = "MoveFile" PROVE SambaMoveFile(c.a, c.b) \in Seq(FitSteps(c))
  BY <1>3, CallNames, PlainFits, FitPrograms DEF SambaMoveFile
<1>4. ASSUME c.op = "GetFileInfo" PROVE SambaGetFileInfo(c.a) \in Seq(FitSteps(c))
  BY <1>4, CallNames, PlainFits, FitPrograms DEF SambaGetFileInfo
<1>5. ASSUME c.op = "DownloadFile" PROVE SambaDownloadFile(c.a) \in Seq(FitSteps(c))
  BY <1>5, CallNames, PlainFits, FitPrograms DEF SambaDownloadFile
<1>6. ASSUME c.op = "CreateDirectory" PROVE SambaCreateDirectory \in Seq(FitSteps(c))
  BY <1>6, CallNames, PlainFits, FitPrograms DEF SambaCreateDirectory
<1> QED  BY <1>1, <1>2, <1>3, <1>4, <1>5, <1>6

LEMMA WasabiFits ==
    ASSUME NEW c, GoodCall(c), c.op = "MoveFile"
    PROVE  WasabiMoveFile(c.a, c.b) \in Seq(FitSteps(c))
BY PlainFits, FitPrograms DEF WasabiMoveFile

LEMMA HubicFits ==
    ASSUME NEW c, GoodCall(c)
    PROVE  /\ c.op = "ListFiles" => HubicListFiles(c.a) \in Seq(FitSteps(c))
           /\ c.op = "DeleteFile" => HubicDeleteFile(c.a) \in Seq(FitSteps(c))
           /\ c.op = "GetFileInfo" => HubicGetFileInfo(c.a) \in Seq(FitSteps(c))
           /\ c.op = "DownloadFile" => HubicDownloadFile(c.a) \in Seq(FitSteps(c))
           /\ c.op = "UploadFile" => HubicUploadFile(c.a) \in Seq(FitSteps(c))
           /\ c.op = "CreateDirectory" => HubicCreateDirectory \in Seq(FitSteps(c))
<1> USE DEF Harmless, Treatments
<1>1. \A v \in Harmless, x \in Asked : HubicCall(v, x, x) \in FitSteps(c) /\ Ask(v, x) \in FitSteps(c)
  BY CallBuilds DEF Builds
<1>2. ASSUME c.op = "ListFiles" PROVE HubicListFiles(c.a) \in Seq(FitSteps(c))
  BY <1>1, <1>2, CallNames, FitPrograms DEF HubicListFiles, HubicListEntries
<1>3. ASSUME c.op = "DeleteFile" PROVE HubicDeleteFile(c.a) \in Seq(FitSteps(c))
  <2> DEFINE s == HubicCall("delete", c.a, c.a)
  <2>1. s \in FitSteps(c)  BY <1>3, CallBuilds DEF Builds
  <2>2. HubicDeleteFile(c.a) = <<Where(s, {"notfound"}, "return")>>  BY DEF HubicDeleteFile, HubicClientDeleteFile
  <2> HIDE DEF s
  <2> QED  BY <2>1, <2>2, FitWhere, FitPrograms
<1>4. ASSUME c.op = "GetFileInfo" PROVE HubicGetFileInfo(c.a) \in Seq(FitSteps(c))
  <2> DEFINE s == HubicCall("stat", c.a, c.a)
  <2>1. s \in FitSteps(c)  BY <1>1, <1>4, CallNames
  <2>2. HubicGetFileInfo(c.a) = <<Where(s, {"notfound"}, "absent")>>  BY DEF HubicGetFileInfo, HubicClientGetFileInfo
  <2> HIDE DEF s
  <2> QED  BY <2>1, <2>2, FitWhere, FitPrograms
<1>5. ASSUME c.op = "DownloadFile" PROVE HubicDownloadFile(c.a) \in Seq(FitSteps(c))
  BY <1>1, <1>5, CallNames, FitPrograms DEF HubicDownloadFile, HubicClientDownloadFile
<1>6. ASSUME c.op = "UploadFile" PROVE HubicUploadFile(c.a) \in Seq(FitSteps(c))
  <2>1. HubicCall("put", c.a, c.a) \in FitSteps(c)  BY <1>6, CallBuilds DEF Builds
  <2> QED  BY <2>1, FitPrograms DEF HubicUploadFile, HubicClientUploadFile
<1>7. HubicCreateDirectory \in Seq(FitSteps(c))
  BY <1>1, CallNames, FitPrograms DEF HubicCreateDirectory, HubicClientCreateDirectory
<1> QED  BY <1>2, <1>3, <1>4, <1>5, <1>6, <1>7

LEMMA SFTPFits ==
    ASSUME NEW c, GoodCall(c)
    PROVE  /\ c.op = "ListFiles" => SFTPListFiles(c.a) \in Seq(FitSteps(c))
           /\ c.op = "DeleteFile" => SFTPDeleteFile(c.a) \in Seq(FitSteps(c))
           /\ c.op = "MoveFile" => SFTPMoveFile(c.a, c.b) \in Seq(FitSteps(c))
           /\ c.op = "GetFileInfo" => SFTPGetFileInfo(c.a) \in Seq(FitSteps(c))
           /\ c.op = "DownloadFile" => SFTPDownloadFile(c.a) \in Seq(FitSteps(c))
           /\ c.op = "CreateDirectory" => SFTPCreateDirectory \in Seq(FitSteps(c))
<1> USE DEF Harmless, Treatments
<1>1. NoError \in Choices /\ On(NoError, Errors, "next") \in Choices /\ Always("next") \in Choices /\ 8 \in Nat /\ 0 \in Nat
  BY NoErrorType, OnType, AlwaysType
<1>2. ASSUME NEW s \in FitSteps(c) PROVE SFTPRetry(s) \in FitSteps(c) /\ [SFTPRetry(s) EXCEPT !.spent = Always("next")] \in FitSteps(c)
  <2>1. Where(s, {"drop"}, "again") \in FitSteps(c)  BY FitWhere
  <2>2. SFTPRetry(s) \in FitSteps(c)  BY <1>1, <2>1, FitTries DEF SFTPRetry
  <2> QED  BY <1>1, <2>2, FitSpent
<1>3. ASSUME NEW v \in {"stat", "statdir"}, NEW x \in Asked, NEW t \in {"fail", "return"}
      PROVE  Step(v, x, x, On(On(NoError, Errors, "next"), {"ok"}, t), 0) \in FitSteps(c)
  <2>1. On(On(NoError, Errors, "next"), {"ok"}, t) \in Choices  BY <1>1, OnType
  <2>2. Builds(c, v, x, x)  BY CallBuilds
  <2> QED  BY <1>1, <2>1, <2>2 DEF Builds
<1>4. ASSUME c.op = "ListFiles" PROVE SFTPListFiles(c.a) \in Seq(FitSteps(c))
  BY <1>2, <1>4, CallNames, PlainFits, FitPrograms DEF SFTPListFiles
<1>5. ASSUME c.op = "DeleteFile" PROVE SFTPDeleteFile(c.a) \in Seq(FitSteps(c))
  BY <1>2, <1>5, CallNames, PlainFits, FitPrograms DEF SFTPDeleteFile
<1>6. ASSUME c.op = "MoveFile" PROVE SFTPMoveFile(c.a, c.b) \in Seq(FitSteps(c))
  <2>1. Step("stat", c.b, c.b, On(On(NoError, Errors, "next"), {"ok"}, "fail"), 0) \in FitSteps(c)  BY <1>3, <1>6, CallNames
  <2>2. Step("move", c.a, c.b, NoError, 0) \in FitSteps(c)  BY <1>6, PlainFits
  <2> QED  BY <1>2, <2>1, <2>2, FitPrograms DEF SFTPMoveFile
<1>7. ASSUME c.op = "GetFileInfo" PROVE SFTPGetFileInfo(c.a) \in Seq(FitSteps(c))
  BY <1>2, <1>7, CallNames, PlainFits, FitPrograms DEF SFTPGetFileInfo
<1>8. ASSUME c.op = "DownloadFile" PROVE SFTPDownloadFile(c.a) \in Seq(FitSteps(c))
  <2>1. ASSUME NEW v \in {"get", "read"} PROVE [Where(Ask(v, c.a), {"drop"}, "restart") EXCEPT !.tries = 8] \in FitSteps(c)
    <3>1. Where(Ask(v, c.a), {"drop"}, "restart") \in FitSteps(c)  BY <1>8, CallNames, PlainFits
    <3> QED  BY <1>1, <3>1, FitTries
  <2> QED  BY <2>1, FitPrograms DEF SFTPDownloadFile
<1>9. SFTPCreateDirectory \in Seq(FitSteps(c))
  <2>1. Step("statdir", "dir", "dir", On(On(NoError, Errors, "next"), {"ok"}, "return"), 0) \in FitSteps(c)  BY <1>3, CallNames
  <2>2. Ask("mkdir", "dir") \in FitSteps(c)  BY CallNames, PlainFits
  <2> QED  BY <1>2, <2>1, <2>2, FitPrograms DEF SFTPCreateDirectory
<1> QED  BY <1>4, <1>5, <1>6, <1>7, <1>8, <1>9

LEMMA WebDAVFits ==
    ASSUME NEW c, GoodCall(c)
    PROVE  /\ c.op = "ListFiles" => WebDAVListFiles(c.a) \in Seq(FitSteps(c))
           /\ c.op = "DeleteFile" => WebDAVDeleteFile(c.a) \in Seq(FitSteps(c))
           /\ c.op = "MoveFile" => WebDAVMoveFile(c.a, c.b) \in Seq(FitSteps(c))
           /\ c.op = "GetFileInfo" => WebDAVGetFileInfo(c.a) \in Seq(FitSteps(c))
           /\ c.op = "DownloadFile" => WebDAVDownloadFile(c.a) \in Seq(FitSteps(c))
           /\ c.op = "UploadFile" => WebDAVUploadFile(c.a) \in Seq(FitSteps(c))
           /\ c.op = "CreateDirectory" => WebDAVCreateDirectory \in Seq(FitSteps(c))
<1> USE DEF Harmless, Treatments
<1>1. /\ \A v \in Harmless, x \in Asked : WebDAVsendRequest(v, x, x) \in FitSteps(c) /\ Ask(v, x) \in FitSteps(c)
      /\ \A x \in Asked : Step("parse", x, x, On(NoError, {"drop"}, "restart"), 3) \in FitSteps(c)
  <2>1. On(NoError, {"drop"}, "restart") \in Choices /\ 3 \in Nat  BY NoErrorType, OnType
  <2>2. \A v \in Harmless, x \in Asked : Builds(c, v, x, x)  BY CallBuilds
  <2> QED  BY <2>1, <2>2 DEF Builds
<1>2. \A t \in {"return", "skip"} : Where(Where(Ask("cached", "dir"), {"ok"}, t), {"notfound"}, "next") \in FitSteps(c)
  BY CallNames, PlainFits, FitWhere
<1>3. ASSUME c.op = "ListFiles" PROVE WebDAVListFiles(c.a) \in Seq(FitSteps(c))
  BY <1>1, <1>3, CallNames, FitPrograms DEF WebDAVListFiles, WebDAVgetProperties
<1>4. ASSUME c.op = "DeleteFile" PROVE WebDAVDeleteFile(c.a) \in Seq(FitSteps(c))
  <2>1. WebDAVsendRequest("delete", c.a, c.a) \in FitSteps(c)  BY <1>4, CallBuilds DEF Builds
  <2> QED  BY <2>1, FitPrograms DEF WebDAVDeleteFile
<1>5. ASSUME c.op = "MoveFile" PROVE WebDAVMoveFile(c.a, c.b) \in Seq(FitSteps(c))
  <2>1. WebDAVsendRequest("rename", c.a, c.b) \in FitSteps(c)  BY <1>5, CallBuilds DEF Builds
  <2> QED  BY <2>1, FitPrograms DEF WebDAVMoveFile
<1>6. ASSUME c.op = "GetFileInfo" PROVE WebDAVGetFileInfo(c.a) \in Seq(FitSteps(c))
  <2> DEFINE p == WebDAVgetProperties("stat", c.a)
  <2>1. p[1] \in FitSteps(c) /\ p[2] \in FitSteps(c)  BY <1>1, <1>6, CallNames DEF WebDAVgetProperties
  <2>2. WebDAVGetFileInfo(c.a) = <<Where(p[1], {"notfound"}, "absent"), p[2]>>  BY DEF WebDAVGetFileInfo
  <2> HIDE DEF p
  <2>3. Where(p[1], {"notfound"}, "absent") \in FitSteps(c)  BY <2>1, FitWhere
  <2> QED  BY <2>1, <2>2, <2>3, FitPrograms
<1>7. ASSUME c.op = "DownloadFile" PROVE WebDAVDownloadFile(c.a) \in Seq(FitSteps(c))
  BY <1>1, <1>7, CallNames, FitPrograms DEF WebDAVDownloadFile
<1>8. ASSUME c.op = "UploadFile" PROVE WebDAVUploadFile(c.a) \in Seq(FitSteps(c))
  <2> DEFINE s == WebDAVsendRequest("mkdirsave", "dir", "dir")
             t == [s EXCEPT !.on["exists"] = "next", !.spent = Always("next")]
  <2>1. s \in FitSteps(c)  BY <1>1, CallNames
  <2>2. [s.on EXCEPT !["exists"] = "next"] \in Choices /\ Always("next") \in Choices
    <3>1. s.on \in Choices  BY <2>1 DEF FitSteps, AllSteps
    <3> QED  BY <3>1, ChoiceUpdate, AlwaysType
  <2>3. t = [s EXCEPT !.on = [s.on EXCEPT !["exists"] = "next"], !.spent = Always("next")]
    <3> HIDE DEF s
    <3> QED  BY <2>1 DEF FitSteps, AllSteps
  <2> HIDE DEF s
  <2>4. t \in FitSteps(c)
    BY <2>1, <2>2, <2>3, FitOnSpent
  <2> HIDE DEF t
  <2>5. WebDAVcreateParentDirectory \in Seq(FitSteps(c))
    BY <1>2, <2>4, FitPrograms DEF WebDAVcreateParentDirectory, s, t
  <2>6. WebDAVsendRequest("put", c.a, c.a) \in FitSteps(c)  BY <1>8, CallBuilds DEF Builds
  <2> QED  BY <2>5, <2>6, FitPrograms DEF WebDAVUploadFile
<1>9. WebDAVCreateDirectory \in Seq(FitSteps(c))
  <2>1. Where(WebDAVsendRequest("mkdirsave", "dir", "dir"), {"exists"}, "return") \in FitSteps(c)  BY <1>1, CallNames, FitWhere
  <2> QED  BY <1>2, <2>1, FitPrograms DEF WebDAVCreateDirectory
<1> QED  BY <1>3, <1>4, <1>5, <1>6, <1>7, <1>8, <1>9

LEMMA OneFits ==
    ASSUME NEW c, GoodCall(c), NEW business \in BOOLEAN
    PROVE  /\ c.op = "ListFiles" => OneListFiles(c.a) \in Seq(FitSteps(c))
           /\ c.op = "DeleteFile" => OneDeleteFile(c.a) \in Seq(FitSteps(c))
           /\ c.op = "MoveFile" => OneMoveFile(c.a, c.b) \in Seq(FitSteps(c))
           /\ c.op = "GetFileInfo" => OneGetFileInfo(c.a) \in Seq(FitSteps(c))
           /\ c.op = "DownloadFile" => OneDownloadFile(c.a) \in Seq(FitSteps(c))
           /\ c.op = "UploadFile" => OneUploadFile(c.a, business) \in Seq(FitSteps(c))
           /\ c.op = "CreateDirectory" => OneCreateDirectory \in Seq(FitSteps(c))
<1> USE DEF Harmless, Treatments
<1> DEFINE F == FitSteps(c)
<1> HIDE DEF F
<1>1. \A v \in Harmless, x \in Asked : OneCall(v, x, x) \in F /\ Ask(v, x) \in F  BY CallBuilds DEF Builds, F
<1>2. \A s \in F : \A set : \A then \in Treatments : Where(s, set, then) \in F  BY FitWhere DEF F
<1>3. ASSUME c.op = "ListFiles" PROVE OneListFiles(c.a) \in Seq(F)
  <2>1. \A d \in {"live", "fossils", c.a} : OneListEntries(d) \in Seq(F)
    BY <1>1, <1>3, CallNames, FitPrograms DEF OneListEntries
  <2> QED  BY <2>1, FitPrograms DEF OneListFiles
<1>4. ASSUME c.op = "DeleteFile" PROVE OneDeleteFile(c.a) \in Seq(F)
  <2>1. OneCall("delete", c.a, c.a) \in F  BY <1>4, CallBuilds DEF Builds, F
  <2> QED  BY <1>2, <2>1, FitPrograms DEF OneDeleteFile, OneClientDeleteFile
<1>5. ASSUME NEW d \in Asked
      PROVE  /\ OneClientCreateDirectory(d) \in Seq(F)
             /\ OneClientCreateDirectory(d)[1] \in F /\ OneClientCreateDirectory(d)[2] \in F
  <2>1. OneCall("statdir", "root", "root") \in F /\ Where(OneCall("mkdir", d, d), {"exists"}, "next") \in F
    BY <1>1, <1>2, CallNames
  <2> QED  BY <2>1, FitPrograms DEF OneClientCreateDirectory
<1>6. ASSUME c.op = "MoveFile" PROVE OneMoveFile(c.a, c.b) \in Seq(F)
  <2> DEFINE mkdir == OneClientCreateDirectory(ParentOf(c.b))
             ignored(step, then) == [step EXCEPT !.spent = Always(then),
                                                 !.on = [x \in Answers |-> IF @[x] = "fail" THEN then ELSE @[x]]]
             last == OneCall("move", c.a, c.b)
             first == Where(Where(last, {"ok"}, "return"), {"nodir"}, "next")
  <2>1. mkdir[1] \in F /\ mkdir[2] \in F  BY <1>5, CallNames DEF ParentOf
  <2>2. last \in F  BY <1>6, CallBuilds DEF Builds, F
  <2>3. ASSUME NEW t \in F, NEW then \in {"skip", "next", "return"} PROVE ignored(t, then) \in F
    <3>1. Always(then) \in Choices  BY AlwaysType
    <3>2. t.on \in Choices  BY DEF F, FitSteps, AllSteps
    <3>3. [x \in Answers |-> IF t.on[x] = "fail" THEN then ELSE t.on[x]] \in Choices  BY <3>2 DEF Choices
    <3>4. [t EXCEPT !.spent = Always(then), !.on = [x \in Answers |-> IF t.on[x] = "fail" THEN then ELSE t.on[x]]] \in F
      BY <3>1, <3>3, FitSpentOn DEF F
    <3>5. ignored(t, then) = [t EXCEPT !.spent = Always(then), !.on = [x \in Answers |-> IF t.on[x] = "fail" THEN then ELSE t.on[x]]]
      BY DEF F, FitSteps, AllSteps
    <3> QED  BY <3>4, <3>5
  <2>4. OneClientMoveFile(c.a, c.b) = <<first, ignored(mkdir[1], "skip"), ignored(mkdir[2], "next"), ignored(last, "return")>>
    BY DEF OneClientMoveFile
  <2> HIDE DEF mkdir, ignored, last
  <2>5. first \in F  BY <1>2, <2>2
  <2> HIDE DEF first
  <2> DEFINE p == OneClientMoveFile(c.a, c.b)
             u == Where(first, {"exists"}, "return")
  <2>6. p \in Seq(F) /\ Len(p) = 4 /\ p[1] = first  BY <2>1, <2>2, <2>3, <2>4, <2>5
  <2>7. u \in F  BY <1>2, <2>5
  <2>8. OneMoveFile(c.a, c.b) = [p EXCEPT ![1] = u]  BY <2>6 DEF OneMoveFile
  <2> HIDE DEF p, u
  <2>9. p \in [1 .. 4 -> F]  BY <2>6, LenProperties, Zenon
  <2>10. OneMoveFile(c.a, c.b) \in [1 .. 4 -> F]  BY <2>7, <2>8, <2>9
  <2> QED
    <3>1. 4 \in Nat  OBVIOUS
    <3> QED  BY <2>10, <3>1, FunctionIsSequence
<1>7. ASSUME c.op = "GetFileInfo" PROVE OneGetFileInfo(c.a) \in Seq(F)
  <2>1. OneCall("stat", c.a, c.a) \in F  BY <1>1, <1>7, CallNames
  <2> QED  BY <1>2, <2>1, FitPrograms DEF OneGetFileInfo, OneClientGetFileInfo
<1>8. ASSUME c.op = "DownloadFile" PROVE OneDownloadFile(c.a) \in Seq(F)
  <2>1. Unconverted(c.a) \in Asked /\ c.a \in Asked  BY <1>8, CallNames DEF Unconverted
  <2> QED  BY <1>1, <2>1, FitPrograms DEF OneDownloadFile, OneClientDownloadFile
<1>9. ASSUME c.op = "UploadFile" PROVE OneUploadFile(c.a, business) \in Seq(F)
  <2> DEFINE p == OneClientUploadFile(c.a, business)
  <2>1. p \in Seq(F)
    <3>1. OneCall("send", c.a, c.a) \in F /\ Ask("parse", c.a) \in F  BY <1>1, <1>9, CallNames
    <3>2. OneCall("put", c.a, c.a) \in F  BY <1>9, CallBuilds DEF Builds, F
    <3>3. <<OneCall("send", c.a, c.a)>> \in Seq(F) /\ <<OneCall("put", c.a, c.a), Ask("parse", c.a)>> \in Seq(F)
          /\ <<OneCall("put", c.a, c.a)>> \in Seq(F)
      BY <3>1, <3>2, FitPrograms
    <3> QED  BY <3>3, FitPrograms DEF OneClientUploadFile, OneCreateUploadSession, OneUploadFileSession
  <2>2. OneUploadFile(c.a, business) = [i \in DOMAIN p |-> Where(p[i], {"exists"}, "return")]  BY DEF OneUploadFile
  <2> HIDE DEF p
  <2>3. DOMAIN p = 1 .. Len(p) /\ Len(p) \in Nat  BY <2>1
  <2>4. \A i \in DOMAIN p : Where(p[i], {"exists"}, "return") \in F  BY <1>2, <2>1
  <2> QED  BY <2>2, <2>3, <2>4
<1>10. OneCreateDirectory \in Seq(F)  BY <1>5, CallNames DEF OneCreateDirectory
<1> QED  BY <1>3, <1>4, <1>6, <1>7, <1>8, <1>9, <1>10 DEF F

LEMMA GCDFits ==
    ASSUME NEW c, GoodCall(c)
    PROVE  /\ c.op = "ListFiles" => GCDListFiles(c.a) \in Seq(FitSteps(c))
           /\ c.op = "DeleteFile" => GCDDeleteFile(c.a) \in Seq(FitSteps(c))
           /\ c.op = "MoveFile" => GCDMoveFile(c.a, c.b) \in Seq(FitSteps(c))
           /\ c.op = "GetFileInfo" => GCDGetFileInfo(c.a) \in Seq(FitSteps(c))
           /\ c.op = "DownloadFile" => GCDDownloadFile(c.a) \in Seq(FitSteps(c))
           /\ c.op = "UploadFile" => GCDUploadFile(c.a) \in Seq(FitSteps(c))
           /\ c.op = "CreateDirectory" => GCDCreateDirectory("dir") \in Seq(FitSteps(c))
<1> USE DEF Harmless, Treatments
<1> DEFINE F == FitSteps(c)
<1> HIDE DEF F
<1>1. \A v \in Harmless, x \in Asked : GCDshouldRetry(v, x, x) \in F /\ Ask(v, x) \in F  BY CallBuilds DEF Builds, F
<1>2. \A s \in F : \A set : \A then \in Treatments : Where(s, set, then) \in F  BY FitWhere DEF F
<1>3. \A x \in Asked : GCDlistByName(x) \in F  BY <1>1 DEF GCDlistByName
<1>4. ASSUME c.op = "ListFiles" PROVE GCDListFiles(c.a) \in Seq(F)
  <2>1. \A d \in {"live", "fossils", c.a} : GCDlistFiles(d) \in Seq(F)
    BY <1>1, <1>4, CallNames, FitPrograms DEF GCDlistFiles
  <2>2. Where(Ask("idsaved", "dir"), {"notfound"}, "hang") \in F  BY <1>1, <1>2, CallNames
  <2> QED  BY <2>1, <2>2, FitPrograms DEF GCDListFiles
<1>5. ASSUME c.op = "DeleteFile" PROVE GCDDeleteFile(c.a) \in Seq(F)
  <2> DEFINE w == Where(GCDlistByName(c.a), {"notfound"}, "return")
  <2>1. w \in F  BY <1>2, <1>3, <1>5, CallNames
  <2>2. Always("return") \in Choices  BY AlwaysType
  <2>3. GCDshouldRetry("delete", c.a, c.a) \in F  BY <1>5, CallBuilds DEF Builds, F
  <2>4. Where(GCDshouldRetry("delete", c.a, c.a), {"notfound"}, "return") \in F  BY <1>2, <2>3
  <2> HIDE DEF w
  <2>5. [w EXCEPT !.spent = Always("return")] \in F  BY <2>1, <2>2, FitSpent DEF F
  <2> QED  BY <2>4, <2>5, FitPrograms DEF GCDDeleteFile, w
<1>6. ASSUME NEW d \in Asked PROVE GCDCreateDirectory(d) \in Seq(F)
  <2>1. Where(Where(Ask("cached", d), {"ok"}, "skip2"), {"notfound"}, "next") \in F  BY <1>1, <1>2
  <2>2. Where(Where(GCDlistByName(d), {"ok"}, "skip"), {"notfound"}, "next") \in F  BY <1>2, <1>3
  <2>3. GCDshouldRetry("mkdirsave", d, d) \in F  BY <1>1
  <2> QED  BY <2>1, <2>2, <2>3, FitPrograms DEF GCDCreateDirectory
<1>7. ASSUME NEW d \in Asked, NEW create \in BOOLEAN
      PROVE  /\ GCDgetIDFromPath(d, create) \in Seq(F)
             /\ ~create => GCDgetIDFromPath(d, create)[1] \in F /\ GCDgetIDFromPath(d, create)[2] \in F
  <2> DEFINE s1 == Where(Where(Ask("cached", d), {"ok"}, "skip"), {"notfound"}, "next")
             s2 == Where(GCDlistByName(d), {"notfound"}, IF create THEN "next" ELSE "fail")
             q == IF create THEN GCDCreateDirectory(d) ELSE <<>>
  <2>1. s1 \in F  BY <1>1, <1>2
  <2>2. s2 \in F  BY <1>2, <1>3
  <2>3. q \in Seq(F)  BY <1>6, FitPrograms
  <2>4. GCDgetIDFromPath(d, create) = <<s1, s2>> \o q  BY DEF GCDgetIDFromPath
  <2>5. ~create => q = <<>>  OBVIOUS
  <2> HIDE DEF s1, s2, q
  <2> QED  BY <2>1, <2>2, <2>3, <2>4, <2>5
<1>8. ParentOf(c.a) \in Asked /\ ParentOf(c.b) \in Asked  BY CallNames DEF ParentOf
<1>9. ASSUME c.op = "MoveFile" PROVE GCDMoveFile(c.a, c.b) \in Seq(F)
  <2>1. GCDshouldRetry("reparent", c.a, c.b) \in F  BY <1>9, CallBuilds DEF Builds, F
  <2>2. <<GCDlistByName(c.a)>> \in Seq(F) /\ <<GCDshouldRetry("reparent", c.a, c.b)>> \in Seq(F)
    BY <1>3, <1>9, <2>1, CallNames, FitPrograms
  <2>3. GCDgetIDFromPath(ParentOf(c.a), FALSE) \in Seq(F) /\ GCDgetIDFromPath(ParentOf(c.b), TRUE) \in Seq(F)  BY <1>7, <1>8
  <2> QED  BY <2>2, <2>3, FitPrograms DEF GCDMoveFile
<1>10. ASSUME c.op = "GetFileInfo" PROVE GCDGetFileInfo(c.a) \in Seq(F)
  <2> DEFINE p == GCDgetIDFromPath(ParentOf(c.a), FALSE)
  <2>1. p[1] \in F /\ p[2] \in F  BY <1>7, <1>8
  <2>2. GCDGetFileInfo(c.a) = <<p[1], Where(p[2], {"notfound"}, "absent"), Where(GCDlistByName(c.a), {"notfound"}, "absent")>>
    BY DEF GCDGetFileInfo
  <2> HIDE DEF p
  <2>3. Where(p[2], {"notfound"}, "absent") \in F /\ Where(GCDlistByName(c.a), {"notfound"}, "absent") \in F
    BY <1>2, <1>3, <1>10, <2>1, CallNames
  <2> QED  BY <2>1, <2>2, <2>3, FitPrograms
<1>11. ASSUME c.op = "DownloadFile" PROVE GCDDownloadFile(c.a) \in Seq(F)
  BY <1>1, <1>3, <1>11, CallNames, FitPrograms DEF GCDDownloadFile
<1>12. ASSUME c.op = "UploadFile" PROVE GCDUploadFile(c.a) \in Seq(F)
  <2>1. GCDshouldRetry("putmore", c.a, c.a) \in F  BY <1>12, CallBuilds DEF Builds, F
  <2>2. GCDgetIDFromPath("dir", TRUE) \in Seq(F)  BY <1>7, CallNames
  <2> QED  BY <2>1, <2>2, FitPrograms DEF GCDUploadFile
<1>13. GCDCreateDirectory("dir") \in Seq(F)  BY <1>6, CallNames
<1> QED  BY <1>4, <1>5, <1>9, <1>10, <1>11, <1>12, <1>13 DEF F

LEMMA FFFits ==
    ASSUME NEW c, GoodCall(c)
    PROVE  /\ c.op = "ListFiles" => FFListFiles(c.a) \in Seq(FitSteps(c))
           /\ c.op = "DeleteFile" => FFDeleteFile(c.a) \in Seq(FitSteps(c))
           /\ c.op = "MoveFile" => FFMoveFile(c.a, c.b) \in Seq(FitSteps(c))
           /\ c.op = "GetFileInfo" => FFGetFileInfo(c.a) \in Seq(FitSteps(c))
           /\ c.op = "DownloadFile" => FFDownloadFile(c.a) \in Seq(FitSteps(c))
           /\ c.op = "UploadFile" => FFUploadFile(c.a) \in Seq(FitSteps(c))
           /\ c.op = "CreateDirectory" => FFCreateDirectory \in Seq(FitSteps(c))
<1> USE DEF Harmless, Treatments
<1> DEFINE F == FitSteps(c)
<1> HIDE DEF F
<1>1. \A v \in Harmless, x, y \in Asked : FFsendRequest(v, x, y) \in F /\ Ask(v, x) \in F  BY CallBuilds DEF Builds, F
<1>2. \A s \in F : \A set : \A then \in Treatments : Where(s, set, then) \in F  BY FitWhere DEF F
<1>3. ASSUME c.op = "ListFiles" PROVE FFListFiles(c.a) \in Seq(F)
  <2> DEFINE s == FFsendRequest("statdir", IF c.a = "chunks" THEN "dir" ELSE "root", c.a)
  <2>1. s \in F /\ FFsendRequest("pages", c.a, c.a) \in F  BY <1>1, <1>3, CallNames
  <2>2. FFListFiles(c.a) = <<Where(s, {"nodir"}, "return"), FFsendRequest("pages", c.a, c.a)>>  BY DEF FFListFiles
  <2> HIDE DEF s
  <2> QED  BY <1>2, <2>1, <2>2, FitPrograms
<1>4. ASSUME NEW a \in Asked PROVE FFlookup(a) \in F
  <2> DEFINE w == Where(FFgetFileInfo(a), {"notfound"}, "return")
             sp == [w.spent EXCEPT !["drop"] = "return"]
  <2>1. w \in F  BY <1>1, <1>2 DEF FFgetFileInfo
  <2>2. FFlookup(a) = [w EXCEPT !.spent["drop"] = "return"]  BY DEF FFlookup
  <2> HIDE DEF w
  <2>3. sp \in Choices
    <3>1. w.spent \in Choices  BY <2>1 DEF F, FitSteps, AllSteps
    <3> QED  BY <3>1, ChoiceUpdate
  <2>4. FFlookup(a) = [w EXCEPT !.spent = sp]  BY <2>1, <2>2 DEF F, FitSteps, AllSteps
  <2> HIDE DEF sp
  <2>5. [w EXCEPT !.spent = sp] \in F  BY <2>1, <2>3, FitSpent DEF F
  <2> QED  BY <2>4, <2>5
<1>5. ASSUME c.op = "DeleteFile" PROVE FFDeleteFile(c.a) \in Seq(F)
  <2>1. FFsendRequest("delete", c.a, c.a) \in F  BY <1>5, CallBuilds DEF Builds, F
  <2> QED  BY <1>4, <1>5, <2>1, CallNames, FitPrograms DEF FFDeleteFile
<1>6. ASSUME c.op = "MoveFile" PROVE FFMoveFile(c.a, c.b) \in Seq(F)
  <2>1. FFsendRequest("move", c.a, c.b) \in F  BY <1>6, CallBuilds DEF Builds, F
  <2> QED  BY <1>4, <1>6, <2>1, CallNames, FitPrograms DEF FFMoveFile
<1>7. ASSUME c.op = "GetFileInfo" PROVE FFGetFileInfo(c.a) \in Seq(F)
  BY <1>1, <1>2, <1>7, CallNames, FitPrograms DEF FFGetFileInfo, FFgetFileInfo
<1>8. ASSUME c.op = "DownloadFile" PROVE FFDownloadFile(c.a) \in Seq(F)
  BY <1>1, <1>8, CallNames, FitPrograms DEF FFDownloadFile
<1>9. FFcreateDirectory \in F  BY <1>1, CallNames DEF FFcreateDirectory
<1>10. ASSUME c.op = "UploadFile" PROVE FFUploadFile(c.a) \in Seq(F)
  <2> DEFINE s == FFsendRequest("put", c.a, c.a)
  <2>1. s \in F  BY <1>10, CallBuilds DEF Builds, F
  <2>2. Always("panic") \in Choices  BY AlwaysType
  <2>3. Where(Where(Ask("cached", "dir"), {"ok"}, "skip2"), {"notfound"}, "next") \in F  BY <1>1, <1>2, CallNames
  <2>4. Where(Where(FFcreateDirectory, {"ok"}, "skip"), {"exists"}, "next") \in F  BY <1>2, <1>9
  <2>5. FFsendRequest("lookup", "dir", "dir") \in F  BY <1>1, CallNames
  <2>6. FFcreateParentDirectory \in Seq(F)  BY <2>3, <2>4, <2>5, FitPrograms DEF FFcreateParentDirectory
  <2> HIDE DEF s
  <2>7. [s EXCEPT !.spent = Always("panic")] \in F  BY <2>1, <2>2, FitSpent DEF F
  <2> QED  BY <2>6, <2>7, FitPrograms DEF FFUploadFile, s
<1>11. FFCreateDirectory \in Seq(F)  BY <1>2, <1>9, FitPrograms DEF FFCreateDirectory
<1> QED  BY <1>3, <1>5, <1>6, <1>7, <1>8, <1>10, <1>11 DEF F

LEMMA ProgramsFit ==
    ASSUME NEW k \in Keeping, NEW c, GoodCall(c), ~Renames(k, c), ~(k \in Copiers /\ c.op = "MoveFile")
    PROVE  Program(k, c) \in Seq(FitSteps(c))
<1> DEFINE P == Seq(FitSteps(c))
           a == c.a
           b == c.b
<1> HIDE DEF P
<1> SUFFICES Program(k, c) \in P  BY DEF P
<1>0. Nothing \in P  BY FitPrograms DEF Nothing, P
<1>1. CASE k = "s3"
  <2>1. Program(k, c) = Methods(c, S3ListFiles(a), S3DeleteFile(a), S3MoveFile(a, b), S3GetFileInfo(a),
                                S3DownloadFile(a), S3UploadFile(a), Nothing)
    BY <1>1 DEF Program
  <2>2. /\ c.op = "ListFiles" => S3ListFiles(a) \in P
        /\ c.op = "DeleteFile" => S3DeleteFile(a) \in P
        /\ c.op = "MoveFile" => S3MoveFile(a, b) \in P
        /\ c.op = "GetFileInfo" => S3GetFileInfo(a) \in P
        /\ c.op = "DownloadFile" => S3DownloadFile(a) \in P
        /\ c.op = "UploadFile" => S3UploadFile(a) \in P
        /\ c.op = "CreateDirectory" => Nothing \in P
    <3>1. c.op # "MoveFile"  BY <1>1 DEF Copiers
    <3> QED  BY <1>0, <3>1, S3Fits DEF P
  <2> HIDE DEF a, b
  <2> QED  BY <2>1, <2>2, MethodChosen
<1>2. CASE k = "s3c"
  <2>1. Program(k, c) = Methods(c, S3CListFiles(a), S3CDeleteFile(a), S3CMoveFile(a, b), S3CGetFileInfo(a),
                                S3CDownloadFile(a), S3CUploadFile(a), Nothing)
    BY <1>2 DEF Program
  <2>2. /\ c.op = "ListFiles" => S3CListFiles(a) \in P
        /\ c.op = "DeleteFile" => S3CDeleteFile(a) \in P
        /\ c.op = "MoveFile" => S3CMoveFile(a, b) \in P
        /\ c.op = "GetFileInfo" => S3CGetFileInfo(a) \in P
        /\ c.op = "DownloadFile" => S3CDownloadFile(a) \in P
        /\ c.op = "UploadFile" => S3CUploadFile(a) \in P
        /\ c.op = "CreateDirectory" => Nothing \in P
    <3>1. c.op # "MoveFile"  BY <1>2 DEF Copiers
    <3> QED  BY <1>0, <3>1, S3CFits DEF P
  <2> HIDE DEF a, b
  <2> QED  BY <2>1, <2>2, MethodChosen
<1>3. CASE k = "wasabi"
  <2>1. Program(k, c) = Methods(c, WasabiListFiles(a), WasabiDeleteFile(a), WasabiMoveFile(a, b), WasabiGetFileInfo(a),
                                WasabiDownloadFile(a), WasabiUploadFile(a), Nothing)
    BY <1>3 DEF Program
  <2>2. /\ c.op = "ListFiles" => WasabiListFiles(a) \in P
        /\ c.op = "DeleteFile" => WasabiDeleteFile(a) \in P
        /\ c.op = "MoveFile" => WasabiMoveFile(a, b) \in P
        /\ c.op = "GetFileInfo" => WasabiGetFileInfo(a) \in P
        /\ c.op = "DownloadFile" => WasabiDownloadFile(a) \in P
        /\ c.op = "UploadFile" => WasabiUploadFile(a) \in P
        /\ c.op = "CreateDirectory" => Nothing \in P
    BY <1>0, S3Fits, WasabiFits DEF P, WasabiListFiles, WasabiDeleteFile, WasabiGetFileInfo, WasabiDownloadFile, WasabiUploadFile
  <2> HIDE DEF a, b
  <2> QED  BY <2>1, <2>2, MethodChosen
<1>4. CASE k = "azure"
  <2>1. Program(k, c) = Methods(c, AzureListFiles(a), AzureDeleteFile(a), AzureMoveFile(a, b), AzureGetFileInfo(a),
                                AzureDownloadFile(a), AzureUploadFile(a), Nothing)
    BY <1>4 DEF Program
  <2>2. /\ c.op = "ListFiles" => AzureListFiles(a) \in P
        /\ c.op = "DeleteFile" => AzureDeleteFile(a) \in P
        /\ c.op = "MoveFile" => AzureMoveFile(a, b) \in P
        /\ c.op = "GetFileInfo" => AzureGetFileInfo(a) \in P
        /\ c.op = "DownloadFile" => AzureDownloadFile(a) \in P
        /\ c.op = "UploadFile" => AzureUploadFile(a) \in P
        /\ c.op = "CreateDirectory" => Nothing \in P
    <3>1. c.op # "MoveFile"  BY <1>4 DEF Copiers
    <3> QED  BY <1>0, <3>1, AzureFits DEF P
  <2> HIDE DEF a, b
  <2> QED  BY <2>1, <2>2, MethodChosen
<1>5. CASE k = "gcs"
  <2>1. Program(k, c) = Methods(c, GCSListFiles(a), GCSDeleteFile(a), GCSMoveFile(a, b), GCSGetFileInfo(a),
                                GCSDownloadFile(a), GCSUploadFile(a), Nothing)
    BY <1>5 DEF Program
  <2>2. /\ c.op = "ListFiles" => GCSListFiles(a) \in P
        /\ c.op = "DeleteFile" => GCSDeleteFile(a) \in P
        /\ c.op = "MoveFile" => GCSMoveFile(a, b) \in P
        /\ c.op = "GetFileInfo" => GCSGetFileInfo(a) \in P
        /\ c.op = "DownloadFile" => GCSDownloadFile(a) \in P
        /\ c.op = "UploadFile" => GCSUploadFile(a) \in P
        /\ c.op = "CreateDirectory" => Nothing \in P
    <3>1. c.op # "MoveFile"  BY <1>5 DEF Copiers
    <3> QED  BY <1>0, <3>1, GCSFits DEF P
  <2> HIDE DEF a, b
  <2> QED  BY <2>1, <2>2, MethodChosen
<1>6. CASE k = "storj"
  <2>1. Program(k, c) = Methods(c, StorjListFiles(a), StorjDeleteFile(a), StorjMoveFile(a, b), StorjGetFileInfo(a),
                                StorjDownloadFile(a), StorjUploadFile(a), Nothing)
    BY <1>6 DEF Program
  <2>2. /\ c.op = "ListFiles" => StorjListFiles(a) \in P
        /\ c.op = "DeleteFile" => StorjDeleteFile(a) \in P
        /\ c.op = "MoveFile" => StorjMoveFile(a, b) \in P
        /\ c.op = "GetFileInfo" => StorjGetFileInfo(a) \in P
        /\ c.op = "DownloadFile" => StorjDownloadFile(a) \in P
        /\ c.op = "UploadFile" => StorjUploadFile(a) \in P
        /\ c.op = "CreateDirectory" => Nothing \in P
    BY <1>0, StorjFits DEF P
  <2> HIDE DEF a, b
  <2> QED  BY <2>1, <2>2, MethodChosen
<1>7. CASE k = "dropbox"
  <2>1. Program(k, c) = Methods(c, DropboxListFiles(a), DropboxDeleteFile(a), DropboxMoveFile(a, b), DropboxGetFileInfo(a),
                                DropboxDownloadFile(a), DropboxUploadFile(a), DropboxCreateDirectory)
    BY <1>7 DEF Program
  <2>2. /\ c.op = "ListFiles" => DropboxListFiles(a) \in P
        /\ c.op = "DeleteFile" => DropboxDeleteFile(a) \in P
        /\ c.op = "MoveFile" => DropboxMoveFile(a, b) \in P
        /\ c.op = "GetFileInfo" => DropboxGetFileInfo(a) \in P
        /\ c.op = "DownloadFile" => DropboxDownloadFile(a) \in P
        /\ c.op = "UploadFile" => DropboxUploadFile(a) \in P
        /\ c.op = "CreateDirectory" => DropboxCreateDirectory \in P
    BY <1>0, DropboxFits DEF P
  <2> HIDE DEF a, b
  <2> QED  BY <2>1, <2>2, MethodChosen
<1>8. CASE k = "swift"
  <2>1. Program(k, c) = Methods(c, SwiftListFiles(a), SwiftDeleteFile(a), SwiftMoveFile(a, b), SwiftGetFileInfo(a),
                                SwiftDownloadFile(a), SwiftUploadFile(a), Nothing)
    BY <1>8 DEF Program
  <2>2. /\ c.op = "ListFiles" => SwiftListFiles(a) \in P
        /\ c.op = "DeleteFile" => SwiftDeleteFile(a) \in P
        /\ c.op = "MoveFile" => SwiftMoveFile(a, b) \in P
        /\ c.op = "GetFileInfo" => SwiftGetFileInfo(a) \in P
        /\ c.op = "DownloadFile" => SwiftDownloadFile(a) \in P
        /\ c.op = "UploadFile" => SwiftUploadFile(a) \in P
        /\ c.op = "CreateDirectory" => Nothing \in P
    <3>1. c.op # "MoveFile"  BY <1>8 DEF Copiers
    <3> QED  BY <1>0, <3>1, SwiftFits DEF P
  <2> HIDE DEF a, b
  <2> QED  BY <2>1, <2>2, MethodChosen
<1>9. CASE k = "hubic"
  <2>1. Program(k, c) = Methods(c, HubicListFiles(a), HubicDeleteFile(a), HubicMoveFile(a, b), HubicGetFileInfo(a),
                                HubicDownloadFile(a), HubicUploadFile(a), HubicCreateDirectory)
    BY <1>9 DEF Program
  <2>2. /\ c.op = "ListFiles" => HubicListFiles(a) \in P
        /\ c.op = "DeleteFile" => HubicDeleteFile(a) \in P
        /\ c.op = "MoveFile" => HubicMoveFile(a, b) \in P
        /\ c.op = "GetFileInfo" => HubicGetFileInfo(a) \in P
        /\ c.op = "DownloadFile" => HubicDownloadFile(a) \in P
        /\ c.op = "UploadFile" => HubicUploadFile(a) \in P
        /\ c.op = "CreateDirectory" => HubicCreateDirectory \in P
    <3>1. c.op # "MoveFile"  BY <1>9 DEF Copiers
    <3> QED  BY <1>0, <3>1, HubicFits DEF P
  <2> HIDE DEF a, b
  <2> QED  BY <2>1, <2>2, MethodChosen
<1>10. CASE k = "file"
  <2>1. Program(k, c) = Methods(c, FileListFiles(a), FileDeleteFile(a), FileMoveFile(a, b), FileGetFileInfo(a),
                                FileDownloadFile(a), FileUploadFile(a), FileCreateDirectory)
    BY <1>10 DEF Program
  <2>2. /\ c.op = "ListFiles" => FileListFiles(a) \in P
        /\ c.op = "DeleteFile" => FileDeleteFile(a) \in P
        /\ c.op = "MoveFile" => FileMoveFile(a, b) \in P
        /\ c.op = "GetFileInfo" => FileGetFileInfo(a) \in P
        /\ c.op = "DownloadFile" => FileDownloadFile(a) \in P
        /\ c.op = "UploadFile" => FileUploadFile(a) \in P
        /\ c.op = "CreateDirectory" => FileCreateDirectory \in P
    <3>1. c.op # "UploadFile"  BY <1>10 DEF Renames
    <3> QED  BY <1>0, <3>1, FileFits DEF P
  <2> HIDE DEF a, b
  <2> QED  BY <2>1, <2>2, MethodChosen
<1>11. CASE k = "samba"
  <2>1. Program(k, c) = Methods(c, SambaListFiles(a), SambaDeleteFile(a), SambaMoveFile(a, b), SambaGetFileInfo(a),
                                SambaDownloadFile(a), SambaUploadFile(a), SambaCreateDirectory)
    BY <1>11 DEF Program
  <2>2. /\ c.op = "ListFiles" => SambaListFiles(a) \in P
        /\ c.op = "DeleteFile" => SambaDeleteFile(a) \in P
        /\ c.op = "MoveFile" => SambaMoveFile(a, b) \in P
        /\ c.op = "GetFileInfo" => SambaGetFileInfo(a) \in P
        /\ c.op = "DownloadFile" => SambaDownloadFile(a) \in P
        /\ c.op = "UploadFile" => SambaUploadFile(a) \in P
        /\ c.op = "CreateDirectory" => SambaCreateDirectory \in P
    <3>1. c.op # "UploadFile"  BY <1>11 DEF Renames
    <3> QED  BY <1>0, <3>1, SambaFits DEF P
  <2> HIDE DEF a, b
  <2> QED  BY <2>1, <2>2, MethodChosen
<1>12. CASE k = "sftp"
  <2>1. Program(k, c) = Methods(c, SFTPListFiles(a), SFTPDeleteFile(a), SFTPMoveFile(a, b), SFTPGetFileInfo(a),
                                SFTPDownloadFile(a), SFTPUploadFile(a), SFTPCreateDirectory)
    BY <1>12 DEF Program
  <2>2. /\ c.op = "ListFiles" => SFTPListFiles(a) \in P
        /\ c.op = "DeleteFile" => SFTPDeleteFile(a) \in P
        /\ c.op = "MoveFile" => SFTPMoveFile(a, b) \in P
        /\ c.op = "GetFileInfo" => SFTPGetFileInfo(a) \in P
        /\ c.op = "DownloadFile" => SFTPDownloadFile(a) \in P
        /\ c.op = "UploadFile" => SFTPUploadFile(a) \in P
        /\ c.op = "CreateDirectory" => SFTPCreateDirectory \in P
    <3>1. c.op # "UploadFile"  BY <1>12 DEF Renames
    <3> QED  BY <1>0, <3>1, SFTPFits DEF P
  <2> HIDE DEF a, b
  <2> QED  BY <2>1, <2>2, MethodChosen
<1>13. CASE k = "webdav"
  <2>1. Program(k, c) = Methods(c, WebDAVListFiles(a), WebDAVDeleteFile(a), WebDAVMoveFile(a, b), WebDAVGetFileInfo(a),
                                WebDAVDownloadFile(a), WebDAVUploadFile(a), WebDAVCreateDirectory)
    BY <1>13 DEF Program
  <2>2. /\ c.op = "ListFiles" => WebDAVListFiles(a) \in P
        /\ c.op = "DeleteFile" => WebDAVDeleteFile(a) \in P
        /\ c.op = "MoveFile" => WebDAVMoveFile(a, b) \in P
        /\ c.op = "GetFileInfo" => WebDAVGetFileInfo(a) \in P
        /\ c.op = "DownloadFile" => WebDAVDownloadFile(a) \in P
        /\ c.op = "UploadFile" => WebDAVUploadFile(a) \in P
        /\ c.op = "CreateDirectory" => WebDAVCreateDirectory \in P
    BY <1>0, WebDAVFits DEF P
  <2> HIDE DEF a, b
  <2> QED  BY <2>1, <2>2, MethodChosen
<1>14. CASE k = "onedrive"
  <2>1. Program(k, c) = Methods(c, OneListFiles(a), OneDeleteFile(a), OneMoveFile(a, b), OneGetFileInfo(a),
                                OneDownloadFile(a), OneUploadFile(a, FALSE), OneCreateDirectory)
    BY <1>14 DEF Program
  <2>2. /\ c.op = "ListFiles" => OneListFiles(a) \in P
        /\ c.op = "DeleteFile" => OneDeleteFile(a) \in P
        /\ c.op = "MoveFile" => OneMoveFile(a, b) \in P
        /\ c.op = "GetFileInfo" => OneGetFileInfo(a) \in P
        /\ c.op = "DownloadFile" => OneDownloadFile(a) \in P
        /\ c.op = "UploadFile" => OneUploadFile(a, FALSE) \in P
        /\ c.op = "CreateDirectory" => OneCreateDirectory \in P
    BY <1>0, OneFits DEF P
  <2> DEFINE u == OneUploadFile(a, FALSE)
  <2> HIDE DEF a, b, u
  <2>3. Program(k, c) = Methods(c, OneListFiles(a), OneDeleteFile(a), OneMoveFile(a, b), OneGetFileInfo(a),
                                OneDownloadFile(a), u, OneCreateDirectory)
        /\ (c.op = "UploadFile" => u \in P)
    BY <2>1, <2>2 DEF u
  <2> QED  BY <2>2, <2>3, MethodChosen
<1>15. CASE k = "business"
  <2>1. Program(k, c) = Methods(c, OneListFiles(a), OneDeleteFile(a), OneMoveFile(a, b), OneGetFileInfo(a),
                                OneDownloadFile(a), OneUploadFile(a, TRUE), OneCreateDirectory)
    BY <1>15 DEF Program
  <2>2. /\ c.op = "ListFiles" => OneListFiles(a) \in P
        /\ c.op = "DeleteFile" => OneDeleteFile(a) \in P
        /\ c.op = "MoveFile" => OneMoveFile(a, b) \in P
        /\ c.op = "GetFileInfo" => OneGetFileInfo(a) \in P
        /\ c.op = "DownloadFile" => OneDownloadFile(a) \in P
        /\ c.op = "UploadFile" => OneUploadFile(a, TRUE) \in P
        /\ c.op = "CreateDirectory" => OneCreateDirectory \in P
    BY <1>0, OneFits DEF P
  <2> DEFINE u == OneUploadFile(a, TRUE)
  <2> HIDE DEF a, b, u
  <2>3. Program(k, c) = Methods(c, OneListFiles(a), OneDeleteFile(a), OneMoveFile(a, b), OneGetFileInfo(a),
                                OneDownloadFile(a), u, OneCreateDirectory)
        /\ (c.op = "UploadFile" => u \in P)
    BY <2>1, <2>2 DEF u
  <2> QED  BY <2>2, <2>3, MethodChosen
<1>16. CASE k = "gcd"
  <2>1. Program(k, c) = Methods(c, GCDListFiles(a), GCDDeleteFile(a), GCDMoveFile(a, b), GCDGetFileInfo(a),
                                GCDDownloadFile(a), GCDUploadFile(a), GCDCreateDirectory("dir"))
    BY <1>16 DEF Program
  <2>2. /\ c.op = "ListFiles" => GCDListFiles(a) \in P
        /\ c.op = "DeleteFile" => GCDDeleteFile(a) \in P
        /\ c.op = "MoveFile" => GCDMoveFile(a, b) \in P
        /\ c.op = "GetFileInfo" => GCDGetFileInfo(a) \in P
        /\ c.op = "DownloadFile" => GCDDownloadFile(a) \in P
        /\ c.op = "UploadFile" => GCDUploadFile(a) \in P
        /\ c.op = "CreateDirectory" => GCDCreateDirectory("dir") \in P
    BY <1>0, GCDFits DEF P
  <2> HIDE DEF a, b
  <2> QED  BY <2>1, <2>2, MethodChosen
<1>17. CASE k = "filefabric"
  <2>1. Program(k, c) = Methods(c, FFListFiles(a), FFDeleteFile(a), FFMoveFile(a, b), FFGetFileInfo(a),
                                FFDownloadFile(a), FFUploadFile(a), FFCreateDirectory)
    BY <1>17 DEF Program
  <2>2. /\ c.op = "ListFiles" => FFListFiles(a) \in P
        /\ c.op = "DeleteFile" => FFDeleteFile(a) \in P
        /\ c.op = "MoveFile" => FFMoveFile(a, b) \in P
        /\ c.op = "GetFileInfo" => FFGetFileInfo(a) \in P
        /\ c.op = "DownloadFile" => FFDownloadFile(a) \in P
        /\ c.op = "UploadFile" => FFUploadFile(a) \in P
        /\ c.op = "CreateDirectory" => FFCreateDirectory \in P
    BY <1>0, FFFits DEF P
  <2> HIDE DEF a, b
  <2> QED  BY <2>1, <2>2, MethodChosen
<1> HIDE DEF a, b
<1> QED  BY <1>1, <1>2, <1>3, <1>4, <1>5, <1>6, <1>7, <1>8, <1>9, <1>10, <1>11, <1>12, <1>13, <1>14, <1>15, <1>16, <1>17 DEF Keeping, Backends

(* A step that leads on, in one of the given ways, only if the request is done. *)
Sure(s, ways) == \A x \in Answers : s.on[x] \in ways \/ s.spent[x] \in ways => x = "ok"

GoesOn == Moves \cup {"return"}

(* A file is only deleted once it is copied. *)
CopiesFirst(c, p) ==
    /\ Len(p) = 2 /\ p[1].verb = "copy" /\ p[1].a = c.a /\ p[1].b = c.b /\ Sure(p[1], Moves)
    /\ p[2].verb = "delete" /\ p[2].a = c.a

(* A file is only said to exist if the server says so, in this step. *)
LookAt(k) == IF k = "gcd" THEN 3 ELSE 1

Looks(k, p, a) ==
    /\ Len(p) \in Nat /\ LookAt(k) <= Len(p)
    /\ p[LookAt(k)].verb \in {"stat", "find"} /\ p[LookAt(k)].a = a /\ Sure(p[LookAt(k)], GoesOn)
    /\ k = "gcd" => \A x \in Answers : /\ p[1].on[x] \in {"next", "skip", "stay", "fail"} /\ p[1].spent[x] = "fail"
                                       /\ p[2].on[x] \in {"next", "again", "stay", "fail", "absent"} /\ p[2].spent[x] = "fail"

LEMMA SureNoError == \A x \in Answers : NoError[x] \in GoesOn => x = "ok"
BY ErrorsFail DEF GoesOn, Moves

LEMMA SureOn ==
    ASSUME NEW on, NEW set, NEW then, NEW ways, then \notin ways, \A x \in Answers : on[x] \in ways => x = "ok"
    PROVE  \A x \in Answers : On(on, set, then)[x] \in ways => x = "ok"
<1>1. \A x \in Answers : On(on, set, then)[x] = IF x \in set THEN then ELSE on[x]  BY DEF On
<1> QED  BY <1>1

LEMMA SureStep ==
    ASSUME NEW v, NEW x, NEW y, NEW on, NEW n, NEW ways, "fail" \notin ways, \A z \in Answers : on[z] \in ways => z = "ok"
    PROVE  Sure(Step(v, x, y, on, n), ways)
<1>1. Step(v, x, y, on, n).on = on /\ Step(v, x, y, on, n).spent = Always("fail")  BY DEF Step
<1>2. \A z \in Answers : Always("fail")[z] = "fail"  BY DEF Always
<1> QED  BY <1>1, <1>2 DEF Sure

LEMMA SureWhere ==
    ASSUME NEW s \in AllSteps, NEW set, NEW then, NEW ways, then \notin ways, Sure(s, ways)
    PROVE  Sure(Where(s, set, then), ways)
<1>1. Where(s, set, then).on = On(s.on, set, then) /\ Where(s, set, then).spent = s.spent  BY DEF Where, AllSteps
<1>2. \A x \in Answers : On(s.on, set, then)[x] = IF x \in set THEN then ELSE s.on[x]  BY DEF On
<1> QED  BY <1>1, <1>2 DEF Sure

LEMMA SureCalls ==
    ASSUME NEW v, NEW x, NEW y
    PROVE  /\ Sure(Ask(v, x), GoesOn) /\ Sure(Step(v, x, y, NoError, 0), GoesOn)
           /\ Sure(HubicCall(v, x, y), GoesOn) /\ Sure(WebDAVsendRequest(v, x, y), GoesOn)
           /\ Sure(OneCall(v, x, y), GoesOn) /\ Sure(GCDshouldRetry(v, x, y), GoesOn) /\ Sure(FFsendRequest(v, x, y), GoesOn)
<1> DEFINE Careful1(on) == \A z \in Answers : on[z] \in GoesOn => z = "ok"
<1>1. "fail" \notin GoesOn /\ "again" \notin GoesOn /\ "login" \notin GoesOn /\ "panic" \notin GoesOn  BY DEF GoesOn, Moves
<1>2. Careful1(NoError)  BY SureNoError
<1>3. \A on, set : \A then \in {"fail", "again", "login"} : Careful1(on) => Careful1(On(on, set, then))  BY <1>1, SureOn
<1>4. \A on, n : Careful1(on) => Sure(Step(v, x, y, on, n), GoesOn) /\ Sure(Step(v, x, x, on, n), GoesOn)  BY <1>1, SureStep
<1> HIDE DEF Careful1
<1>5. Sure(Ask(v, x), GoesOn) /\ Sure(Step(v, x, y, NoError, 0), GoesOn)  BY <1>2, <1>4 DEF Ask
<1>6. Sure(HubicCall(v, x, y), GoesOn)  BY <1>2, <1>3, <1>4 DEF HubicCall
<1>7. Sure(WebDAVsendRequest(v, x, y), GoesOn)  BY <1>2, <1>3, <1>4 DEF WebDAVsendRequest
<1>8. Sure(OneCall(v, x, y), GoesOn)  BY <1>2, <1>3, <1>4 DEF OneCall
<1>9. Sure(GCDshouldRetry(v, x, y), GoesOn)  BY <1>2, <1>3, <1>4 DEF GCDshouldRetry
<1>10. Sure(FFsendRequest(v, x, y), GoesOn)
  <2> DEFINE on == On(NoError, {"busy", "throttled", "denied", "expired", "drop"}, "again")
             spent == [z \in Answers |-> IF z = "drop" THEN "fail" ELSE "panic"]
             s == FFsendRequest(v, x, y)
  <2>1. s.on = on /\ s.spent = spent  BY DEF FFsendRequest, Step
  <2>2. Careful1(on)  BY <1>2, <1>3
  <2>3. \A z \in Answers : spent[z] \in {"fail", "panic"}  OBVIOUS
  <2> HIDE DEF on, spent, s
  <2>4. Sure(s, GoesOn)  BY <1>1, <2>1, <2>2, <2>3 DEF Sure, Careful1
  <2> QED  BY <2>4 DEF s
<1> QED  BY <1>5, <1>6, <1>7, <1>8, <1>9, <1>10

LEMMA FewerWays == ASSUME NEW s, Sure(s, GoesOn) PROVE Sure(s, Moves)
BY DEF Sure, GoesOn

LEMMA CopyThenDelete ==
    ASSUME NEW c, NEW s, NEW t, s.verb = "copy", s.a = c.a, s.b = c.b, Sure(s, Moves), t.verb = "delete", t.a = c.a
    PROVE  CopiesFirst(c, <<s, t>>) /\ CopiesFirst(c, <<s>> \o <<t>>)
<1>1. <<s>> \o <<t>> = <<s, t>>  BY JoinTwo
<1> DEFINE p == <<s, t>>
<1>2. Len(p) = 2 /\ p[1] = s /\ p[2] = t  OBVIOUS
<1> HIDE DEF p
<1>3. CopiesFirst(c, p)  BY <1>2 DEF CopiesFirst
<1> QED  BY <1>1, <1>3 DEF p

LEMMA CopyPrograms ==
    ASSUME NEW k \in Copiers, NEW c, c.op = "MoveFile"
    PROVE  CopiesFirst(c, Program(k, c))
<1> DEFINE a == c.a
           b == c.b
           s == Step("copy", a, b, NoError, 0)
           t == Where(Ask("delete", a), {"notfound"}, "return")
<1>1. s.verb = "copy" /\ s.a = a /\ s.b = b  BY DEF Step
<1>2. Sure(s, Moves)  BY SureCalls, FewerWays
<1>3. /\ t.verb = "delete" /\ t.a = a /\ Ask("delete", a).verb = "delete" /\ Ask("delete", a).a = a
  BY DEF Where, Ask, Step
<1>4. CASE k \in {"s3", "azure", "gcs"}
  <2>1. Program(k, c) = <<s>> \o <<t>>
    BY <1>4 DEF Program, Methods, S3MoveFile, S3DeleteFile, AzureMoveFile, AzureDeleteFile, GCSMoveFile, GCSDeleteFile
  <2> HIDE DEF s, t
  <2> QED  BY <1>1, <1>2, <1>3, <2>1, CopyThenDelete
<1>5. CASE k = "s3c"
  <2> DEFINE r == Step("copy", a, b, On(NoError, Errors, "return"), 0)
  <2>1. r.verb = "copy" /\ r.a = a /\ r.b = b  BY DEF Step
  <2>2. Sure(r, Moves)
    <3>1. \A x \in Answers : NoError[x] \in Moves => x = "ok"  BY SureNoError DEF GoesOn
    <3>2. "return" \notin Moves /\ "fail" \notin Moves  BY DEF Moves
    <3>3. \A x \in Answers : On(NoError, Errors, "return")[x] \in Moves => x = "ok"  BY <3>1, <3>2, SureOn
    <3> QED  BY <3>2, <3>3, SureStep
  <2>3. Program(k, c) = <<r>> \o <<t>>  BY <1>5 DEF Program, Methods, S3CMoveFile, S3CDeleteFile
  <2> HIDE DEF r, t
  <2> QED  BY <1>3, <2>1, <2>2, <2>3, CopyThenDelete
<1>6. CASE k = "swift"
  <2> DEFINE u == Ask("delete", a)
  <2>1. Program(k, c) = <<s, u>>  BY <1>6 DEF Program, Methods, SwiftMoveFile
  <2> HIDE DEF s
  <2> QED  BY <1>1, <1>2, <1>3, <2>1, CopyThenDelete
<1>7. CASE k = "hubic"
  <2> DEFINE r == HubicCall("copy", a, b)
             u == HubicCall("delete", a, a)
  <2>1. r.verb = "copy" /\ r.a = a /\ r.b = b /\ u.verb = "delete" /\ u.a = a  BY DEF HubicCall, Step
  <2>2. Sure(r, Moves)  BY SureCalls, FewerWays
  <2>3. Program(k, c) = <<r>> \o <<u>>  BY <1>7 DEF Program, Methods, HubicMoveFile, HubicClientMoveFile, HubicClientDeleteFile
  <2> HIDE DEF r, u
  <2> QED  BY <2>1, <2>2, <2>3, CopyThenDelete
<1> QED  BY <1>4, <1>5, <1>6, <1>7 DEF Copiers

(* A program that begins with the look. *)
LEMMA LooksFirst ==
    ASSUME NEW k, k # "gcd", NEW a, NEW s, s.verb = "stat", s.a = a, Sure(s, GoesOn)
    PROVE  Looks(k, <<s>>, a) /\ \A t : Looks(k, <<s, t>>, a)
<1>1. LookAt(k) = 1  BY DEF LookAt
<1>2. ASSUME NEW p, Len(p) \in {1, 2}, p[1] = s PROVE Looks(k, p, a)
  <2>1. Len(p) \in Nat /\ 1 <= Len(p)  BY <1>2
  <2> QED  BY <1>1, <1>2, <2>1 DEF Looks
<1>3. Len(<<s>>) = 1 /\ <<s>>[1] = s /\ \A t : Len(<<s, t>>) = 2 /\ <<s, t>>[1] = s  OBVIOUS
<1> QED  BY <1>2, <1>3

LEMMA StatPrograms ==
    ASSUME NEW k \in Keeping \ {"gcd"}, NEW c, GoodCall(c), c.op = "GetFileInfo"
    PROVE  Looks(k, Program(k, c), c.a)
<1> DEFINE a == c.a
<1>1. Ask("stat", a) \in AllSteps /\ HubicCall("stat", a, a) \in AllSteps /\ WebDAVsendRequest("stat", a, a) \in AllSteps
      /\ OneCall("stat", a, a) \in AllSteps /\ FFsendRequest("stat", a, a) \in AllSteps
  <2>1. Builds(c, "stat", a, a)  BY CallBuilds, CallNames DEF Harmless
  <2> QED  BY <2>1 DEF Builds, FitSteps
<1>2. /\ Ask("stat", a).verb = "stat" /\ Ask("stat", a).a = a
      /\ HubicCall("stat", a, a).verb = "stat" /\ HubicCall("stat", a, a).a = a
      /\ WebDAVsendRequest("stat", a, a).verb = "stat" /\ WebDAVsendRequest("stat", a, a).a = a
      /\ OneCall("stat", a, a).verb = "stat" /\ OneCall("stat", a, a).a = a
      /\ FFsendRequest("stat", a, a).verb = "stat" /\ FFsendRequest("stat", a, a).a = a
  <2>1. Ask("stat", a).verb = "stat" /\ Ask("stat", a).a = a  BY DEF Ask, Step
  <2>2. HubicCall("stat", a, a).verb = "stat" /\ HubicCall("stat", a, a).a = a  BY DEF HubicCall, Step
  <2>3. WebDAVsendRequest("stat", a, a).verb = "stat" /\ WebDAVsendRequest("stat", a, a).a = a  BY DEF WebDAVsendRequest, Step
  <2>4. OneCall("stat", a, a).verb = "stat" /\ OneCall("stat", a, a).a = a  BY DEF OneCall, Step
  <2>5. FFsendRequest("stat", a, a).verb = "stat" /\ FFsendRequest("stat", a, a).a = a  BY DEF FFsendRequest, Step
  <2> QED  BY <2>1, <2>2, <2>3, <2>4, <2>5
<1>3. ASSUME NEW s \in AllSteps, s.verb = "stat", s.a = a, Sure(s, GoesOn), NEW set
      PROVE  LET w == Where(s, set, "absent")
             IN  w \in AllSteps /\ w.verb = "stat" /\ w.a = a /\ Sure(w, GoesOn)
  <2>1. "absent" \notin GoesOn  BY DEF GoesOn, Moves
  <2>2. Sure(Where(s, set, "absent"), GoesOn)  BY <1>3, <2>1, SureWhere
  <2>3. On(s.on, set, "absent") \in Choices  BY OnType DEF AllSteps, Treatments
  <2>4. Where(s, set, "absent") \in AllSteps /\ Where(s, set, "absent").verb = "stat" /\ Where(s, set, "absent").a = a
    BY <1>3, <2>3 DEF Where, AllSteps
  <2> QED  BY <2>2, <2>4
<1>4. ASSUME NEW s, s \in {Ask("stat", a), HubicCall("stat", a, a), OneCall("stat", a, a), FFsendRequest("stat", a, a)}, NEW set
      PROVE  Looks(k, <<Where(s, set, "absent")>>, a)
  <2>1. s \in AllSteps /\ s.verb = "stat" /\ s.a = a /\ Sure(s, GoesOn)  BY <1>1, <1>2, <1>4, SureCalls
  <2> DEFINE w == Where(s, set, "absent")
  <2>2. w \in AllSteps /\ w.verb = "stat" /\ w.a = a /\ Sure(w, GoesOn)  BY <1>3, <2>1
  <2> HIDE DEF w
  <2>3. Looks(k, <<w>>, a)  BY <2>2, LooksFirst
  <2> QED  BY <2>3 DEF w
<1>5. CASE k \in {"s3", "s3c", "wasabi", "azure", "gcs", "storj", "dropbox", "swift", "file", "samba"}
  <2>1. \E set : Program(k, c) = <<Where(Ask("stat", a), set, "absent")>>
    BY <1>5 DEF Program, Methods, S3GetFileInfo, S3CGetFileInfo, WasabiGetFileInfo, AzureGetFileInfo, GCSGetFileInfo, StorjGetFileInfo,
                DropboxGetFileInfo, SwiftGetFileInfo, FileGetFileInfo, SambaGetFileInfo
  <2> QED  BY <1>4, <2>1
<1>6. CASE k \in {"hubic", "onedrive", "business", "filefabric"}
  <2>1. \E set, s : /\ s \in {HubicCall("stat", a, a), OneCall("stat", a, a), FFsendRequest("stat", a, a)}
                    /\ Program(k, c) = <<Where(s, set, "absent")>>
    BY <1>6 DEF Program, Methods, HubicGetFileInfo, HubicClientGetFileInfo, OneGetFileInfo, OneClientGetFileInfo, FFGetFileInfo, FFgetFileInfo
  <2> QED  BY <1>4, <2>1
<1>7. CASE k = "sftp"
  <2> DEFINE w == Where(Ask("stat", a), {"notfound"}, "absent")
             u == Where(w, {"drop"}, "again")
             r == [u EXCEPT !.tries = 8]
  <2>1. w \in AllSteps /\ w.verb = "stat" /\ w.a = a /\ Sure(w, GoesOn)  BY <1>1, <1>2, <1>3, SureCalls
  <2>2. Program(k, c) = <<r>>  BY <1>7 DEF Program, Methods, SFTPGetFileInfo, SFTPRetry
  <2> HIDE DEF w
  <2>3. u \in AllSteps /\ u.verb = "stat" /\ u.a = a /\ Sure(u, GoesOn)
    <3>1. "again" \notin GoesOn  BY DEF GoesOn, Moves
    <3>2. Sure(u, GoesOn)  BY <2>1, <3>1, SureWhere
    <3>3. On(w.on, {"drop"}, "again") \in Choices  BY <2>1, OnType DEF AllSteps, Treatments
    <3> QED  BY <2>1, <3>2, <3>3 DEF Where, AllSteps
  <2> HIDE DEF u
  <2>4. r.verb = "stat" /\ r.a = a /\ r.on = u.on /\ r.spent = u.spent  BY <2>3 DEF AllSteps
  <2> HIDE DEF r
  <2>5. Sure(r, GoesOn)  BY <2>3, <2>4 DEF Sure
  <2> QED  BY <2>2, <2>4, <2>5, LooksFirst
<1>8. CASE k = "webdav"
  <2> DEFINE s == WebDAVsendRequest("stat", a, a)
             w == Where(s, {"notfound"}, "absent")
             t == Step("parse", a, a, On(NoError, {"drop"}, "restart"), 3)
             p == WebDAVgetProperties("stat", a)
  <2>1. w \in AllSteps /\ w.verb = "stat" /\ w.a = a /\ Sure(w, GoesOn)  BY <1>1, <1>2, <1>3, SureCalls
  <2>2. p = <<s, t>>  BY DEF WebDAVgetProperties
  <2>3. Program(k, c) = <<Where(p[1], {"notfound"}, "absent"), p[2]>>  BY <1>8 DEF Program, Methods, WebDAVGetFileInfo
  <2> HIDE DEF p, s, t
  <2>4. Program(k, c) = <<w, t>>  BY <2>2, <2>3
  <2> HIDE DEF w
  <2> QED  BY <2>1, <2>4, LooksFirst
<1> QED  BY <1>5, <1>6, <1>7, <1>8 DEF Keeping, Backends

LEMMA OnIs ==
    ASSUME NEW f, NEW set, NEW then
    PROVE  \A x \in Answers : On(f, set, then)[x] \in {f[x], then}
<1>1. \A x \in Answers : On(f, set, then)[x] = IF x \in set THEN then ELSE f[x]  BY DEF On
<1> QED  BY <1>1

(* Google Drive looks up the directory first. *)
LEMMA DrivePrograms ==
    ASSUME NEW c, GoodCall(c), c.op = "GetFileInfo"
    PROVE  Looks("gcd", Program("gcd", c), c.a)
<1> DEFINE a == c.a
           d == ParentOf(a)
           on == On(NoError, {"busy", "throttled", "denied", "expired", "drop"}, "again")
           s1 == Where(Where(Ask("cached", d), {"ok"}, "skip"), {"notfound"}, "next")
           r2 == Where(GCDlistByName(d), {"notfound"}, "fail")
           s2 == Where(r2, {"notfound"}, "absent")
           s3 == Where(GCDlistByName(a), {"notfound"}, "absent")
           p == GCDgetIDFromPath(d, FALSE)
<1>1. a \in Paths /\ d \in {"dir", "fossildir"} /\ a \notin {"dir", "fossildir"}
  BY CallNames DEF ParentOf, Paths
<1>2. \A x \in Answers : NoError[x] \in {"next", "stay", "fail"} /\ Always("fail")[x] = "fail"
  BY ErrorsFail DEF Always
<1>4. \A x \in Answers : s1.on[x] \in {"next", "skip", "stay", "fail"} /\ s1.spent[x] = "fail"
  <2> DEFINE f == On(NoError, {"ok"}, "skip")
             g == On(f, {"notfound"}, "next")
  <2>1. s1.on = g /\ s1.spent = Always("fail")  BY DEF Where, Ask, Step
  <2>2. \A x \in Answers : g[x] \in {f[x], "next"}  BY OnIs
  <2>3. \A x \in Answers : f[x] \in {NoError[x], "skip"}  BY OnIs
  <2> HIDE DEF s1, f, g
  <2> QED  BY <1>2, <2>1, <2>2, <2>3
<1>5. \A x \in Answers : s2.on[x] \in {"next", "again", "stay", "fail", "absent"} /\ s2.spent[x] = "fail"
  <2> DEFINE g == On(on, {"notfound"}, "fail")
             h == On(g, {"notfound"}, "absent")
  <2>1. GCDlistByName(d) = Step("lookup", d, d, on, 15)  BY <1>1 DEF GCDlistByName, GCDshouldRetry
  <2>2. s2.on = h /\ s2.spent = Always("fail")
    BY <2>1 DEF Where, Step
  <2>3. \A x \in Answers : on[x] \in {NoError[x], "again"}  BY OnIs
  <2> HIDE DEF on
  <2>4. \A x \in Answers : g[x] \in {on[x], "fail"}  BY OnIs
  <2> HIDE DEF g
  <2>5. \A x \in Answers : h[x] \in {g[x], "absent"}  BY OnIs
  <2> HIDE DEF h, s2
  <2>6. s2.spent = Always("fail") /\ \A x \in Answers : s2.on[x] = h[x]  BY <2>2
  <2>7. ASSUME NEW x \in Answers PROVE h[x] \in {"next", "again", "stay", "fail", "absent"}
    <3>1. on[x] \in {"next", "stay", "fail", "again"}  BY <1>2, <2>3
    <3>2. g[x] \in {on[x], "fail"} /\ h[x] \in {g[x], "absent"}  BY <2>4, <2>5
    <3> QED  BY <3>1, <3>2
  <2> QED  BY <1>2, <2>6, <2>7
<1>6. s3.verb = "find" /\ s3.a = a /\ Sure(s3, GoesOn)
  <2> DEFINE r == GCDshouldRetry("find", a, a)
  <2>1. GCDlistByName(a) = r  BY <1>1 DEF GCDlistByName
  <2>2. r \in AllSteps
    <3>1. Builds(c, "find", a, a)  BY CallBuilds, CallNames DEF Harmless
    <3> QED  BY <3>1 DEF Builds, FitSteps
  <2>3. Sure(r, GoesOn)  BY SureCalls
  <2>4. r.verb = "find" /\ r.a = a  BY DEF GCDshouldRetry, Step
  <2> HIDE DEF r
  <2>5. "absent" \notin GoesOn  BY DEF GoesOn, Moves
  <2>6. Sure(s3, GoesOn)  BY <2>1, <2>2, <2>3, <2>5, SureWhere
  <2>7. s3.verb = "find" /\ s3.a = a  BY <2>1, <2>2, <2>4 DEF Where, AllSteps
  <2> QED  BY <2>6, <2>7
<1>7. p[1] = s1 /\ p[2] = r2
  <2>1. p = <<s1, r2>> \o <<>>  BY DEF GCDgetIDFromPath
  <2> HIDE DEF s1, r2, p
  <2> QED  BY <2>1
<1>8. Program("gcd", c) = <<p[1], Where(p[2], {"notfound"}, "absent"), s3>>  BY DEF Program, Methods, GCDGetFileInfo
<1> HIDE DEF p
<1>9. Program("gcd", c) = <<s1, s2, s3>>  BY <1>7, <1>8
<1> HIDE DEF s1, s2, s3
<1> DEFINE q == <<s1, s2, s3>>
<1>10. Len(q) = 3 /\ q[1] = s1 /\ q[2] = s2 /\ q[3] = s3  OBVIOUS
<1> HIDE DEF q
<1>11. LookAt("gcd") = 3  BY DEF LookAt
<1>12. Looks("gcd", q, a)
  <2>1. Len(q) \in Nat /\ 3 <= Len(q)  BY <1>10
  <2> QED  BY <1>4, <1>5, <1>6, <1>10, <1>11, <2>1 DEF Looks
<1> QED  BY <1>9, <1>12 DEF q

LEMMA LookPrograms ==
    ASSUME NEW k \in Keeping, NEW c, GoodCall(c), c.op = "GetFileInfo"
    PROVE  Looks(k, Program(k, c), c.a)
<1>1. CASE k = "gcd"  BY <1>1, DrivePrograms
<1>2. CASE k # "gcd"  BY <1>2, StatPrograms
<1> QED  BY <1>1, <1>2

-----------------------------------------------------------------------------
(* What a request does to the chunk and its fossil.                        *)

(* The places where the chunk is. *)
PlacesOf(f) == {p \in Paths : f[p] # <<>>}

LEMMA WhereaboutsAre == kind # "b2" => Whereabouts = PlacesOf(srv)
<1>1. \A p \in Paths : There(p) <=> srv[p] # <<>>  BY DEF There, Paths, Files
<1> QED  BY <1>1 DEF Whereabouts, PlacesOf, Paths

LEMMA PlacesUpdate ==
    ASSUME NEW f \in Server, NEW z \in Files, NEW w
    PROVE  PlacesOf([f EXCEPT ![z] = w]) = IF z \notin Paths THEN PlacesOf(f)
                                           ELSE IF w = <<>> THEN PlacesOf(f) \ {z} ELSE PlacesOf(f) \cup {z}
<1> DEFINE g == [f EXCEPT ![z] = w]
<1>1. DOMAIN f = Files /\ Paths \subseteq Files  BY DEF Server, Files, Paths
<1>2. \A p \in Paths : g[p] = IF p = z THEN w ELSE f[p]  BY <1>1
<1> HIDE DEF g
<1>3. PlacesOf(g) = IF z \notin Paths THEN PlacesOf(f) ELSE IF w = <<>> THEN PlacesOf(f) \ {z} ELSE PlacesOf(f) \cup {z}
  BY <1>2 DEF PlacesOf
<1> QED  BY <1>3 DEF g

LEMMA HarmlessEffect == ASSUME NEW v \in Harmless, NEW x, NEW y PROVE FilesAfter(v, x, y) = srv
BY DEF Harmless, FilesAfter

LEMMA PutEffect ==
    ASSUME srv \in Server, NEW v \in {"put", "putmore"}, NEW y
    PROVE  PlacesOf(FilesAfter(v, "chunk", y)) = PlacesOf(srv) \cup {"chunk"}
<1>1. PICK w : FilesAfter(v, "chunk", y) = [srv EXCEPT !["chunk"] = w] /\ w # <<>>
  <2>1. CASE v = "put"
    <3>1. FilesAfter(v, "chunk", y) = [srv EXCEPT !["chunk"] = <<"whole">>]  BY <2>1 DEF FilesAfter
    <3>2. <<"whole">> # <<>>  OBVIOUS
    <3> QED  BY <3>1, <3>2
  <2>2. CASE v = "putmore"
    <3>1. FilesAfter(v, "chunk", y) = [srv EXCEPT !["chunk"] = <<"whole">> \o srv["chunk"]]  BY <2>2 DEF FilesAfter
    <3>2. srv["chunk"] \in Seq(Whole)  BY DEF Server
    <3>3. <<"whole">> \o srv["chunk"] # <<>>  BY <3>2
    <3> QED  BY <3>1, <3>3
  <2> QED  BY <2>1, <2>2
<1>2. "chunk" \in Files /\ "chunk" \in Paths  BY DEF Files, Paths
<1>3. PlacesOf([srv EXCEPT !["chunk"] = w]) = IF "chunk" \notin Paths THEN PlacesOf(srv)
                                              ELSE IF w = <<>> THEN PlacesOf(srv) \ {"chunk"} ELSE PlacesOf(srv) \cup {"chunk"}
  BY <1>2, PlacesUpdate
<1> QED  BY <1>1, <1>2, <1>3

LEMMA DeleteEffect ==
    ASSUME srv \in Server, NEW x \in Files, NEW y
    PROVE  /\ PlacesOf(FilesAfter("delete", x, y)) \in {PlacesOf(srv), PlacesOf(srv) \ {x}}
           /\ x = "temp" => PlacesOf(FilesAfter("delete", x, y)) = PlacesOf(srv)
<1> DEFINE w == Tail(srv[x])
<1>1. FilesAfter("delete", x, y) = [srv EXCEPT ![x] = w]  BY DEF FilesAfter
<1>2. srv[x] = <<>> => w = <<>>
  <2>1. Tail(<<>>) = <<>>  OBVIOUS
  <2> QED  BY <2>1
<1> HIDE DEF w
<1>3. PlacesOf([srv EXCEPT ![x] = w]) = IF x \notin Paths THEN PlacesOf(srv)
                                        ELSE IF w = <<>> THEN PlacesOf(srv) \ {x} ELSE PlacesOf(srv) \cup {x}
  BY PlacesUpdate
<1>4. w # <<>> /\ x \in Paths => x \in PlacesOf(srv)  BY <1>2 DEF PlacesOf
<1>5. x = "temp" => x \notin Paths  BY DEF Paths
<1> QED  BY <1>1, <1>3, <1>4, <1>5

LEMMA TempEffect ==
    ASSUME srv \in Server, NEW v \in {"create", "write"}, NEW y
    PROVE  PlacesOf(FilesAfter(v, "temp", y)) = PlacesOf(srv)
<1>1. PICK w : FilesAfter(v, "temp", y) = [srv EXCEPT !["temp"] = w]  BY DEF FilesAfter
<1>2. "temp" \in Files /\ "temp" \notin Paths  BY DEF Files, Paths
<1>3. PlacesOf([srv EXCEPT !["temp"] = w]) = IF "temp" \notin Paths THEN PlacesOf(srv)
                                             ELSE IF w = <<>> THEN PlacesOf(srv) \ {"temp"} ELSE PlacesOf(srv) \cup {"temp"}
  BY <1>2, PlacesUpdate
<1> QED  BY <1>1, <1>2, <1>3

LEMMA RenameEffect ==
    ASSUME srv \in Server, NEW v \in {"rename", "move"}, NEW x \in Files, NEW y \in Paths, x # y,
           Answer(v, x, y) \in {"ok", "more"}
    PROVE  /\ x \in Paths => x \in PlacesOf(srv)
           /\ PlacesOf(FilesAfter(v, x, y)) = (PlacesOf(srv) \ {x}) \cup {y}
<1>1. There(x)
  <2>1. CASE v = "rename"
    <3>1. Answer(v, x, y) = Found(There(x))  BY <2>1 DEF Answer
    <3> QED  BY <3>1 DEF Found
  <2>2. CASE v = "move"
    <3>1. Answer(v, x, y) = IF kind \in Converting THEN Moving(x, y) ELSE IF There(x) /\ There(y) THEN "exists" ELSE Found(There(x))
      BY <2>2 DEF Answer
    <3>2. ~There(x) => Answer(v, x, y) = "notfound"  BY <3>1 DEF Found, Moving
    <3> QED  BY <3>2
  <2> QED  BY <2>1, <2>2
<1> DEFINE w == srv[x]
           e == <<>>
           h == [srv EXCEPT ![y] = w]
<1>2. FilesAfter(v, x, y) = [h EXCEPT ![x] = e]  BY DEF FilesAfter
<1>3. w # <<>> /\ (x \in Paths => x \in PlacesOf(srv))  BY <1>1 DEF There, PlacesOf
<1>4. y \in Files  BY DEF Paths, Files
<1>5. PlacesOf(h) = PlacesOf(srv) \cup {y}
  <2> HIDE DEF w
  <2> QED  BY <1>3, <1>4, PlacesUpdate
<1>6. PlacesOf([h EXCEPT ![x] = e]) = IF x \in Paths THEN PlacesOf(h) \ {x} ELSE PlacesOf(h)
  <2> DEFINE g == [h EXCEPT ![x] = e]
  <2>1. DOMAIN h = Files /\ Paths \subseteq Files  BY DEF Server, Files, Paths
  <2> HIDE DEF h
  <2>2. \A p \in Paths : g[p] = IF p = x THEN e ELSE h[p]  BY <2>1
  <2> HIDE DEF g
  <2> QED
    <3>1. PlacesOf(g) = IF x \in Paths THEN PlacesOf(h) \ {x} ELSE PlacesOf(h)  BY <2>2 DEF PlacesOf, e
    <3> QED  BY <3>1 DEF g
<1> HIDE DEF h, e, w
<1>7. PlacesOf(srv) \subseteq Paths  BY DEF PlacesOf
<1> QED  BY <1>2, <1>3, <1>5, <1>6, <1>7

LEMMA ReparentEffect ==
    ASSUME srv \in Server, NEW x \in Paths, NEW y \in Paths, x # y, Answer("reparent", x, y) \in {"ok", "more"}
    PROVE  \/ PlacesOf(FilesAfter("reparent", x, y)) = PlacesOf(srv)
           \/ /\ x \in PlacesOf(srv)
              /\ PlacesOf(FilesAfter("reparent", x, y)) \in {PlacesOf(srv) \cup {y}, (PlacesOf(srv) \ {x}) \cup {y}}
<1>1. CASE did
  <2>1. FilesAfter("reparent", x, y) = srv  BY <1>1 DEF FilesAfter
  <2> QED  BY <2>1
<1>2. CASE ~did
  <2>1. \A v : v = "reparent" => Answer(v, x, y) = Found(did \/ There(x))  BY DEF Answer
  <2>2. There(x)  BY <1>2, <2>1 DEF Found
  <2> DEFINE w == <<Head(srv[x])>> \o srv[y]
             e == Tail(srv[x])
             h == [srv EXCEPT ![y] = w]
             g == [h EXCEPT ![x] = e]
  <2>3. FilesAfter("reparent", x, y) = g  BY <1>2 DEF FilesAfter
  <2>4. x \in PlacesOf(srv)  BY <2>2 DEF There, PlacesOf
  <2>5. w # <<>>
    <3>1. srv[y] \in Seq(Whole)  BY DEF Server, Paths
    <3>2. ASSUME NEW z, NEW q \in Seq(Whole) PROVE <<z>> \o q # <<>>  OBVIOUS
    <3> QED  BY <3>1, <3>2
  <2>6. x \in Files /\ y \in Files  BY DEF Paths, Files
  <2> HIDE DEF w, e
  <2>7. PlacesOf(h) = PlacesOf(srv) \cup {y}  BY <2>5, <2>6, PlacesUpdate
  <2>8. PlacesOf(g) = IF e = <<>> THEN PlacesOf(h) \ {x} ELSE PlacesOf(h) \cup {x}
    <3>1. DOMAIN h = Files /\ Paths \subseteq Files  BY DEF Server, Files, Paths
    <3> HIDE DEF h
    <3>2. \A p \in Paths : g[p] = IF p = x THEN e ELSE h[p]  BY <3>1
    <3> HIDE DEF g
    <3> QED  BY <3>2 DEF PlacesOf
  <2> HIDE DEF g, h
  <2> QED  BY <2>3, <2>4, <2>7, <2>8
<1> QED  BY <1>1, <1>2

LEMMA CopyEffect ==
    ASSUME srv \in Server, NEW x \in Paths, NEW y \in Paths, Answer("copy", x, y) \in {"ok", "more"}
    PROVE  x \in PlacesOf(srv) /\ PlacesOf(FilesAfter("copy", x, y)) = PlacesOf(srv) \cup {y}
<1>1. Answer("copy", x, y) = Found(There(x))  BY DEF Answer
<1>2. There(x)  BY <1>1 DEF Found
<1> DEFINE w == srv[x]
<1>3. FilesAfter("copy", x, y) = [srv EXCEPT ![y] = w]  BY DEF FilesAfter
<1>4. w # <<>> /\ x \in PlacesOf(srv) /\ y \in Files  BY <1>2 DEF There, PlacesOf, Paths, Files
<1> HIDE DEF w
<1>5. PlacesOf([srv EXCEPT ![y] = w]) = IF y \notin Paths THEN PlacesOf(srv)
                                        ELSE IF w = <<>> THEN PlacesOf(srv) \ {y} ELSE PlacesOf(srv) \cup {y}
  BY <1>4, PlacesUpdate
<1> QED  BY <1>3, <1>4, <1>5

-----------------------------------------------------------------------------
(* What the tasks do to the chunk.                                         *)

(* A copy is there before the original goes; a file that was found is      *)
(* there; and so a task only deletes what is there as well elsewhere.      *)
KeepInv ==
    /\ kind \in Keeping
    /\ call # NoCall => task.at \in DOMAIN Steps(task.op) /\ call = Steps(task.op)[task.at].call
    /\ call.op = "MoveFile" /\ kind \in Copiers /\ pc = 2 => call.b \in PlacesOf(srv)
    /\ call.op = "GetFileInfo" /\ (res = "ok" \/ pc > LookAt(kind)) => call.a \in PlacesOf(srv)
    /\ call # NoCall /\ task.op = "fossilize" /\ task.at = "delete" => "fossil" \in PlacesOf(srv)
    /\ call # NoCall /\ task.op = "resurrect" /\ task.at = "delete" => "chunk" \in PlacesOf(srv)

(* The calls of the tasks that change something. *)
Calling(op, at, c) ==
    /\ c.op = "UploadFile" => op \in {"upload", "rewrite"} /\ c.a = "chunk"
    /\ c.op = "MoveFile" => \/ op \in {"fossilize", "rewrite"} /\ c.a = "chunk" /\ c.b = "fossil"
                            \/ op = "resurrect" /\ c.a = "fossil" /\ c.b = "chunk"
    /\ c.op = "DeleteFile" => \/ op = "delete fossil" /\ c.a = "fossil"
                              \/ op = "delete chunk" /\ c.a = "chunk"
                              \/ op = "fossilize" /\ at = "delete" /\ c.a = "chunk"
                              \/ op = "resurrect" /\ at = "delete" /\ c.a = "fossil"
    /\ at = "delete" /\ op = "fossilize" => c.op = "DeleteFile" /\ c.a = "chunk"
    /\ at = "delete" /\ op = "resurrect" => c.op = "DeleteFile" /\ c.a = "fossil"

(* A task comes to the deletion by having found the other file. *)
FindsFirst(op, step) ==
    LET found == CASE op = "fossilize" -> "fossil" [] op = "resurrect" -> "chunk" [] OTHER -> ""
    IN  op \in {"fossilize", "resurrect"} =>
            /\ step.absent # "delete" /\ step.error # "delete"
            /\ step.ok = "delete" => step.call.op = "GetFileInfo" /\ step.call.a = found

LEMMA TaskCalls ==
    ASSUME NEW op \in TaskKinds, NEW at \in DOMAIN Steps(op)
    PROVE  Calling(op, at, Steps(op)[at].call) /\ FindsFirst(op, Steps(op)[at])
<1> USE DEF FindChunk, Do, Call, Calling, FindsFirst
<1>1. CASE op = "fossilize"
  <2>1. Steps(op) = Fossilize  BY <1>1 DEF Steps
  <2> QED  BY <1>1, <2>1 DEF Fossilize
<1>2. CASE op = "resurrect"
  <2>1. Steps(op) = Resurrect  BY <1>2 DEF Steps
  <2> QED  BY <1>2, <2>1 DEF Resurrect
<1>3. CASE op = "upload"
  <2>1. Steps(op) = UploadChunk  BY <1>3 DEF Steps
  <2> QED  BY <1>3, <2>1 DEF UploadChunk
<1>4. CASE op = "download"
  <2>1. Steps(op) = DownloadChunk  BY <1>4 DEF Steps
  <2> QED  BY <1>4, <2>1 DEF DownloadChunk
<1>5. CASE op = "rewrite"
  <2>1. Steps(op) = RewriteChunk  BY <1>5 DEF Steps
  <2> QED  BY <1>5, <2>1 DEF RewriteChunk
<1>6. CASE op \in {"delete fossil", "delete chunk"}
  <2>1. PICK path \in Paths : Steps(op) = DeleteTask(path) /\ op = IF path = "fossil" THEN "delete fossil" ELSE "delete chunk"
    BY <1>6 DEF Steps, Paths
  <2> DEFINE c == Call("DeleteFile", path, path)
             step == Do(c, "done", "done")
  <2>2. at = "find" /\ Steps(op)[at].call = c
    <3>1. Steps(op) = [find |-> step]  BY <2>1 DEF DeleteTask
    <3>2. step.call = c  OBVIOUS
    <3> HIDE DEF step, c
    <3> QED  BY <3>1, <3>2
  <2>3. Call("DeleteFile", path, path).op = "DeleteFile" /\ Call("DeleteFile", path, path).a = path  BY DEF Call
  <2> QED  BY <1>6, <2>1, <2>2, <2>3 DEF Paths
<1>8. CASE op \in {"list", "revisions"}
  <2>1. \/ Steps(op) = [find |-> Do(Call("ListFiles", "chunks", "chunks"), "done", "fatal")]
        \/ Steps(op) = [find |-> Do(Call("ListFiles", "snapshots", "snapshots"), "done", "fatal")]
    BY <1>8 DEF Steps
  <2>2. at = "find"  BY <2>1
  <2>3. Steps(op)[at].call.op = "ListFiles"  BY <2>1, <2>2
  <2> QED  BY <1>8, <2>2, <2>3
<1>7. CASE op = "directory"
  <2>1. Steps(op) = [find |-> Do(Call("CreateDirectory", "dir", "dir"), "done", "fatal")]  BY <1>7 DEF Steps
  <2> QED  BY <1>7, <2>1
<1> QED  BY <1>1, <1>2, <1>3, <1>4, <1>5, <1>6, <1>7, <1>8, TasksAssumption

(* What a request of a call does to the places of the chunk. *)
Effect(c, P, Q) ==
    \/ Q = P
    \/ c.op = "UploadFile" /\ Q = P \cup {"chunk"}
    \/ c.op = "MoveFile" /\ c.a \in P /\ Q \in {P \cup {c.b}, (P \ {c.a}) \cup {c.b}}
    \/ c.op = "DeleteFile" /\ c.a \in P /\ Q = P \ {c.a}

LEMMA FitEffect ==
    ASSUME srv \in Server, NEW c, GoodCall(c), c.op = "MoveFile" => c.a # c.b, NEW s \in FitSteps(c),
           Answer(s.verb, s.a, s.b) \in {"ok", "more"}
    PROVE  Effect(c, PlacesOf(srv), PlacesOf(FilesAfter(s.verb, s.a, s.b)))
<1> DEFINE P == PlacesOf(srv)
           Q == PlacesOf(FilesAfter(s.verb, s.a, s.b))
<1>1. Fits(c, s.verb, s.a, s.b)  BY DEF FitSteps
<1>2. CASE s.verb \in Harmless
  <2>1. Q = P  BY <1>2, HarmlessEffect
  <2> QED  BY <2>1 DEF Effect
<1>3. CASE c.op = "DeleteFile" /\ s.verb = "delete" /\ s.a = c.a
  <2>1. c.a \in Files  BY <1>3 DEF GoodCall, Paths, Files
  <2>2. Q \in {P, P \ {c.a}}  BY <1>3, <2>1, DeleteEffect
  <2> HIDE DEF P, Q
  <2>3. c.a \notin P => P \ {c.a} = P  OBVIOUS
  <2>4. Effect(c, P, Q)  BY <1>3, <2>2, <2>3 DEF Effect
  <2> QED  BY <2>4 DEF P, Q
<1>4. CASE c.op = "UploadFile" /\ s.verb \in {"put", "putmore"} /\ s.a = "chunk"
  <2>1. Q = P \cup {"chunk"}  BY <1>4, PutEffect
  <2> QED  BY <1>4, <2>1 DEF Effect
<1>5. CASE c.op = "MoveFile" /\ s.verb \in {"rename", "move", "reparent"} /\ s.a = c.a /\ s.b = c.b
  <2>1. c.a \in Paths /\ c.b \in Paths /\ c.a \in Files /\ c.a # c.b  BY <1>5 DEF GoodCall, Paths, Files
  <2>2. CASE s.verb = "reparent"
    <3>1. Q = P \/ (c.a \in P /\ Q \in {P \cup {c.b}, (P \ {c.a}) \cup {c.b}})  BY <1>5, <2>1, <2>2, ReparentEffect
    <3> QED  BY <1>5, <3>1 DEF Effect
  <2>3. CASE s.verb \in {"rename", "move"}
    <3>1. c.a \in P /\ Q = (P \ {c.a}) \cup {c.b}  BY <1>5, <2>1, <2>3, RenameEffect
    <3> QED  BY <1>5, <3>1 DEF Effect
  <2> QED  BY <1>5, <2>2, <2>3
<1> QED  BY <1>1, <1>2, <1>3, <1>4, <1>5 DEF Fits

LEMMA TempEffects ==
    ASSUME srv \in Server, NEW c, c.op = "UploadFile", NEW p, UploadsThroughTemp(p), NEW i \in 1 .. 7, NEW s, s = p[i],
           Answer(s.verb, s.a, s.b) \in {"ok", "more"}
    PROVE  Effect(c, PlacesOf(srv), PlacesOf(FilesAfter(s.verb, s.a, s.b)))
<1> DEFINE P == PlacesOf(srv)
           Q == PlacesOf(FilesAfter(s.verb, s.a, s.b))
<1>0. "temp" \in Files /\ "chunk" \in Paths /\ "temp" \notin Paths  BY DEF Files, Paths
<1>1. CASE i \in {1, 2, 6, 7}
  <2>1. s.verb \in {"statdir", "mkdir", "stat", "delete"} /\ (s.verb = "delete" => s.a = "temp")
    BY <1>1 DEF UploadsThroughTemp
  <2>2. CASE s.verb = "delete"
    <3>1. Q = P  BY <1>0, <2>1, <2>2, DeleteEffect
    <3> QED  BY <3>1 DEF Effect
  <2>3. CASE s.verb # "delete"
    <3>1. s.verb \in Harmless  BY <2>1, <2>3 DEF Harmless
    <3>2. Q = P  BY <3>1, HarmlessEffect
    <3> QED  BY <3>2 DEF Effect
  <2> QED  BY <2>2, <2>3
<1>2. CASE i \in {3, 4}
  <2>1. s.verb \in {"create", "write"} /\ s.a = "temp"  BY <1>2 DEF UploadsThroughTemp
  <2>2. Q = P  BY <2>1, TempEffect
  <2> QED  BY <2>2 DEF Effect
<1>3. CASE i = 5
  <2>1. s.verb \in {"rename", "move"} /\ s.a = "temp" /\ s.b = "chunk"  BY <1>3 DEF UploadsThroughTemp
  <2>2. Q = (P \ {"temp"}) \cup {"chunk"}  BY <1>0, <2>1, RenameEffect
  <2>3. "temp" \notin P  BY <1>0 DEF PlacesOf
  <2> HIDE DEF P, Q
  <2>4. Q = P \cup {"chunk"}  BY <2>2, <2>3
  <2>5. Effect(c, P, Q)  BY <2>4 DEF Effect
  <2> QED  BY <2>5 DEF P, Q
<1> QED  BY <1>1, <1>2, <1>3

LEMMA CopyEffects ==
    ASSUME srv \in Server, NEW c, GoodCall(c), c.op = "MoveFile", c.a # c.b, NEW p, CopiesFirst(c, p), NEW i \in 1 .. 2, NEW s, s = p[i],
           Answer(s.verb, s.a, s.b) \in {"ok", "more"}, i = 2 => c.b \in PlacesOf(srv)
    PROVE  /\ Effect(c, PlacesOf(srv), PlacesOf(FilesAfter(s.verb, s.a, s.b)))
           /\ c.b \in PlacesOf(FilesAfter(s.verb, s.a, s.b))
<1> DEFINE P == PlacesOf(srv)
           Q == PlacesOf(FilesAfter(s.verb, s.a, s.b))
<1>0. c.a \in Paths /\ c.b \in Paths /\ c.a \in Files  BY DEF GoodCall, Paths, Files
<1>1. CASE i = 1
  <2>1. s.verb = "copy" /\ s.a = c.a /\ s.b = c.b  BY <1>1 DEF CopiesFirst
  <2>2. c.a \in P /\ Q = P \cup {c.b}  BY <1>0, <2>1, CopyEffect
  <2> QED  BY <2>2 DEF Effect
<1>2. CASE i = 2
  <2>1. s.verb = "delete" /\ s.a = c.a  BY <1>2 DEF CopiesFirst
  <2>2. Q \in {P, P \ {c.a}} /\ c.b \in P  BY <1>0, <1>2, <2>1, DeleteEffect
  <2> HIDE DEF P, Q
  <2>3. c.a \notin P => P \ {c.a} = P  OBVIOUS
  <2>4. P \ {c.a} = (P \ {c.a}) \cup {c.b}  BY <2>2
  <2>5. Effect(c, P, Q) /\ c.b \in Q  BY <2>2, <2>3, <2>4 DEF Effect
  <2> QED  BY <2>5 DEF P, Q
<1> QED  BY <1>1, <1>2

LEMMA KeptTask ==
    ASSUME FilesInv, KeepInv, call # NoCall
    PROVE  /\ task.op \in TaskKinds /\ task.at \in DOMAIN Steps(task.op) /\ call = Steps(task.op)[task.at].call
           /\ GoodCall(call) /\ Calling(task.op, task.at, call) /\ FindsFirst(task.op, Steps(task.op)[task.at])
           /\ call.op = "MoveFile" => call.a # call.b
<1>1. task.op \in TaskKinds /\ GoodCall(call)  BY DEF FilesInv
<1>2. task.at \in DOMAIN Steps(task.op) /\ call = Steps(task.op)[task.at].call  BY DEF KeepInv
<1>3. Calling(task.op, task.at, call) /\ FindsFirst(task.op, Steps(task.op)[task.at])  BY <1>1, <1>2, TaskCalls
<1> QED  BY <1>1, <1>2, <1>3 DEF Calling

LEMMA NoCallKeeps == NoCall.op = "none"
BY DEF NoCall, Call

(* The request in progress, if it is carried out. *)
LEMMA RequestEffect ==
    ASSUME FilesInv, KeepInv, InCall, NEW s, s = Prog[pc], Answer(s.verb, s.a, s.b) \in {"ok", "more"}
    PROVE  /\ Effect(call, PlacesOf(srv), PlacesOf(FilesAfter(s.verb, s.a, s.b)))
           /\ call.op = "MoveFile" /\ kind \in Copiers => call.b \in PlacesOf(FilesAfter(s.verb, s.a, s.b))
<1>1. srv \in Server /\ kind \in Keeping /\ pc \in 1 .. Len(Prog) /\ call # NoCall  BY DEF FilesInv, KeepInv, InCall
<1>2. GoodCall(call) /\ (call.op = "MoveFile" => call.a # call.b)  BY <1>1, KeptTask
<1>3. CASE call.op = "MoveFile" /\ kind \in Copiers
  <2>1. CopiesFirst(call, Prog)  BY <1>3, CopyPrograms DEF Prog
  <2>2. pc \in 1 .. 2  BY <1>1, <2>1 DEF CopiesFirst
  <2>3. pc = 2 => call.b \in PlacesOf(srv)  BY <1>3 DEF KeepInv
  <2> QED  BY <1>1, <1>2, <1>3, <2>1, <2>2, <2>3, CopyEffects
<1>4. CASE Renames(kind, call)
  <2>1. call.op = "UploadFile" /\ call.a = "chunk"  BY <1>2, <1>4 DEF Renames, GoodCall
  <2>2. UploadsThroughTemp(Prog)  BY <1>4, <2>1, TempPrograms DEF Prog, Renames
  <2>3. pc \in 1 .. 7  BY <1>1, <2>2 DEF UploadsThroughTemp
  <2> QED  BY <1>1, <2>1, <2>2, <2>3, TempEffects
<1>5. CASE ~(call.op = "MoveFile" /\ kind \in Copiers) /\ ~Renames(kind, call)
  <2>1. Prog \in Seq(FitSteps(call))  BY <1>1, <1>2, <1>5, ProgramsFit DEF Prog
  <2>2. s \in FitSteps(call)  BY <1>1, <2>1
  <2> QED  BY <1>1, <1>2, <1>5, <2>2, FitEffect
<1> QED  BY <1>3, <1>4, <1>5

(* Where the program goes. *)
LEMMA Goes ==
    ASSUME NEW s, NEW answer \in Answers, Conclude(s, answer)
    PROVE  \E then \in {s.on[answer], s.spent[answer]} :
              /\ pc' = CASE then \in Moves -> pc + Advance(then) [] then = "restart" -> 1 [] OTHER -> pc
              /\ res' = "ok" => then = "return" \/ (then \in Moves /\ pc + Advance(then) > Len(Prog))
              /\ res' = "ok" => pc' = pc \/ then \in Moves
<1> DEFINE count == IF s.on[answer] = "restart" THEN tries.program ELSE tries.request
           then == Verdict(s, answer, count)
<1>1. /\ pc' = CASE then \in Moves -> pc + Advance(then) [] then = "restart" -> 1 [] OTHER -> pc
      /\ res' = CASE then = "return" -> "ok" [] then = "absent" -> "absent" [] then = "fail" -> "error"
                  [] then \in {"hang", "panic"} -> then
                  [] then \in Moves /\ pc + Advance(then) > Len(Prog) -> "ok" [] OTHER -> ""
  BY DEF Conclude
<1>2. then \in {s.on[answer], s.spent[answer]}  BY DEF Verdict
<1> HIDE DEF then
<1>3. res' = "ok" => then = "return" \/ (then \in Moves /\ pc + Advance(then) > Len(Prog))  BY <1>1
<1>4. "return" \notin Moves /\ "restart" \notin Moves  BY DEF Moves
<1>5. res' = "ok" => pc' = pc \/ then \in Moves  BY <1>1, <1>3, <1>4
<1> QED  BY <1>1, <1>2, <1>3, <1>5

LEMMA AdvanceIs ==
    ASSUME NEW t \in Moves
    PROVE  Advance(t) \in 1 .. 4 /\ (t = "next" => Advance(t) = 1) /\ (t = "skip" => Advance(t) = 2)
BY DEF Moves, Advance

(* A copy is followed by the deletion only if it is done. *)
LEMMA CopiedThen ==
    ASSUME InCall, NEW c, CopiesFirst(c, Prog), NEW answer \in Answers, Conclude(Prog[pc], answer), pc' = 2
    PROVE  pc = 2 \/ answer = "ok"
<1> SUFFICES ASSUME pc # 2 PROVE answer = "ok"  OBVIOUS
<1>1. pc = 1  BY DEF InCall, CopiesFirst
<1> DEFINE s == Prog[pc]
<1>2. Sure(s, Moves)  BY <1>1 DEF CopiesFirst
<1> HIDE DEF s
<1>3. Conclude(s, answer)  BY DEF s
<1>4. PICK then \in {s.on[answer], s.spent[answer]} :
         pc' = CASE then \in Moves -> pc + Advance(then) [] then = "restart" -> 1 [] OTHER -> pc
  BY <1>3, Goes
<1>5. then \in Moves  BY <1>1, <1>4
<1> QED  BY <1>2, <1>4, <1>5 DEF Sure

(* A file is said to exist only if the look found it. *)
LEMMA LookedThen ==
    ASSUME InCall, NEW a, Looks(kind, Prog, a), NEW answer \in Answers, Conclude(Prog[pc], answer),
           res' = "ok" \/ pc' > LookAt(kind)
    PROVE  pc > LookAt(kind) \/ (pc = LookAt(kind) /\ answer = "ok")
<1> DEFINE l == LookAt(kind)
<1> SUFFICES ASSUME ~(pc > l) PROVE pc = l /\ answer = "ok"  OBVIOUS
<1>1. l \in {1, 3} /\ (l = 3 => kind = "gcd")  BY DEF LookAt
<1>2. pc \in 1 .. Len(Prog) /\ Len(Prog) \in Nat /\ l <= Len(Prog)  BY DEF InCall, Looks
<1> DEFINE s == Prog[pc]
<1>3. pc = l => Sure(s, GoesOn)  BY DEF Looks
<1>4. l = 3 /\ pc = 1 => s.on[answer] \in {"next", "skip", "stay", "fail"} /\ s.spent[answer] = "fail"
  BY <1>1 DEF Looks
<1>5. l = 3 /\ pc = 2 => s.on[answer] \in {"next", "again", "stay", "fail", "absent"} /\ s.spent[answer] = "fail"
  BY <1>1 DEF Looks
<1> HIDE DEF s, l
<1>6. Conclude(s, answer)  BY DEF s
<1>7. PICK then \in {s.on[answer], s.spent[answer]} :
              /\ pc' = CASE then \in Moves -> pc + Advance(then) [] then = "restart" -> 1 [] OTHER -> pc
              /\ res' = "ok" => then = "return" \/ (then \in Moves /\ pc + Advance(then) > Len(Prog))
  BY <1>6, Goes
<1>8. res' = "ok" \/ pc' > l  BY DEF l
<1>9. CASE pc = l
  <2>1. then \in GoesOn
    <3>1. CASE res' = "ok"  BY <1>7, <3>1 DEF GoesOn
    <3>2. CASE pc' > l
      <4>1. then \in Moves  BY <1>1, <1>7, <1>9, <3>2
      <4> QED  BY <4>1 DEF GoesOn
    <3> QED  BY <1>8, <3>1, <3>2
  <2> QED  BY <1>3, <1>7, <1>9, <2>1 DEF Sure
<1>10. CASE pc # l
  <2>1. l = 3 /\ pc \in {1, 2}  BY <1>1, <1>2, <1>10
  <2>2. then # "return" /\ (pc = 2 => then \notin {"skip", "skip2", "skip3"}) /\ then \notin {"skip2", "skip3"}
    BY <1>4, <1>5, <1>7, <2>1
  <2>3. then \in Moves => then = "next" \/ (then = "skip" /\ pc = 1)  BY <2>1, <2>2 DEF Moves
  <2>4. then \in Moves => pc + Advance(then) <= 3  BY <2>1, <2>3, AdvanceIs
  <2>5. pc' <= 3
    <3>1. CASE then \in Moves  BY <1>7, <2>4, <3>1
    <3>2. CASE then \notin Moves  BY <1>7, <2>1, <3>2
    <3> QED  BY <3>1, <3>2
  <2>6. pc' \in Nat
    <3>1. then \in Moves => Advance(then) \in Nat  BY AdvanceIs
    <3> QED  BY <1>7, <2>1, <3>1
  <2>7. res' # "ok"
    <3>1. then \in Moves => pc + Advance(then) \in Nat  BY <2>1, AdvanceIs
    <3> QED  BY <1>2, <1>7, <2>1, <2>2, <2>4, <3>1
  <2> QED  BY <1>8, <2>1, <2>5, <2>6, <2>7
<1> QED  BY <1>9, <1>10 DEF l

(* A request is answered or fails. *)
LEMMA ConcludeKeeps ==
    ASSUME FilesInv, KeepInv, InCall, NEW answer \in Answers, Conclude(Prog[pc], answer), UNCHANGED <<kind, task, call>>,
           NEW s, s = Prog[pc],
           answer = "ok" => Answer(s.verb, s.a, s.b) = "ok" /\ srv' = FilesAfter(s.verb, s.a, s.b),
           \/ srv' = srv
           \/ srv' = FilesAfter(s.verb, s.a, s.b) /\ Answer(s.verb, s.a, s.b) \in {"ok", "more"}
    PROVE  KeepInv' /\ Effect(call, PlacesOf(srv), PlacesOf(srv'))
<1> DEFINE P == PlacesOf(srv)
           Q == PlacesOf(srv')
<1>1. call # NoCall /\ kind \in Keeping /\ pc \in 1 .. Len(Prog)  BY DEF InCall, KeepInv
<1>2. GoodCall(call) /\ Calling(task.op, task.at, call)  BY <1>1, KeptTask
<1>3. Effect(call, P, Q)
  <2>1. CASE srv' = srv  BY <2>1 DEF Effect
  <2>2. CASE srv' = FilesAfter(s.verb, s.a, s.b) /\ Answer(s.verb, s.a, s.b) \in {"ok", "more"}  BY <2>2, RequestEffect
  <2> QED  BY <2>1, <2>2
<1>4. ASSUME call.op = "MoveFile", kind \in Copiers, pc' = 2 PROVE call.b \in Q
  <2>1. CopiesFirst(call, Prog)  BY <1>4, CopyPrograms DEF Prog
  <2>2. pc = 2 \/ answer = "ok"  BY <1>4, <2>1, CopiedThen
  <2>3. CASE srv' = FilesAfter(s.verb, s.a, s.b) /\ Answer(s.verb, s.a, s.b) \in {"ok", "more"}  BY <1>4, <2>3, RequestEffect
  <2>4. CASE srv' = srv /\ answer # "ok"  BY <1>4, <2>2, <2>4 DEF KeepInv
  <2> QED  BY <2>3, <2>4
<1>5. ASSUME call.op = "GetFileInfo", res' = "ok" \/ pc' > LookAt(kind) PROVE call.a \in Q
  <2>1. Looks(kind, Prog, call.a)  BY <1>1, <1>2, <1>5, LookPrograms DEF Prog
  <2>2. pc > LookAt(kind) \/ (pc = LookAt(kind) /\ answer = "ok")  BY <1>5, <2>1, LookedThen
  <2>3. Q = P  BY <1>3, <1>5 DEF Effect
  <2>4. CASE pc > LookAt(kind)  BY <1>5, <2>3, <2>4 DEF KeepInv
  <2>5. CASE pc = LookAt(kind) /\ answer = "ok"
    <3>1. s.verb \in {"stat", "find"} /\ s.a = call.a  BY <2>1, <2>5 DEF Looks
    <3>2. call.a \in Paths  BY <1>2, <1>5 DEF GoodCall
    <3>3. Answer(s.verb, s.a, s.b) = Found(There(call.a))  BY <3>1, <3>2 DEF Answer, Paths
    <3>4. There(call.a)  BY <2>5, <3>3 DEF Found
    <3> QED  BY <2>3, <3>2, <3>4 DEF There, PlacesOf
  <2> QED  BY <2>2, <2>4, <2>5
<1>6. ASSUME task.op = "fossilize", task.at = "delete" PROVE "fossil" \in Q
  <2>1. call.op = "DeleteFile" /\ call.a = "chunk"  BY <1>2, <1>6 DEF Calling
  <2>2. "fossil" \in P  BY <1>1, <1>6 DEF KeepInv
  <2> HIDE DEF P, Q
  <2> QED  BY <1>3, <2>1, <2>2 DEF Effect
<1>7. ASSUME task.op = "resurrect", task.at = "delete" PROVE "chunk" \in Q
  <2>1. call.op = "DeleteFile" /\ call.a = "fossil"  BY <1>2, <1>7 DEF Calling
  <2>2. "chunk" \in P  BY <1>1, <1>7 DEF KeepInv
  <2> HIDE DEF P, Q
  <2> QED  BY <1>3, <2>1, <2>2 DEF Effect
<1>8. LookAt(kind)' = LookAt(kind)  BY DEF LookAt
<1>9. PlacesOf(srv)' = Q  BY DEF PlacesOf
<1>10. call' # NoCall => task'.at \in DOMAIN Steps(task'.op) /\ call' = Steps(task'.op)[task'.at].call
  BY DEF KeepInv
<1> HIDE DEF Q
<1>11. KeepInv'  BY <1>1, <1>4, <1>5, <1>6, <1>7, <1>8, <1>9, <1>10 DEF KeepInv
<1> QED  BY <1>3, <1>11 DEF Q

(* Entering a method, with the files as they are. *)
LEMMA EnterKeeps ==
    ASSUME FilesInv, KeepInv, NEW op, NEW at \in DOMAIN Steps(op), Enter(Steps(op)[at].call), UNCHANGED <<kind, srv>>,
           task'.op = op, task'.at = at,
           op = "fossilize" /\ at = "delete" => "fossil" \in PlacesOf(srv),
           op = "resurrect" /\ at = "delete" => "chunk" \in PlacesOf(srv)
    PROVE  KeepInv'
<1>1. call' = Steps(op)[at].call /\ pc' = 1 /\ res' = ""  BY DEF Enter
<1>2. LookAt(kind) \in {1, 3}  BY DEF LookAt
<1>3. PlacesOf(srv)' = PlacesOf(srv) /\ LookAt(kind)' = LookAt(kind)  BY DEF PlacesOf, LookAt
<1>4. kind' \in Keeping  BY DEF KeepInv
<1> DEFINE l == LookAt(kind)
<1> HIDE DEF l
<1>5. l \in {1, 3}  BY <1>2 DEF l
<1>6. ~(pc' = 2) /\ ~(pc' > l)
  <2>1. pc' = 1  BY <1>1
  <2>2. 1 <= l /\ l \in Nat  BY <1>5
  <2>3. ~(1 > l)  BY <2>2
  <2> QED  BY <2>1, <2>3
<1>7. ~(pc' = 2) /\ ~(pc' > LookAt(kind)')  BY <1>3, <1>6 DEF l
<1> QED  BY <1>1, <1>3, <1>4, <1>7 DEF KeepInv

LEMMA LeaveKeeps == ASSUME KeepInv, Leave, UNCHANGED kind PROVE KeepInv'
<1>1. call' = NoCall /\ call'.op = "none"  BY NoCallKeeps DEF Leave
<1> QED  BY <1>1 DEF KeepInv

LEMMA KeepInit == FilesInv /\ Init /\ kind \notin {"acd", "b2"} => KeepInv
<1> SUFFICES ASSUME FilesInv, Init, kind \notin {"acd", "b2"} PROVE KeepInv  OBVIOUS
<1>1. call = NoCall /\ call.op = "none"  BY NoCallKeeps DEF Init
<1>2. kind \in Keeping  BY DEF FilesInv, Keeping
<1> QED  BY <1>1, <1>2 DEF KeepInv

(* The answers of the requests, in one form. *)
LEMMA RequestSteps ==
    ASSUME FilesInv, KeepInv, Answered \/ Failed
    PROVE  KeepInv' /\ Effect(call, PlacesOf(srv), PlacesOf(srv')) /\ call # NoCall /\ UNCHANGED <<kind, task, call>>
<1> DEFINE s == Prog[pc]
<1>1. InCall /\ call # NoCall /\ UNCHANGED <<kind, task, call>>  BY DEF Answered, Failed, InCall
<1>2. CASE Answered
  <2> DEFINE answer == Answer(s.verb, s.a, s.b)
  <2>1. Conclude(s, answer) /\ srv' = IF answer \in {"ok", "more"} THEN FilesAfter(s.verb, s.a, s.b) ELSE srv
    BY <1>2 DEF Answered
  <2>2. answer \in Answers  BY AnswerType
  <2> HIDE DEF s
  <2>3. s = Prog[pc]  BY DEF s
  <2> QED  BY <1>1, <2>1, <2>2, <2>3, ConcludeKeeps
<1>3. CASE Failed
  <2>1. PICK answer \in IF s.verb = "idsaved" THEN {"notfound"} ELSE FaultsOf(kind) :
            /\ Conclude(s, answer)
            /\ \/ srv' = srv
               \/ Answer(s.verb, s.a, s.b) \in {"ok", "more"} /\ srv' = FilesAfter(s.verb, s.a, s.b)
    BY <1>3 DEF Failed
  <2>2. answer \in Answers /\ answer # "ok"  BY <2>1 DEF FaultsOf, Answers
  <2> HIDE DEF s
  <2>3. s = Prog[pc]  BY DEF s
  <2> QED  BY <1>1, <2>1, <2>2, <2>3, ConcludeKeeps
<1> QED  BY <1>2, <1>3

(* A task goes on from a file that was found. *)
LEMMA NextCallKeeps ==
    ASSUME FilesInv, KeepInv, NextCall
    PROVE  KeepInv' /\ UNCHANGED <<kind, srv>> /\ task'.op = task.op
<1>1. call # NoCall /\ res \in {"ok", "absent", "error"} /\ After \in DOMAIN Steps(task.op)
      /\ Enter(Steps(task.op)[After].call) /\ UNCHANGED <<kind, srv>> /\ task' = [task EXCEPT !.at = After]
  BY DEF NextCall, Returned
<1>2. task = [op |-> task.op, at |-> task.at, attempt |-> task.attempt]  BY DEF FilesInv
<1>3. task'.op = task.op /\ task'.at = After  BY <1>1, <1>2
<1> DEFINE step == Steps(task.op)[task.at]
<1>4. FindsFirst(task.op, step) /\ call = step.call  BY <1>1, KeptTask
<1>5. After = CASE res = "ok" -> step.ok [] res = "absent" -> step.absent [] OTHER -> step.error  BY DEF After
<1> HIDE DEF step
<1>6. ASSUME task.op \in {"fossilize", "resurrect"}, After = "delete"
      PROVE  call.a \in PlacesOf(srv) /\ call.a = IF task.op = "fossilize" THEN "fossil" ELSE "chunk"
  <2>1. step.absent # "delete" /\ step.error # "delete"  BY <1>4, <1>6 DEF FindsFirst
  <2>2. res = "ok" /\ step.ok = "delete"  BY <1>5, <1>6, <2>1
  <2>3. call.op = "GetFileInfo" /\ call.a = IF task.op = "fossilize" THEN "fossil" ELSE "chunk"
    BY <1>4, <1>6, <2>2 DEF FindsFirst
  <2> QED  BY <2>2, <2>3 DEF KeepInv
<1> DEFINE at == After
           op == task.op
<1>7. /\ op = "fossilize" /\ at = "delete" => "fossil" \in PlacesOf(srv)
      /\ op = "resurrect" /\ at = "delete" => "chunk" \in PlacesOf(srv)
  BY <1>6
<1>8. at \in DOMAIN Steps(op) /\ Enter(Steps(op)[at].call) /\ task'.op = op /\ task'.at = at  BY <1>1, <1>3
<1> HIDE DEF at, op
<1>9. KeepInv'  BY <1>1, <1>7, <1>8, EnterKeeps
<1> QED  BY <1>1, <1>3, <1>9

LEMMA KeepNext == FilesInv /\ KeepInv /\ [Next]_vars => KeepInv'
<1> SUFFICES ASSUME FilesInv, KeepInv, [Next]_vars PROVE KeepInv'  OBVIOUS
<1>1. task = [op |-> task.op, at |-> task.at, attempt |-> task.attempt]  BY DEF FilesInv
<1>2. ASSUME UNCHANGED <<kind, srv, task, call, pc>>, res' = "ok" => call.op # "GetFileInfo" \/ res = "ok" PROVE KeepInv'
  <2>1. LookAt(kind)' = LookAt(kind) /\ PlacesOf(srv)' = PlacesOf(srv)  BY <1>2 DEF LookAt, PlacesOf
  <2> QED  BY <1>2, <2>1 DEF KeepInv
<1>3. ASSUME NEW op \in TaskKinds, NEW at \in {"find", "move"}, Begin(op, at) PROVE KeepInv'
  <2>1. at \in DOMAIN Steps(op) /\ at # "delete"  BY <1>3, StepCalls DEF Begin
  <2>2. Enter(Steps(op)[at].call) /\ UNCHANGED <<kind, srv>> /\ task' = [op |-> op, at |-> at, attempt |-> 0]
    BY <1>3 DEF Begin
  <2> QED  BY <2>1, <2>2, EnterKeeps
<1>4. CASE Login  BY <1>2, <1>4 DEF Login
<1>5. CASE Answered \/ Failed  BY <1>5, RequestSteps
<1>6. CASE NoRequest
  <2>1. call # NoCall /\ Prog = <<>> /\ UNCHANGED <<kind, srv, task, call, pc>>  BY <1>6 DEF NoRequest
  <2>2. call.op # "GetFileInfo"
    <3> SUFFICES ASSUME call.op = "GetFileInfo" PROVE FALSE  OBVIOUS
    <3>1. GoodCall(call) /\ kind \in Keeping  BY <2>1, KeptTask DEF KeepInv
    <3>2. Looks(kind, Prog, call.a)  BY <3>1, LookPrograms DEF Prog
    <3>3. Len(Prog) = 0  BY <2>1
    <3>4. LookAt(kind) \in {1, 3}  BY DEF LookAt
    <3> QED  BY <3>2, <3>3, <3>4 DEF Looks
  <2> QED  BY <1>2, <2>1, <2>2
<1>7. CASE NextCall  BY <1>7, NextCallKeeps
<1>8. CASE Complete \/ Fatal \/ Crash  BY <1>8, LeaveKeeps DEF Complete, Fatal, Crash, Exit
<1>9. CASE RetryDownload
  <2>1. call # NoCall /\ Enter(Steps(task.op)["find"].call) /\ UNCHANGED <<kind, srv>>
        /\ task' = [task EXCEPT !.at = "find", !.attempt = @ + 1]
    BY <1>9 DEF RetryDownload, Returned
  <2>2. task'.op = task.op /\ task'.at = "find"  BY <1>1, <2>1
  <2>3. "find" \in DOMAIN Steps(task.op)  BY <2>1, KeptTask, StepCalls
  <2> QED  BY <2>1, <2>2, <2>3, EnterKeeps
<1>10. CASE OtherClient  BY <1>2, <1>10 DEF OtherClient
<1>11. CASE UNCHANGED vars  BY <1>2, <1>11 DEF vars
<1> QED  BY <1>3, <1>4, <1>5, <1>6, <1>7, <1>8, <1>9, <1>10, <1>11 DEF Next, Progress

LEMMA SameWhereabouts ==
    ASSUME KeepInv, UNCHANGED kind
    PROVE  Whereabouts = PlacesOf(srv) /\ Whereabouts' = PlacesOf(srv')
<1>1. kind # "b2" /\ kind' # "b2"  BY DEF KeepInv, Keeping
<1>2. Whereabouts = PlacesOf(srv)  BY <1>1, WhereaboutsAre
<1>3. \A p \in Paths : There(p)' <=> srv'[p] # <<>>  BY DEF There, Paths, Files
<1>4. Whereabouts' = PlacesOf(srv')  BY <1>1, <1>3 DEF Whereabouts, PlacesOf, Paths
<1> QED  BY <1>2, <1>4

(* A request of a task is a step of the store that is allowed to that task. *)
LEMMA RequestMoves ==
    ASSUME FilesInv, KeepInv, call # NoCall, UNCHANGED <<kind, task>>, Effect(call, PlacesOf(srv), PlacesOf(srv'))
    PROVE  [Store!Next]_<<Whereabouts, task.op>>
<1> DEFINE P == PlacesOf(srv)
           Q == PlacesOf(srv')
<1>1. Whereabouts = P /\ Whereabouts' = Q /\ task'.op = task.op  BY SameWhereabouts
<1>2. Calling(task.op, task.at, call)  BY KeptTask
<1>3. /\ task.op = "fossilize" /\ task.at = "delete" => "fossil" \in P
      /\ task.op = "resurrect" /\ task.at = "delete" => "chunk" \in P
  BY DEF KeepInv
<1> HIDE DEF P, Q
<1>4. CASE Q = P  BY <1>1, <1>4
<1>5. CASE call.op = "UploadFile" /\ Q = P \cup {"chunk"}
  <2>1. task.op \in {"upload", "rewrite"}  BY <1>2, <1>5 DEF Calling
  <2>2. Store!Upload  BY <1>1, <1>5, <2>1 DEF Store!Upload
  <2> QED  BY <2>2 DEF Store!Next
<1>6. CASE call.op = "MoveFile" /\ call.a \in P /\ Q \in {P \cup {call.b}, (P \ {call.a}) \cup {call.b}}
  <2>1. CASE task.op \in {"fossilize", "rewrite"} /\ call.a = "chunk" /\ call.b = "fossil"
    <3>1. Store!Fossilize  BY <1>1, <1>6, <2>1 DEF Store!Fossilize, Store!Move
    <3> QED  BY <3>1 DEF Store!Next
  <2>2. CASE task.op = "resurrect" /\ call.a = "fossil" /\ call.b = "chunk"
    <3>1. Store!Resurrect  BY <1>1, <1>6, <2>2 DEF Store!Resurrect, Store!Move
    <3> QED  BY <3>1 DEF Store!Next
  <2> QED  BY <1>2, <1>6, <2>1, <2>2 DEF Calling
<1>7. CASE call.op = "DeleteFile" /\ call.a \in P /\ Q = P \ {call.a}
  <2>1. CASE (task.op = "delete fossil" /\ call.a = "fossil") \/ (task.op = "delete chunk" /\ call.a = "chunk")
    <3>1. Store!Delete  BY <1>1, <1>7, <2>1 DEF Store!Delete
    <3> QED  BY <3>1 DEF Store!Next
  <2>2. CASE task.op = "fossilize" /\ task.at = "delete" /\ call.a = "chunk"
    <3>1. "fossil" \in P /\ Q = (P \ {"chunk"}) \cup {"fossil"}  BY <1>3, <1>7, <2>2
    <3>2. Store!Fossilize  BY <1>1, <1>7, <2>2, <3>1 DEF Store!Fossilize, Store!Move
    <3> QED  BY <3>2 DEF Store!Next
  <2>3. CASE task.op = "resurrect" /\ task.at = "delete" /\ call.a = "fossil"
    <3>1. "chunk" \in P /\ Q = (P \ {"fossil"}) \cup {"chunk"}  BY <1>3, <1>7, <2>3
    <3>2. Store!Resurrect  BY <1>1, <1>7, <2>3, <3>1 DEF Store!Resurrect, Store!Move
    <3> QED  BY <3>2 DEF Store!Next
  <2> QED  BY <1>2, <1>7, <2>1, <2>2, <2>3 DEF Calling
<1> QED  BY <1>4, <1>5, <1>6, <1>7 DEF Effect, P, Q

LEMMA StoreSteps == FilesInv /\ KeepInv /\ [Next]_vars => [Store!Next]_<<Whereabouts, task.op>>
<1> SUFFICES ASSUME FilesInv, KeepInv, [Next]_vars PROVE [Store!Next]_<<Whereabouts, task.op>>  OBVIOUS
<1>1. ASSUME UNCHANGED <<kind, srv>> PROVE Whereabouts' = Whereabouts  BY <1>1, SameWhereabouts
<1>2. ASSUME UNCHANGED <<kind, srv>>, task'.op = task.op PROVE [Store!Next]_<<Whereabouts, task.op>>  BY <1>1, <1>2
<1>3. ASSUME NEW op \in TaskKinds, NEW at \in {"find", "move"}, Begin(op, at) PROVE Store!Next
  <2>1. task = NoTask /\ task' = [op |-> op, at |-> at, attempt |-> 0] /\ UNCHANGED <<kind, srv>>  BY <1>3 DEF Begin
  <2>2. task.op = "none" /\ task'.op = op  BY <2>1 DEF NoTask
  <2>3. op # "none"  BY TasksAssumption
  <2>4. Store!Begin  BY <1>1, <2>1, <2>2, <2>3 DEF Store!Begin
  <2> QED  BY <2>4 DEF Store!Next
<1>4. CASE Login \/ NoRequest \/ OtherClient  BY <1>2, <1>4 DEF Login, NoRequest, OtherClient
<1>5. CASE Answered \/ Failed  BY <1>5, RequestSteps, RequestMoves
<1>6. CASE NextCall  BY <1>2, <1>6, NextCallKeeps
<1>7. CASE Complete \/ Fatal \/ Crash
  <2>1. task' = NoTask /\ UNCHANGED <<kind, srv>>  BY <1>7 DEF Complete, Fatal, Crash, Exit
  <2>2. task'.op = "none"  BY <2>1 DEF NoTask
  <2>3. Store!End  BY <1>1, <2>1, <2>2 DEF Store!End
  <2> QED  BY <2>3 DEF Store!Next
<1>8. CASE RetryDownload
  <2>1. task' = [task EXCEPT !.at = "find", !.attempt = @ + 1] /\ UNCHANGED <<kind, srv>>  BY <1>8 DEF RetryDownload
  <2>2. task = [op |-> task.op, at |-> task.at, attempt |-> task.attempt]  BY DEF FilesInv
  <2>3. task'.op = task.op  BY <2>1, <2>2
  <2> QED  BY <1>2, <2>1, <2>3
<1>9. CASE UNCHANGED vars  BY <1>2, <1>9 DEF vars
<1> QED  BY <1>3, <1>4, <1>5, <1>6, <1>7, <1>8, <1>9 DEF Next, Progress

LEMMA StoreInit == FilesInv /\ KeepInv /\ Init => Store!Init
<1> SUFFICES ASSUME FilesInv, KeepInv, Init PROVE Store!Init  OBVIOUS
<1>1. Whereabouts = PlacesOf(srv)  BY WhereaboutsAre DEF KeepInv, Keeping
<1>2. PlacesOf(srv) \in SUBSET Store!Places  BY DEF PlacesOf, Paths, Store!Places
<1>3. task.op = "none"  BY DEF Init, NoTask
<1> QED  BY <1>1, <1>2, <1>3 DEF Store!Init

(* The tasks implement the abstract store, whatever requests fail, are     *)
(* tried again or are carried out without an answer, and wherever the      *)
(* process ends: what is there as a chunk or as a fossil never goes but by *)
(* a task that deletes it.  Left out are Amazon Cloud Drive, where a task  *)
(* may delete the wrong file, and B2, where the deletion of a fossil makes *)
(* the chunk live for a moment.                                            *)
THEOREM ChunksAreKept == Spec /\ kind \notin {"acd", "b2"} => KeepsChunk
<1>1. Spec => []FilesInv  BY FilesInit, FilesNext, PTL DEF Spec
<1>2. Spec /\ kind \notin {"acd", "b2"} => []KeepInv  BY <1>1, KeepInit, KeepNext, PTL DEF Spec
<1>3. Spec /\ kind \notin {"acd", "b2"} => Store!Init  BY <1>1, <1>2, StoreInit, PTL DEF Spec
<1>4. Spec /\ kind \notin {"acd", "b2"} => [][Store!Next]_<<Whereabouts, task.op>>
  BY <1>1, <1>2, StoreSteps, PTL DEF Spec
<1> QED  BY <1>3, <1>4, PTL DEF KeepsChunk, Store!Spec
=============================================================================

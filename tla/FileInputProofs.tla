--------------------------- MODULE FileInputProofs --------------------------
(***************************************************************************)
(* Proofs about FileInput for any files, sources, scanners and loops.      *)
(***************************************************************************)
EXTENDS FileInput, SequenceTheorems, TLAPS

\* Where a turn of the loop is: between the choice of its file and its end.
Body == {"open", "readall", "scan", "yield", "return", "backup", "copy", "create",
         "write", "panicked"}
Opening == {"backup", "copy", "create", "write"}

ReaderType == [open : BOOLEAN, at : Nat, buf : Seq(AnyByte), eof : BOOLEAN]
OutType == [state : {"none", "lazy", "file", "std", "failed"}, file : Names \cup {NoFile}]
DiskType == [Names -> [kind : Kind, text : Seq(AnyByte)]]

\* Variables which have their types independently of where the loop is.
Types ==
  /\ case \in CaseType
  /\ pc \in {"idle", "next"} \cup Body
  /\ index \in 1 .. Len(Source) + 1
  /\ current \in Names \cup {NoFile}
  /\ err \in {Ok, "walk", "open", "read"} /\ advanced \in BOOLEAN /\ last \in BOOLEAN
  /\ out \in OutType /\ reader \in ReaderType
  /\ disk \in DiskType /\ stdout \in {"open", "closed"} /\ ranges \in 0 .. case.ranges
  /\ visits \in Seq(VisitType)

\* There is a file while the body runs or the output is opened.
FileKnown ==
  /\ pc \in Body => current \in Names
  /\ out.state # "none" => out.file \in Names
  /\ pc \in Opening => out.state # "none"
  /\ pc # "idle" => ranges >= 1

\* The last visit is the one in progress: how far the source was advanced is
\* how often NextFile was called in it.
InVisit ==
  pc \in Body =>
    /\ This >= 1 /\ visits[This].range = ranges
    /\ index = visits[This].at + visits[This].skips
    /\ advanced <=> visits[This].skips > 0
    /\ visits[This].at <= Len(Source)

\* Between two visits of a loop the source is where the next visit begins.
Between ==
  pc = "next" /\ This >= 1 /\ visits[This].range = ranges =>
    /\ index = visits[This].at + (IF visits[This].skips = 0 THEN 1 ELSE visits[This].skips)
    /\ visits[This].failed => visits[This].skips > 0

\* Visits belong to loops which were begun.
LoopsBegun == \A v \in 1 .. This : visits[v].range <= ranges

IInv == Types /\ FileKnown /\ InVisit /\ Between /\ LoopsBegun /\ EntriesInOrder

-----------------------------------------------------------------------------
(* What may be noted about a visit *)

\* Two records of the same visit, as far as the order of visits is concerned.
SameVisit(r, q) ==
  r.range = q.range /\ r.at = q.at /\ r.skips = q.skips /\ r.failed = q.failed

\* What counts for the order of the visits is left alone.
SameOrder(history) ==
  /\ history \in Seq(VisitType) /\ Len(history) = This
  /\ \A v \in 1 .. This : SameVisit(history[v], visits[v])

\* The record of a visit keeps its type and its place.
LEMMA RecordOfVisit ==
  ASSUME NEW r \in VisitType
  PROVE  /\ \A s \in Seq(AnyByte) :
              [r EXCEPT !["seen"] = s] \in VisitType /\ SameVisit([r EXCEPT !["seen"] = s], r)
         /\ \A n \in 0 .. MaxWritten :
              [r EXCEPT !["wrote"] = n] \in VisitType /\ SameVisit([r EXCEPT !["wrote"] = n], r)
         /\ \A n \in Nat :
              [r EXCEPT !["lost"] = n] \in VisitType /\ SameVisit([r EXCEPT !["lost"] = n], r)
         /\ \A n \in Nat :
              LET q == [r EXCEPT !["skips"] = n]
              IN q \in VisitType /\ q.skips = n /\ q.range = r.range /\ q.at = r.at
         /\ [r EXCEPT !["fault"] = TRUE] \in VisitType /\ SameVisit([r EXCEPT !["fault"] = TRUE], r)
         /\ /\ [r EXCEPT !["ended"] = "broken"] \in VisitType
            /\ SameVisit([r EXCEPT !["ended"] = "broken"], r)
  BY DEF VisitType, SameVisit

\* Exchanging the record of the last visit.
LEMMA Exchanged ==
  ASSUME visits \in Seq(VisitType), This >= 1, NEW r \in VisitType
  PROVE  LET h == [visits EXCEPT ![This] = r]
         IN /\ h \in Seq(VisitType) /\ Len(h) = This /\ h[This] = r
            /\ \A v \in 1 .. This : v # This => h[v] = visits[v]
<1>1. Len(visits) \in 1 .. Len(visits)
  BY DEF This
<1> QED BY <1>1, ExceptSeq DEF This

\* What a step notes about the last visit keeps the order of the visits.
LEMMA NoteFacts ==
  ASSUME visits \in Seq(VisitType), This >= 1
  PROVE  /\ \A s \in Seq(AnyByte) : SameOrder(Note("seen", s))
         /\ \A n \in 0 .. MaxWritten : SameOrder(Note("wrote", n))
         /\ \A n \in Nat : SameOrder(Note("lost", n))
         /\ SameOrder(Note("fault", TRUE)) /\ SameOrder(Note("ended", "broken"))
<1>1. This \in Nat \ {0} /\ visits[This] \in VisitType
  BY ElementOfSeq DEF This
<1>2. ASSUME NEW r \in VisitType, SameVisit(r, visits[This])
      PROVE  SameOrder([visits EXCEPT ![This] = r])
  BY <1>1, <1>2, Exchanged DEF SameOrder, SameVisit
<1>3. ASSUME NEW s \in Seq(AnyByte) PROVE SameOrder(Note("seen", s))
  BY <1>1, <1>2, RecordOfVisit DEF Note
<1>4. /\ \A n \in 0 .. MaxWritten : SameOrder(Note("wrote", n))
      /\ \A n \in Nat : SameOrder(Note("lost", n))
  BY <1>1, <1>2, RecordOfVisit DEF Note
<1>5. SameOrder(Note("fault", TRUE)) /\ SameOrder(Note("ended", "broken"))
  BY <1>1, <1>2, RecordOfVisit DEF Note
<1> QED BY <1>3, <1>4, <1>5

-----------------------------------------------------------------------------
(* Steps which stay within the turn *)

\* The types of visits do not depend on anything which changes.
LEMMA SameTypes ==
  ASSUME UNCHANGED case
  PROVE  VisitType' = VisitType /\ Source' = Source /\ CaseType' = CaseType
         /\ DiskType' = DiskType /\ ReaderType' = ReaderType /\ OutType' = OutType
  BY DEF VisitType, Source

\* A step within the turn keeps the order of the visits, unless it is NextFile.
LEMMA WithinTurn ==
  ASSUME IInv, Types', FileKnown', pc \in Body, pc' \in Body,
         UNCHANGED <<case, index, advanced, ranges>>, SameOrder(visits')
  PROVE  IInv'
<1>1. /\ This' = This /\ This \in Nat
      /\ \A v \in 1 .. This : SameVisit(visits'[v], visits[v])
  BY DEF IInv, Types, SameOrder, This
<1>2. InVisit'
  <2>1. /\ This >= 1 /\ visits[This].range = ranges
        /\ index = visits[This].at + visits[This].skips
        /\ advanced <=> visits[This].skips > 0
        /\ visits[This].at <= Len(Source)
    BY DEF IInv, InVisit
  <2>2. SameVisit(visits'[This'], visits[This]) /\ Source' = Source
    BY <1>1, <2>1, SameTypes
  <2>3. /\ This' >= 1 /\ visits'[This'].range = ranges'
        /\ index' = visits'[This'].at + visits'[This'].skips
        /\ advanced' <=> visits'[This'].skips > 0
        /\ visits'[This'].at <= Len(Source')
    BY <1>1, <2>1, <2>2 DEF SameVisit
  <2> QED BY <2>3 DEF InVisit
<1>3. Between' /\ pc' # "next"
  BY DEF Between, Body
<1>4. LoopsBegun'
  BY <1>1 DEF IInv, LoopsBegun, SameVisit
<1>5. EntriesInOrder'
  <2>1. ASSUME NEW v \in 1 .. This - 1, visits'[v + 1].range = visits'[v].range
        PROVE  /\ visits'[v + 1].at = visits'[v].at + (IF visits'[v].skips = 0 THEN 1 ELSE visits'[v].skips)
               /\ visits'[v].failed => visits'[v].skips > 0
    <3>1. SameVisit(visits'[v], visits[v]) /\ SameVisit(visits'[v + 1], visits[v + 1])
      BY <1>1
    <3> QED BY <2>1, <3>1 DEF IInv, EntriesInOrder, SameVisit
  <2> QED BY <1>1, <2>1 DEF EntriesInOrder
<1> QED BY <1>2, <1>3, <1>4, <1>5 DEF IInv

\* No record changes.
LEMMA NothingNoted == ASSUME Types, UNCHANGED visits PROVE SameOrder(visits')
  BY DEF Types, SameOrder, SameVisit, This

\* Bytes of the file system are bytes.
LEMMA TextTyped ==
  ASSUME Types, NEW n \in Names
  PROVE  disk[n].text \in Seq(AnyByte) /\ disk[n].kind \in Kind
  BY DEF Types, DiskType

\* What a scanner reads are bytes of the file, as many as it says.
LEMMA HeldFacts ==
  ASSUME Types, current \in Names, NEW more \in Reads
  PROVE  LET text == disk[current].text
             piece == SubSeq(text, reader.at + 1, reader.at + more)
         IN /\ more \in 0 .. Unread /\ Unread \in Nat /\ reader.at \in Nat
            /\ text \in Seq(AnyByte) /\ piece \in Seq(AnyByte) /\ Len(piece) = more
            /\ Held(more) \in Seq(AnyByte) /\ Held(more) = reader.buf \o piece
            /\ \A i \in 1 .. more : reader.at + i \in 1 .. Len(text) /\ piece[i] = text[reader.at + i]
<1> DEFINE text == disk[current].text
           at == reader.at
           piece == SubSeq(text, at + 1, at + more)
<1>1. at \in Nat /\ reader.buf \in Seq(AnyByte) /\ text \in Seq(AnyByte) /\ Len(text) \in Nat
  BY TextTyped DEF Types, ReaderType
<1>2. /\ Unread \in Nat /\ more \in 0 .. Unread
      /\ Unread > 0 => at + Unread = Len(text)
  BY <1>1 DEF Reads, Unread
<1> HIDE DEF text, at
<1>3. \A i \in 1 .. more : at + i \in 1 .. Len(text)
  BY <1>1, <1>2
<1>4. /\ piece \in Seq(AnyByte) /\ Len(piece) = more
      /\ \A i \in 1 .. more : piece[i] = text[at + i]
  <2>1. ASSUME NEW i \in at + 1 .. at + more PROVE text[i] \in AnyByte
    <3>1. i - at \in 1 .. more /\ at + (i - at) = i
      BY <1>1, <1>2
    <3>2. i \in 1 .. Len(text)
      BY <1>3, <3>1
    <3> QED BY <1>1, <3>2, ElementOfSeq
  <2>2. at + 1 \in Int /\ at + more \in Int /\ more \in Nat
        /\ (IF at + 1 <= at + more THEN at + more - (at + 1) + 1 ELSE 0) = more
        /\ at + more - (at + 1) + 1 = more /\ \A i \in 1 .. more : at + 1 + i - 1 = at + i
    BY <1>1, <1>2
  <2> DEFINE m == at + 1
             n == at + more
  <2>3. m \in Int /\ n \in Int /\ \A i \in m .. n : text[i] \in AnyByte
    BY <2>1, <2>2
  <2> HIDE DEF m, n
  <2>4. /\ SubSeq(text, m, n) \in Seq(AnyByte)
        /\ Len(SubSeq(text, m, n)) = IF m <= n THEN n - m + 1 ELSE 0
        /\ \A i \in 1 .. n - m + 1 : SubSeq(text, m, n)[i] = text[m + i - 1]
    BY <2>3, SubSeqProperties
  <2>5. m = at + 1 /\ n = at + more
    BY DEF m, n
  <2>6. (IF m <= n THEN n - m + 1 ELSE 0) = more /\ n - m + 1 = more
        /\ \A i \in 1 .. more : m + i - 1 = at + i
    BY <1>1, <1>2, <2>5
  <2>7. piece = SubSeq(text, m, n)
    BY <2>5
  <2> QED BY <2>4, <2>6, <2>7
<1> HIDE DEF piece
<1>5. Held(more) = reader.buf \o piece
  BY DEF Held, text, at, piece
<1>6. Held(more) \in Seq(AnyByte)
  BY <1>1, <1>4, <1>5, ConcatProperties
<1> QED BY <1>1, <1>2, <1>3, <1>4, <1>5, <1>6 DEF text, at, piece

\* A sequence cut in two.
LEMMA CutInTwo ==
  ASSUME NEW S, NEW s \in Seq(S), NEW n \in 0 .. Len(s)
  PROVE  /\ SubSeq(s, 1, n) \in Seq(S) /\ SubSeq(s, n + 1, Len(s)) \in Seq(S)
         /\ SubSeq(s, 1, n) \o SubSeq(s, n + 1, Len(s)) = s
<1>1. Len(s) \in Nat /\ n \in Nat /\ \A i \in 1 .. Len(s) : s[i] \in S
  OBVIOUS
<1>2. SubSeq(s, 1, n) \in Seq(S)
  BY <1>1, SubSeqProperties
<1>3. SubSeq(s, n + 1, Len(s)) \in Seq(S)
  BY <1>1, SubSeqProperties
<1>4. SubSeq(s, 1, n) \o SubSeq(s, n + 1, Len(s)) = SubSeq(s, 1, Len(s))
  <2>1. 1 \in 1 .. Len(s) + 1 /\ n \in 1 - 1 .. Len(s) /\ Len(s) \in n .. Len(s)
    BY <1>1
  <2> QED BY <2>1, ConcatAdjacentSubSeq
<1> QED BY <1>2, <1>3, <1>4, SubSeqFull

\* Bytes are joined in any order.
LEMMA Joined ==
  \A a \in Seq(AnyByte) : \A b \in Seq(AnyByte) : \A c \in Seq(AnyByte) :
    (a \o b) \o c = a \o (b \o c)
  BY ConcatAssociative, SMTT(40)

\* What the user has seen of the file and what the scanner holds of it.
Got == visits[This].seen \o reader.buf

\* The scanner reads so many bytes more, and nothing of it is lost.
ReadsOn(more) ==
  /\ more \in Reads /\ reader' \in ReaderType
  /\ reader'.open = reader.open /\ reader'.at = reader.at + more
  /\ reader'.eof => reader.eof \/ more = Unread
  /\ \E s \in Seq(AnyByte) :
       /\ visits' = Note("seen", s)
       /\ s \o reader'.buf = Got \o SubSeq(disk[current].text, reader.at + 1, reader.at + more)

\* A token leaves the buffer and is noted as seen, at the end everything does.
LEMMA ScanFacts ==
  ASSUME Types, current \in Names, This >= 1, ScanToken \/ ScanEnd
  PROVE  \E more \in Nat :
           ReadsOn(more) /\ (ScanEnd => reader'.buf = <<>> /\ (reader.eof \/ more = Unread))
<1>1. reader \in ReaderType /\ visits[This] \in VisitType
  BY ElementOfSeq DEF Types, This
<1>2. visits[This].seen \in Seq(AnyByte) /\ reader.at \in Nat /\ reader.buf \in Seq(AnyByte)
  BY <1>1 DEF VisitType, ReaderType
<1>3. ASSUME NEW more \in Reads, NEW size \in 0 .. Len(Held(more)), NEW eof \in BOOLEAN,
             eof => reader.eof \/ more = Unread,
             reader' = [reader EXCEPT !.at = @ + more, !.eof = eof,
                                      !.buf = SubSeq(Held(more), size + 1, Len(Held(more)))],
             visits' = Note("seen", visits[This].seen \o SubSeq(Held(more), 1, size))
      PROVE  ReadsOn(more)
  <2> DEFINE seen == visits[This].seen
             front == SubSeq(Held(more), 1, size)
             rest == SubSeq(Held(more), size + 1, Len(Held(more)))
             buf == reader.buf
             piece == SubSeq(disk[current].text, reader.at + 1, reader.at + more)
  <2>1. /\ more \in Nat /\ Held(more) \in Seq(AnyByte) /\ Held(more) = reader.buf \o piece
        /\ piece \in Seq(AnyByte)
    <3>1. more \in 0 .. Unread /\ Unread \in Nat
      BY HeldFacts
    <3>2. Held(more) \in Seq(AnyByte)
      BY HeldFacts
    <3>3. piece \in Seq(AnyByte)
      BY HeldFacts
    <3>4. Held(more) = reader.buf \o piece
      BY HeldFacts
    <3> QED BY <3>1, <3>2, <3>3, <3>4
  <2>2. front \in Seq(AnyByte) /\ rest \in Seq(AnyByte) /\ front \o rest = Held(more)
    BY <2>1, CutInTwo
  <2>3. /\ reader' \in ReaderType /\ reader'.open = reader.open /\ reader'.eof = eof
        /\ reader'.at = reader.at + more /\ reader'.buf = rest
    <3>1. reader' = [reader EXCEPT !.at = @ + more, !.eof = eof, !.buf = rest]
      BY <1>3
    <3>2. reader.at + more \in Nat
      BY <1>2, <2>1
    <3> HIDE DEF rest
    <3> QED BY <1>1, <1>3, <2>2, <3>1, <3>2 DEF ReaderType
  <2> HIDE DEF front, rest, buf, piece, seen
  <2>4. seen \in Seq(AnyByte) /\ seen \o front \in Seq(AnyByte)
    BY <1>2, <2>2, ConcatProperties DEF seen
  <2>5. front \o rest = buf \o piece
    BY <2>1, <2>2 DEF buf
  <2>6. (seen \o front) \o rest = (seen \o buf) \o piece
    <3>1. /\ buf \in Seq(AnyByte) /\ piece \in Seq(AnyByte) /\ seen \in Seq(AnyByte)
          /\ front \in Seq(AnyByte) /\ rest \in Seq(AnyByte)
      BY <1>2, <2>1, <2>2, <2>4 DEF buf
    <3>2. (seen \o front) \o rest = seen \o (front \o rest)
      BY <3>1, Joined, Zenon
    <3>3. (seen \o buf) \o piece = seen \o (buf \o piece)
      BY <3>1, Joined, Zenon
    <3> QED BY <2>5, <3>2, <3>3, Zenon
  <2>7. visits' = Note("seen", seen \o front) /\ Got = seen \o buf
    BY <1>3 DEF seen, front, buf, Got
  <2>8. (seen \o front) \o reader'.buf = Got \o piece
    BY <2>3, <2>6, <2>7
  <2> QED BY <1>3, <2>3, <2>4, <2>7, <2>8 DEF ReadsOn, piece
<1>4. CASE ScanToken /\ ~ScanEnd
  <2>1. PICK more \in Reads, eof \in BOOLEAN : \E size \in 1 .. Len(Held(more)) :
          /\ eof => reader.eof \/ more = Unread
          /\ reader' = [reader EXCEPT !.at = @ + more, !.eof = eof,
                                      !.buf = SubSeq(Held(more), size + 1, Len(Held(more)))]
          /\ visits' = Note("seen", visits[This].seen \o SubSeq(Held(more), 1, size))
    BY <1>4 DEF ScanToken
  <2>2. Len(Held(more)) \in Nat /\ more \in Nat
    BY HeldFacts
  <2>3. PICK size \in 1 .. Len(Held(more)) :
          /\ eof => reader.eof \/ more = Unread
          /\ reader' = [reader EXCEPT !.at = @ + more, !.eof = eof,
                                      !.buf = SubSeq(Held(more), size + 1, Len(Held(more)))]
          /\ visits' = Note("seen", visits[This].seen \o SubSeq(Held(more), 1, size))
    BY <2>1
  <2>4. size \in 0 .. Len(Held(more))
    BY <2>2
  <2>5. ReadsOn(more)
    BY <1>3, <2>3, <2>4
  <2> QED BY <1>4, <2>2, <2>5
<1>5. CASE ScanEnd
  <2>1. PICK more \in Reads :
          /\ reader.eof \/ more = Unread
          /\ reader' = [reader EXCEPT !.at = @ + more, !.eof = TRUE, !.buf = <<>>]
          /\ visits' = Note("seen", visits[This].seen \o Held(more))
    BY <1>5 DEF ScanEnd
  <2>2. more \in Nat /\ Held(more) \in Seq(AnyByte) /\ Len(Held(more)) \in Nat
    BY HeldFacts
  <2>3. /\ SubSeq(Held(more), 1, Len(Held(more))) = Held(more)
        /\ SubSeq(Held(more), Len(Held(more)) + 1, Len(Held(more))) = <<>>
    BY <2>2, SubSeqFull, SubSeqEmpty
  <2>4. ReadsOn(more)
    <3> DEFINE size == Len(Held(more))
               seen == visits[This].seen
    <3>1. size \in 0 .. Len(Held(more)) /\ TRUE \in BOOLEAN
      BY <2>2
    <3>2. reader' = [reader EXCEPT !.at = @ + more, !.eof = TRUE,
                                   !.buf = SubSeq(Held(more), size + 1, Len(Held(more)))]
      BY <2>1, <2>3
    <3>3. visits' = Note("seen", seen \o SubSeq(Held(more), 1, size))
      BY <2>1, <2>3
    <3> HIDE DEF size, seen
    <3> QED BY <1>3, <2>1, <3>1, <3>2, <3>3 DEF seen
  <2>5. reader'.buf = <<>>
    BY <1>1, <2>1 DEF ReaderType
  <2> QED BY <2>1, <2>2, <2>4, <2>5
<1> QED BY <1>4, <1>5

\* The types are kept.
LEMMA ScanTyped ==
  ASSUME Types, current \in Names, This >= 1, ScanToken \/ ScanEnd
  PROVE  reader' \in ReaderType /\ SameOrder(visits')
<1>1. visits \in Seq(VisitType)
  BY DEF Types
<1>2. PICK more \in Nat : ReadsOn(more)
  BY ScanFacts
<1> QED BY <1>1, <1>2, NoteFacts DEF ReadsOn

\* What is known of the turn in progress.
LEMMA OfTurn ==
  ASSUME IInv, pc \in Body
  PROVE  /\ Types /\ current \in Names /\ This >= 1 /\ visits[This] \in VisitType
         /\ visits \in Seq(VisitType) /\ SameOrder(visits)
<1>1. This >= 1 /\ visits \in Seq(VisitType)
  BY DEF IInv, InVisit, Types
<1>2. visits[This] \in VisitType
  BY <1>1, ElementOfSeq DEF This
<1> QED BY <1>1, <1>2 DEF IInv, FileKnown, SameOrder, SameVisit, Types, This

Small ==
  /\ err \in {Ok, "walk", "open", "read"} /\ last \in BOOLEAN
  /\ reader \in ReaderType

\* The types of what the scanning methods set.
LEMMA SmallTypes ==
  ASSUME Types
  PROVE  Small /\ NoReader \in ReaderType /\ Reader(TRUE) \in ReaderType
<1>1. NoReader \in ReaderType /\ Reader(TRUE) \in ReaderType
  BY DEF NoReader, Reader, ReaderType
<1> QED BY <1>1 DEF Types, Small

\* Opening the file, or failing to, calls the body of the user or the scanner.
LEMMA OpenStep == ASSUME IInv, OpenFails \/ Open PROVE IInv'
<1>1. /\ UNCHANGED <<case, index, current, advanced, out, disk, stdout, ranges>>
      /\ pc \in Body \ Opening /\ pc' \in Body \ Opening
  BY DEF OpenFails, Open, Yield, Body, Opening
<1>2. Types /\ Small /\ NoReader \in ReaderType /\ Reader(TRUE) \in ReaderType
  BY SmallTypes DEF IInv
<1>3. Small'
  <2>1. CASE OpenFails
    BY <1>2, <2>1, SameTypes DEF OpenFails, Yield, Small
  <2>2. CASE Open
    <3>1. err' = err /\ reader' \in ReaderType
      BY <1>2, <2>2 DEF Open
    <3>2. last' \in BOOLEAN
      BY <1>2, <2>2 DEF Open, Yield, Small
    <3> QED BY <1>2, <3>1, <3>2, SameTypes, <1>1 DEF Small
  <2> QED BY <2>1, <2>2
<1>4. SameOrder(visits')
  <2>1. This >= 1 /\ visits \in Seq(VisitType) /\ SameOrder(visits)
    BY <1>1, OfTurn
  <2> QED BY <2>1, NoteFacts DEF OpenFails, Open
<1>5. Types'
  BY <1>1, <1>2, <1>3, <1>4, SameTypes DEF Small, Types, SameOrder
<1>6. FileKnown'
  BY <1>1 DEF IInv, FileKnown, Body
<1> QED BY <1>1, <1>4, <1>5, <1>6, WithinTurn

\* Contents reads the file at once.
LEMMA ReadAllStep == ASSUME IInv, ReadAll PROVE IInv'
<1>1. /\ UNCHANGED <<case, index, current, advanced, out, disk, stdout, ranges>>
      /\ pc = "readall" /\ pc' = "yield" /\ pc \in Body
  BY DEF ReadAll, Yield, Body
<1>2. Types /\ Small /\ NoReader \in ReaderType
  BY SmallTypes DEF IInv
<1>3. Small'
  BY <1>1, <1>2, SameTypes DEF ReadAll, closeReader, Yield, Small
<1>4. SameOrder(visits')
  BY <1>1, OfTurn, TextTyped, NoteFacts DEF ReadAll
<1>5. visits' \in Seq(VisitType)
  BY <1>4 DEF SameOrder
<1>6. Types'
  BY <1>1, <1>2, <1>3, <1>5, SameTypes DEF Small, Types, Body
<1>7. FileKnown' /\ pc' \in Body
  BY <1>1 DEF IInv, FileKnown, Body, Opening
<1> QED BY <1>1, <1>4, <1>6, <1>7, WithinTurn

\* The scanner yields a token, fails or reaches the end.
LEMMA ScanStep == ASSUME IInv, Scan PROVE IInv'
<1>1. /\ UNCHANGED <<case, index, current, advanced, out, disk, stdout, ranges>>
      /\ pc = "scan" /\ pc \in Body /\ pc' \in {"yield", "return"}
  BY DEF Scan, Yield, Body
<1>2. Types /\ Small
  BY SmallTypes DEF IInv
<1>3. reader' \in ReaderType /\ SameOrder(visits')
  <2>1. CASE ScanToken \/ ScanEnd
    BY <1>1, <2>1, OfTurn, ScanTyped
  <2>2. CASE ScanFault
    BY <1>1, <2>2, OfTurn, NoteFacts DEF ScanFault, Types
  <2> QED BY <2>1, <2>2 DEF Scan
<1>4. visits' \in Seq(VisitType)
  BY <1>3 DEF SameOrder
<1>5. Types'
  <2>1. err' \in {Ok, "walk", "open", "read"} /\ last' \in BOOLEAN
    BY <1>2 DEF Scan, Yield, Small
  <2> QED BY <1>1, <1>2, <1>3, <1>4, <2>1, SameTypes DEF Types, Body
<1>6. FileKnown' /\ pc' \in Body
  BY <1>1 DEF IInv, FileKnown, Body, Opening
<1> QED BY <1>1, <1>3, <1>5, <1>6, WithinTurn

\* The user goes on, reads on or begins to write.
LEMMA UserStep == ASSUME IInv, Continue \/ UserScan \/ UserWrite PROVE IInv'
<1>1. /\ UNCHANGED <<case, index, current, err, advanced, last, disk, stdout, ranges>>
      /\ pc = "yield" /\ pc \in Body /\ pc' \in {"scan", "return", "yield", "write", "backup", "create"}
  BY DEF Continue, UserScan, UserWrite, InBody, Body
<1>3. reader' \in ReaderType /\ SameOrder(visits')
  <2>1. CASE ScanToken
    BY <1>1, <2>1, OfTurn, ScanTyped
  <2>2. CASE UNCHANGED <<reader, visits>>
    BY <1>1, <2>2, OfTurn DEF Types
  <2> QED BY <2>1, <2>2 DEF Continue, UserScan, UserWrite
<1>4. /\ out' \in OutType /\ (out'.state # "none" => out'.file \in Names)
      /\ (pc' \in Opening => out'.state # "none")
  <2>1. CASE Continue \/ UserScan
    BY <1>1, <2>1 DEF Continue, UserScan, IInv, Types, FileKnown, Opening
  <2>2. CASE UserWrite
    <3>1. out' = out \/ out' = Writing(current, "lazy")
      BY <2>2 DEF UserWrite
    <3>2. pc' \in Opening => out'.state # "none"
      BY <2>2 DEF UserWrite, Writing, Opening, InBody
    <3> QED BY <1>1, <3>1, <3>2, OfTurn DEF Writing, IInv, Types, OutType, FileKnown
  <2> QED BY <2>1, <2>2
<1>5. visits' \in Seq(VisitType)
  BY <1>3 DEF SameOrder
<1>6. Types'
  BY <1>1, <1>3, <1>4, <1>5, SameTypes DEF IInv, Types, Body
<1>7. FileKnown' /\ pc' \in Body
  BY <1>1, <1>4 DEF IInv, FileKnown, Body
<1> QED BY <1>1, <1>3, <1>6, <1>7, WithinTurn


\* A file of the disk gets other contents.
LEMMA DiskTyped ==
  ASSUME disk \in DiskType, NEW n \in Names
  PROVE  /\ \A l \in Seq(AnyByte) : [disk EXCEPT ![n] = [kind |-> "file", text |-> l]] \in DiskType
         /\ \A l \in Seq(AnyByte) : [disk EXCEPT ![n].text = l] \in DiskType
         /\ [disk EXCEPT ![n] = [kind |-> "file", text |-> <<>>]] \in DiskType
<1>1. \A l \in Seq(AnyByte) : [disk EXCEPT ![n] = [kind |-> "file", text |-> l]] \in DiskType
  BY DEF DiskType, Kind
<1>2. \A l \in Seq(AnyByte) : [disk EXCEPT ![n].text = l] \in DiskType
  BY DEF DiskType
<1>3. <<>> \in Seq(AnyByte)
  OBVIOUS
<1> QED BY <1>1, <1>2, <1>3

\* What a step of the output has to show.
LEMMA OutputKeeps ==
  ASSUME IInv, pc \in Opening,
         UNCHANGED <<case, index, current, err, advanced, last, reader, ranges>>,
         pc' \in Opening \cup {"yield", "panicked"},
         disk' \in DiskType, stdout' \in {"open", "closed"}, SameOrder(visits'),
         \/ out' = out
         \/ \E s \in {"failed", "std", "file"} : out' = [out EXCEPT !.state = s]
  PROVE  IInv'
<1>1. pc \in Body /\ pc' \in Body /\ visits' \in Seq(VisitType)
  BY DEF Opening, Body, SameOrder
<1>2. out.state # "none" /\ out.file \in Names /\ out \in OutType
  BY DEF IInv, FileKnown, Types
<1>3. out' \in OutType /\ out'.state # "none" /\ out'.file \in Names
  BY <1>2 DEF OutType
<1>4. Types'
  BY <1>1, <1>3, SameTypes DEF IInv, Types
<1>5. FileKnown'
  BY <1>1, <1>3 DEF IInv, FileKnown, Body
<1> QED BY <1>1, <1>4, <1>5, WithinTurn

\* The file written to and its backup are files of the file system.
LEMMA OutputFile ==
  ASSUME IInv, pc \in Opening
  PROVE  /\ out.file \in Names /\ Backup[out.file] \in Names /\ disk \in DiskType
         /\ disk[out.file].text \in Seq(AnyByte) /\ stdout \in {"open", "closed"}
         /\ This >= 1 /\ SameOrder(visits) /\ visits[This] \in VisitType
         /\ visits \in Seq(VisitType)
<1>1. out.file \in Names /\ Types
  BY DEF IInv, FileKnown
<1>2. pc \in Body
  BY DEF Body, Opening
<1> QED BY <1>1, <1>2, FileAssumption, TextTyped, OfTurn DEF Types

\* The backup is created.
LEMMA BackupStep == ASSUME IInv, BackupFile PROVE IInv'
<1>1. /\ UNCHANGED <<case, index, current, err, advanced, last, reader, ranges, visits>>
      /\ pc = "backup" /\ pc \in Opening
  BY DEF BackupFile, Opening
<1>2. pc' \in Opening \cup {"yield", "panicked"} /\ (out' = out \/ out' = [out EXCEPT !.state = "failed"])
  BY DEF BackupFile, Refuse, Opening
<1>3. disk' \in DiskType /\ stdout' \in {"open", "closed"}
  BY <1>1, OutputFile, DiskTyped DEF BackupFile, CloseSource
<1>4. SameOrder(visits')
  BY <1>1, OutputFile
<1> QED BY <1>1, <1>2, <1>3, <1>4, OutputKeeps

\* The file is copied to it.
LEMMA CopyStep == ASSUME IInv, CopyToBackup PROVE IInv'
<1>1. /\ UNCHANGED <<case, index, current, err, advanced, last, reader, ranges, visits>>
      /\ pc = "copy" /\ pc \in Opening
  BY DEF CopyToBackup, Opening
<1>2. pc' \in Opening \cup {"yield", "panicked"} /\ (out' = out \/ out' = [out EXCEPT !.state = "failed"])
  BY DEF CopyToBackup, Refuse, Opening
<1>3. disk' \in DiskType /\ stdout' \in {"open", "closed"}
  BY <1>1, OutputFile, DiskTyped DEF CopyToBackup, CloseSource
<1>4. SameOrder(visits')
  BY <1>1, OutputFile
<1> QED BY <1>1, <1>2, <1>3, <1>4, OutputKeeps

\* The file is truncated.
LEMMA TruncateStep == ASSUME IInv, Truncate PROVE IInv'
<1>1. /\ UNCHANGED <<case, index, current, err, advanced, last, reader, ranges, stdout>>
      /\ pc = "create" /\ pc \in Opening
  BY DEF Truncate, Opening
<1>2. /\ pc' \in Opening \cup {"yield", "panicked"}
      /\ out' = out \/ \E s \in {"failed", "std", "file"} : out' = [out EXCEPT !.state = s]
  BY DEF Truncate, Refuse, Opening
<1>3. disk' \in DiskType /\ stdout' \in {"open", "closed"}
  BY <1>1, OutputFile, DiskTyped DEF Truncate
<1>4. SameOrder(visits')
  <2>1. Unread \in Nat
    <3>1. current \in Names /\ Types
      BY <1>1 DEF IInv, FileKnown, Body, Opening
    <3>2. reader.at \in Nat
      BY <3>1 DEF Types, ReaderType
    <3>3. disk[current].text \in Seq(AnyByte)
      BY <3>1, TextTyped
    <3> QED BY <3>2, <3>3 DEF Unread
  <2> QED BY <1>1, <2>1, OutputFile, NoteFacts DEF Truncate
<1> QED BY <1>1, <1>2, <1>3, <1>4, OutputKeeps

\* Runs of written bytes are joined, and cut, to such runs.
LEMMA OutRuns ==
  ASSUME NEW v \in Nat, NEW a \in Nat
  PROVE  /\ OutBytes(v, a) \in Seq(AnyByte) /\ Len(OutBytes(v, a)) = a
         /\ \A n \in 1 .. a : OutBytes(v, a)[n] = <<"out", v>>
         /\ OutBytes(v, 0) = <<>>
         /\ \A s \in Seq(AnyByte) :
              Len(s) = a /\ (\A n \in 1 .. a : s[n] = <<"out", v>>) => s = OutBytes(v, a)
         /\ \A b \in Nat : OutBytes(v, a) \o OutBytes(v, b) = OutBytes(v, a + b)
<1>1. \A n \in Nat : /\ OutBytes(v, n) \in Seq(AnyByte) /\ Len(OutBytes(v, n)) = n
                     /\ \A k \in 1 .. n : OutBytes(v, n)[k] = <<"out", v>>
  BY DEF OutBytes, AnyByte
<1>2. OutBytes(v, 0) = <<>>
  BY DEF OutBytes
<1>3. ASSUME NEW s \in Seq(AnyByte), NEW m \in Nat, Len(s) = m, \A n \in 1 .. m : s[n] = <<"out", v>>
      PROVE  s = OutBytes(v, m)
  <2> DEFINE t == OutBytes(v, m)
  <2>1. t \in Seq(AnyByte) /\ Len(t) = m /\ \A n \in 1 .. m : t[n] = <<"out", v>>
    BY <1>1
  <2>2. Len(s) = Len(t) /\ \A n \in 1 .. Len(s) : s[n] = t[n]
    BY <1>3, <2>1
  <2> HIDE DEF t
  <2>3. s = t
    BY <2>1, <2>2, SeqEqual
  <2> QED BY <2>3 DEF t
<1>4. ASSUME NEW b \in Nat PROVE OutBytes(v, a) \o OutBytes(v, b) = OutBytes(v, a + b)
  <2> DEFINE p == OutBytes(v, a)
             q == OutBytes(v, b)
             s == p \o q
  <2>1. /\ p \in Seq(AnyByte) /\ Len(p) = a /\ \A n \in 1 .. a : p[n] = <<"out", v>>
        /\ q \in Seq(AnyByte) /\ Len(q) = b /\ \A n \in 1 .. b : q[n] = <<"out", v>>
    BY <1>1
  <2> HIDE DEF p, q
  <2>2. /\ s \in Seq(AnyByte) /\ Len(s) = a + b
        /\ \A n \in 1 .. a + b : s[n] = IF n <= a THEN p[n] ELSE q[n - a]
    BY <2>1, ConcatProperties
  <2> HIDE DEF s
  <2>3. \A n \in 1 .. a + b : IF n <= a THEN n \in 1 .. a ELSE n - a \in 1 .. b
    OBVIOUS
  <2>4. \A n \in 1 .. a + b : s[n] = <<"out", v>>
    BY <2>1, <2>2, <2>3
  <2>5. a + b \in Nat
    OBVIOUS
  <2>6. s = OutBytes(v, a + b)
    BY <1>3, <2>2, <2>4, <2>5
  <2> QED BY <2>6 DEF s, p, q
<1> QED BY <1>1, <1>2, <1>3, <1>4

\* Bytes are written.
LEMMA WriteStep == ASSUME IInv, Write PROVE IInv'
<1>1. /\ UNCHANGED <<case, index, current, err, advanced, out, last, reader, ranges, stdout>>
      /\ pc = "write" /\ pc \in Opening /\ pc' = "yield"
  BY DEF Write, Opening
<1>2. CASE UNCHANGED <<disk, visits>>
  BY <1>1, <1>2, OutputFile, OutputKeeps
<1>3. CASE out.state = "file"
  <2>1. PICK count \in 0 .. MaxWritten - visits[This].wrote :
          /\ disk' = [disk EXCEPT ![out.file].text = @ \o OutBytes(This, count)]
          /\ visits' = Note("wrote", visits[This].wrote + count)
    BY <1>3 DEF Write
  <2>2. visits[This].wrote \in 0 .. MaxWritten /\ MaxWritten \in Nat
    BY <1>1, OutputFile, BoundAssumption DEF VisitType
  <2>3. visits[This].wrote + count \in 0 .. MaxWritten /\ count \in Nat
    BY <2>2
  <2>4. disk[out.file].text \o OutBytes(This, count) \in Seq(AnyByte)
    <3>1. disk[out.file].text \in Seq(AnyByte) /\ This \in Nat
      BY <1>1, OutputFile DEF This
    <3> QED BY <2>3, <3>1, OutRuns, ConcatProperties
  <2>5. disk' \in DiskType
    BY <1>1, <2>1, <2>4, OutputFile, DiskTyped
  <2>6. SameOrder(visits')
    BY <1>1, <2>1, <2>3, OutputFile, NoteFacts
  <2> QED BY <1>1, <2>5, <2>6, OutputFile, OutputKeeps
<1> QED BY <1>2, <1>3 DEF Write


-----------------------------------------------------------------------------
(* Steps between turns, and NextFile *)

LEMMA RecordOfTurns == IInv => visits \in Seq(VisitType)
BY DEF IInv, Types

\* The record of the last visit changes, but not its place in the order.
LEMMA LastChanged ==
  ASSUME IInv, This >= 1, NEW r \in VisitType, UNCHANGED ranges,
         r.range = visits[This].range, r.at = visits[This].at,
         visits' = [visits EXCEPT ![This] = r]
  PROVE  /\ visits' \in Seq(VisitType) /\ This' = This /\ visits'[This] = r
         /\ LoopsBegun' /\ EntriesInOrder'
<1>1. /\ visits' \in Seq(VisitType) /\ Len(visits') = This /\ visits'[This] = r
      /\ \A v \in 1 .. This : v # This => visits'[v] = visits[v]
  <2>1. visits \in Seq(VisitType)
    BY RecordOfTurns, Zenon
  <2> HIDE DEF VisitType
  <2> QED BY <2>1, Exchanged, Zenon
<1>2. This' = This /\ This \in Nat
  <2>1. visits \in Seq(VisitType)
    BY DEF IInv, Types
  <2>2. Len(visits) \in Nat
    BY <2>1
  <2> QED BY <1>1, <2>2, Zenon DEF This
<1>3. \A v \in 1 .. This : visits'[v].range = visits[v].range /\ visits'[v].at = visits[v].at
  BY <1>1
<1>4. LoopsBegun'
  BY <1>2, <1>3 DEF IInv, LoopsBegun
<1>5. EntriesInOrder'
  <2>1. ASSUME NEW v \in 1 .. This - 1, visits'[v + 1].range = visits'[v].range
        PROVE  /\ visits'[v + 1].at = visits'[v].at + (IF visits'[v].skips = 0 THEN 1 ELSE visits'[v].skips)
               /\ visits'[v].failed => visits'[v].skips > 0
    <3>1. v \in 1 .. This /\ v # This /\ v + 1 \in 1 .. This
      BY <1>2
    <3>2. visits'[v] = visits[v]
      BY <1>1, <3>1
    <3> QED BY <1>3, <2>1, <3>1, <3>2 DEF IInv, EntriesInOrder
  <2> QED BY <1>2, <2>1 DEF EntriesInOrder
<1> QED BY <1>1, <1>2, <1>4, <1>5

\* Visits are records of their type.
LEMMA VisitsTyped ==
  ASSUME visits \in Seq(VisitType)
  PROVE  /\ This \in Nat
         /\ \A v \in 1 .. This : visits[v] \in VisitType /\ visits[v].range \in Int
<1>1. This \in Nat /\ \A v \in 1 .. This : visits[v] \in VisitType
  BY ElementOfSeq DEF This
<1>2. \A r \in VisitType : r.range \in Int
  BY DEF VisitType
<1> QED BY <1>1, <1>2

\* A step which keeps the visits keeps their order.
LEMMA VisitsKept ==
  ASSUME IInv, visits' = visits, ranges' \in Nat, ranges' >= ranges
  PROVE  This' = This /\ LoopsBegun' /\ EntriesInOrder'
<1>1. This' = This /\ visits \in Seq(VisitType)
  BY DEF This, IInv, Types
<1>2. This \in Nat /\ \A v \in 1 .. This : visits[v].range \in Int
  BY <1>1, VisitsTyped
<1>3. ranges \in Int /\ LoopsBegun
  BY DEF IInv, Types
<1>4. \A v \in 1 .. This : visits[v].range <= ranges'
  BY <1>2, <1>3 DEF LoopsBegun
<1>5. LoopsBegun'
  BY <1>1, <1>4 DEF LoopsBegun
<1>6. EntriesInOrder'
  BY <1>1 DEF IInv, EntriesInOrder
<1> QED BY <1>1, <1>5, <1>6

\* Numbers of the case.
LEMMA CaseTyped == ASSUME Types PROVE Len(Source) \in Nat /\ case.ranges \in Nat
<1>1. case \in CaseType
  BY DEF Types
<1>2. case.source \in Seq([name : Names, err : BOOLEAN]) /\ case.ranges \in Nat
  BY <1>1 DEF CaseType
<1> QED BY <1>2 DEF Source

\* A range loop begins.
LEMMA RangeLoopStep == ASSUME IInv, RangeLoop PROVE IInv'
<1>1. /\ UNCHANGED <<case, current, err, advanced, out, last, reader, disk, stdout, visits>>
      /\ ranges' = ranges + 1 /\ ranges < case.ranges /\ pc' = "next" /\ index' \in {index, 1}
  BY DEF RangeLoop
<1>2. Len(Source) \in Nat /\ case.ranges \in Nat /\ ranges \in Nat /\ Types
  BY CaseTyped DEF IInv, Types
<1>3. Types'
  <2>1. index' \in 1 .. Len(Source) + 1 /\ ranges' \in 0 .. case.ranges
    BY <1>1, <1>2 DEF Types
  <2> QED BY <1>1, <1>2, <2>1, SameTypes DEF Types
<1>4. This' = This /\ LoopsBegun' /\ EntriesInOrder'
  BY <1>1, <1>2, VisitsKept
<1>5. FileKnown'
  BY <1>1, <1>2 DEF IInv, FileKnown, Body, Opening
<1>6. InVisit'
  BY <1>1 DEF InVisit, Body
<1>7. Between'
  <2>1. This >= 1 => visits[This].range <= ranges /\ visits[This].range \in Int
    BY <1>2, VisitsTyped DEF IInv, Types, LoopsBegun
  <2> QED BY <1>1, <1>2, <1>4, <2>1 DEF Between
<1> QED BY <1>3, <1>4, <1>5, <1>6, <1>7 DEF IInv

\* At the end of the source, or when the user breaks, the loop is left.
LEMMA LeaveStep == ASSUME IInv, NoMoreFiles \/ Break PROVE IInv'
<1>1. /\ UNCHANGED <<case, index, current, err, advanced, last, disk, ranges>>
      /\ pc' = "idle" /\ Leave
  BY DEF NoMoreFiles, Break
<1>2. Types /\ ranges \in Nat
  BY CaseTyped DEF IInv, Types
<1>3. visits' \in Seq(VisitType) /\ LoopsBegun' /\ EntriesInOrder'
  <2>1. CASE NoMoreFiles
    <3>1. visits' = visits /\ ranges' \in Nat /\ ranges' >= ranges
      BY <1>1, <1>2, <2>1 DEF NoMoreFiles
    <3> QED BY <1>2, <3>1, VisitsKept DEF Types
  <2>2. CASE Break
    <3>1. pc \in Body /\ visits' = Note("ended", "broken")
      BY <2>2 DEF Break, InBody, Body
    <3>2. This >= 1 /\ visits[This] \in VisitType
      BY <3>1, OfTurn
    <3> DEFINE r == [visits[This] EXCEPT !["ended"] = "broken"]
    <3>3. r \in VisitType /\ r.range = visits[This].range /\ r.at = visits[This].at
      BY <3>2, RecordOfVisit DEF SameVisit
    <3>4. visits' = [visits EXCEPT ![This] = r]
      BY <3>1 DEF Note
    <3> HIDE DEF r
    <3> QED BY <1>1, <3>2, <3>3, <3>4, LastChanged
  <2> QED BY <2>1, <2>2
<1>4. out' = NoOutput /\ stdout' \in {"open", "closed"} /\ out' \in OutType
  BY <1>1, <1>2 DEF Leave, closeOutput, Closed, NoOutput, Writing, OutType, Types
<1>5. reader' \in ReaderType
  BY <1>2, SmallTypes DEF NoMoreFiles, Break, closeReader, Types
<1>6. Types'
  BY <1>1, <1>2, <1>3, <1>4, <1>5, SameTypes DEF Types
<1>7. FileKnown' /\ InVisit' /\ Between'
  BY <1>1, <1>4 DEF FileKnown, InVisit, Between, Body, Opening, NoOutput, Writing
<1> QED BY <1>3, <1>6, <1>7 DEF IInv


\* The next file begins where the last visit left the source.
LEMMA NextEntryStep == ASSUME IInv, NextEntry PROVE IInv'
<1> DEFINE r == NewVisit(Source[index])
<1>1. /\ UNCHANGED <<case, index, last, reader, disk, ranges>>
      /\ pc = "next" /\ pc' = "open" /\ index <= Len(Source)
      /\ current' = Source[index].name /\ err' \in {Ok, "walk"} /\ advanced' = FALSE
      /\ out' = NoOutput /\ stdout' = Closed(out) /\ visits' = Append(visits, r)
  BY DEF NextEntry, closeOutput
<1>2. Types /\ visits \in Seq(VisitType) /\ index \in 1 .. Len(Source) /\ ranges \in 1 .. case.ranges
  BY <1>1, CaseTyped DEF IInv, Types, FileKnown
<1>3. Source[index].name \in Names
  <2>1. case \in CaseType
    BY <1>2 DEF Types
  <2>2. Source \in Seq([name : Names, err : BOOLEAN])
    BY <2>1 DEF CaseType, Source
  <2>3. Source[index] \in [name : Names, err : BOOLEAN]
    BY <1>2, <2>2, ElementOfSeq
  <2> QED BY <2>3
<1>4. /\ r \in VisitType /\ r.range = ranges /\ r.at = index /\ r.skips = 0
  BY <1>2, <1>3, TextTyped, BoundAssumption DEF NewVisit, VisitType
<1>5. /\ visits' \in Seq(VisitType) /\ This' = This + 1 /\ visits'[This + 1] = r
      /\ This \in Nat /\ \A v \in 1 .. This : visits'[v] = visits[v]
  <2> HIDE DEF r
  <2> QED BY <1>1, <1>2, <1>4 DEF This
<1> HIDE DEF r
<1>6. Types'
  <2>1. out' \in OutType /\ stdout' \in {"open", "closed"}
    BY <1>1, <1>2 DEF NoOutput, Writing, OutType, Closed, Types
  <2>2. err' \in {Ok, "walk", "open", "read"} /\ pc' \in Body /\ current' \in Names
    BY <1>1, <1>3 DEF Body
  <2> QED BY <1>1, <1>2, <1>5, <2>1, <2>2, SameTypes DEF Types
<1>7. FileKnown'
  BY <1>1, <1>2, <1>3 DEF FileKnown, NoOutput, Writing, Opening
<1>8. InVisit' /\ Between'
  <2>1. /\ This' >= 1 /\ visits'[This'].range = ranges' /\ visits'[This'].at = index
        /\ visits'[This'].skips = 0 /\ Source' = Source
    BY <1>1, <1>4, <1>5, SameTypes
  <2> QED BY <1>1, <1>2, <2>1 DEF InVisit, Between
<1>9. LoopsBegun'
  <2>1. ASSUME NEW v \in 1 .. This + 1 PROVE visits'[v].range <= ranges
    <3>1. CASE v = This + 1
      BY <1>2, <1>4, <1>5, <3>1
    <3>2. CASE v # This + 1
      <4>1. v \in 1 .. This
        BY <1>5, <3>2
      <4> QED BY <1>5, <4>1 DEF IInv, LoopsBegun
    <3> QED BY <3>1, <3>2
  <2> QED BY <1>1, <1>5, <2>1 DEF LoopsBegun
<1>10. EntriesInOrder'
  <2>1. ASSUME NEW v \in 1 .. This, visits'[v + 1].range = visits'[v].range
        PROVE  /\ visits'[v + 1].at = visits'[v].at + (IF visits'[v].skips = 0 THEN 1 ELSE visits'[v].skips)
               /\ visits'[v].failed => visits'[v].skips > 0
    <3>1. CASE v = This
      <4>1. visits'[v] = visits[This] /\ visits'[v + 1] = r /\ This >= 1
        BY <1>5, <3>1
      <4>2. visits[This].range = ranges /\ visits'[v + 1].at = index
        BY <1>4, <2>1, <4>1
      <4> QED BY <1>1, <4>1, <4>2 DEF IInv, Between
    <3>2. CASE v # This
      <4>1. v \in 1 .. This - 1 /\ visits'[v] = visits[v] /\ visits'[v + 1] = visits[v + 1]
        BY <1>5, <3>2
      <4> QED BY <2>1, <4>1 DEF IInv, EntriesInOrder
    <3> QED BY <3>1, <3>2
  <2> QED BY <1>5, <2>1 DEF EntriesInOrder
<1> QED BY <1>6, <1>7, <1>8, <1>9, <1>10 DEF IInv

\* The turn ends: the source goes on by one unless NextFile did that.
LEMMA AfterBodyStep == ASSUME IInv, AfterBody PROVE IInv'
<1> DEFINE r == [visits[This] EXCEPT !.failed = (err # Ok), !.ended = "done"]
<1>1. /\ UNCHANGED <<case, current, err, advanced, last, disk, ranges>>
      /\ pc = "return" /\ pc \in Body /\ reader' = closeReader
      /\ visits' = [visits EXCEPT ![This] = r]
      /\ \/ Stops /\ Leave /\ pc' = "idle" /\ index' = index
         \/ ~Stops /\ index' = Succeeding /\ pc' = "next" /\ UNCHANGED <<out, stdout>>
  BY DEF AfterBody, Body
<1>2. /\ Types /\ This >= 1 /\ visits[This] \in VisitType /\ visits[This].range = ranges
      /\ index = visits[This].at + visits[This].skips
      /\ advanced <=> visits[This].skips > 0
      /\ visits[This].at <= Len(Source)
  BY <1>1, OfTurn DEF IInv, InVisit
<1>3. /\ r \in VisitType /\ r.range = visits[This].range /\ r.at = visits[This].at
      /\ r.skips = visits[This].skips /\ r.failed = (err # Ok) /\ r.skips \in Nat /\ r.at \in Nat
  BY <1>2 DEF VisitType
<1> HIDE DEF r
<1>4. /\ visits' \in Seq(VisitType) /\ This' = This /\ visits'[This] = r
      /\ LoopsBegun' /\ EntriesInOrder'
  BY <1>1, <1>2, <1>3, LastChanged
<1>5. Len(Source) \in Nat /\ index \in 1 .. Len(Source) + 1 /\ index' \in {index, index + 1}
      /\ (index' = index + 1 => ~advanced)
  BY <1>1, <1>2, CaseTyped DEF Types, Succeeding
<1>6. index' \in 1 .. Len(Source) + 1
  BY <1>2, <1>3, <1>5
<1>7. /\ out' \in OutType /\ stdout' \in {"open", "closed"}
      /\ (out' = out \/ out' = NoOutput)
  BY <1>1, <1>2 DEF Leave, closeOutput, Closed, NoOutput, Writing, OutType, Types
<1>8. reader' \in ReaderType
  BY <1>1, <1>2, SmallTypes DEF closeReader, Types
<1>9. Types'
  BY <1>1, <1>2, <1>4, <1>6, <1>7, <1>8, SameTypes DEF Types
<1>10. FileKnown'
  BY <1>1, <1>7 DEF IInv, FileKnown, NoOutput, Writing, Body, Opening
<1>11. InVisit'
  BY <1>1 DEF InVisit, Body
<1>12. Between'
  <2>1. CASE pc' = "next"
    <3>1. index' = (IF advanced THEN index ELSE index + 1) /\ (err = Ok \/ advanced)
      BY <1>1, <2>1 DEF Stops, Succeeding
    <3>2. index' = r.at + (IF r.skips = 0 THEN 1 ELSE r.skips)
      BY <1>2, <1>3, <3>1
    <3>3. r.failed => r.skips > 0
      BY <1>2, <1>3, <3>1
    <3> QED BY <1>4, <3>2, <3>3 DEF Between
  <2>2. CASE pc' # "next"
    BY <2>2 DEF Between
  <2> QED BY <2>1, <2>2
<1> QED BY <1>4, <1>9, <1>10, <1>11, <1>12 DEF IInv

\* NextFile advances the source, and the visit in progress knows of it.
LEMMA NextFileStep == ASSUME IInv, NextFile PROVE IInv'
<1>1. /\ UNCHANGED <<case, pc, current, out, last, reader, disk, stdout, ranges>>
      /\ pc \in {"idle", "yield"} /\ index <= Len(Source) /\ index' \in {index, index + 1}
      /\ err' = Ok /\ advanced' = TRUE
  BY DEF NextFile, InBody, NextIndex
<1>2. Types /\ Len(Source) \in Nat /\ index' \in 1 .. Len(Source) + 1
  BY <1>1, CaseTyped DEF IInv, Types
<1>3. visits' \in Seq(VisitType) /\ LoopsBegun' /\ EntriesInOrder' /\ InVisit'
  <2>1. CASE pc = "idle"
    <3>1. visits' = visits /\ ranges' = ranges /\ ranges \in Nat
      BY <1>1, <1>2, <2>1, CaseTyped DEF NextFile, InBody, Types
    <3>2. LoopsBegun' /\ EntriesInOrder'
      BY <3>1, VisitsKept
    <3> QED BY <1>1, <1>2, <2>1, <3>1, <3>2 DEF InVisit, Body, Types
  <2>2. CASE pc = "yield"
    <3> DEFINE r == [visits[This] EXCEPT !["skips"] = visits[This].skips + 1]
    <3>1. pc \in Body /\ visits' = [visits EXCEPT ![This] = r] /\ index' = index + 1
      BY <2>2 DEF NextFile, NextIndex, InBody, Note, Body
    <3>2. /\ This >= 1 /\ visits[This] \in VisitType /\ visits[This].range = ranges
          /\ index = visits[This].at + visits[This].skips
          /\ visits[This].at <= Len(Source)
      BY <3>1, OfTurn DEF IInv, InVisit
    <3>3. /\ r \in VisitType /\ r.range = visits[This].range /\ r.at = visits[This].at
          /\ r.skips = visits[This].skips + 1 /\ r.at \in Nat /\ visits[This].skips \in Nat
      <4>1. visits[This].skips \in Nat /\ visits[This].at \in Nat
        BY <3>2 DEF VisitType
      <4>2. visits[This].skips + 1 \in Nat
        BY <4>1
      <4> QED BY <3>2, <4>1, <4>2, RecordOfVisit
    <3> HIDE DEF r
    <3>4. /\ visits' \in Seq(VisitType) /\ This' = This /\ visits'[This] = r
          /\ LoopsBegun' /\ EntriesInOrder'
      BY <1>1, <3>1, <3>2, <3>3, LastChanged
    <3>5. /\ This' >= 1 /\ visits'[This'].range = ranges'
          /\ index' = visits'[This'].at + visits'[This'].skips
          /\ visits'[This'].skips > 0 /\ visits'[This'].at <= Len(Source')
      BY <1>1, <3>1, <3>2, <3>3, <3>4, SameTypes
    <3> QED BY <1>1, <3>4, <3>5 DEF InVisit
  <2> QED BY <1>1, <2>1, <2>2
<1>4. Types'
  BY <1>1, <1>2, <1>3, SameTypes DEF Types
<1>5. FileKnown' /\ Between'
  BY <1>1 DEF IInv, FileKnown, Between
<1> QED BY <1>3, <1>4, <1>5 DEF IInv

-----------------------------------------------------------------------------
(* The theorems *)

\* Nothing was visited.
LEMMA Initially == ASSUME Init PROVE IInv
<1>1. /\ case \in CaseType /\ pc = "idle" /\ index = 1 /\ current = NoFile /\ err = Ok
      /\ advanced = FALSE /\ out = NoOutput /\ last = FALSE /\ reader = NoReader
      /\ disk = Original /\ stdout = "open" /\ ranges = 0 /\ visits = <<>>
  BY CaseAssumption DEF Init
<1>2. Len(Source) \in Nat /\ case.ranges \in Nat
  BY <1>1 DEF CaseType, Source
<1>3. NoReader \in ReaderType /\ NoOutput \in OutType
  BY DEF NoReader, Reader, ReaderType, NoOutput, Writing, OutType
<1>4. Original \in DiskType
  <2>1. ASSUME NEW n \in Names PROVE Original[n] \in [kind : Kind, text : Seq(AnyByte)]
    <3>1. Original[n] \in [kind : Kind, text : Seq(Byte)]
      BY FileAssumption
    <3>2. Original[n].text \in Seq(AnyByte)
      BY <3>1 DEF AnyByte
    <3> QED BY <3>1, <3>2
  <2>2. Original \in [Names -> [kind : Kind, text : Seq(Byte)]]
    BY FileAssumption
  <2> QED BY <2>1, <2>2 DEF DiskType
<1>5. Types
  <2>1. index \in 1 .. Len(Source) + 1 /\ ranges \in 0 .. case.ranges
    BY <1>1, <1>2
  <2>2. visits \in Seq(VisitType)
    BY <1>1
  <2> QED BY <1>1, <1>3, <1>4, <2>1, <2>2 DEF Types
<1>6. FileKnown /\ InVisit /\ Between /\ LoopsBegun /\ EntriesInOrder
  BY <1>1 DEF FileKnown, InVisit, Between, LoopsBegun, EntriesInOrder, This, NoOutput, Writing,
              Body, Opening
<1> QED BY <1>5, <1>6 DEF IInv

\* Every step preserves the invariant.
LEMMA StepPreserves == ASSUME IInv, [Next]_vars PROVE IInv'
<1>1. CASE Loop
  BY <1>1, RangeLoopStep, NextEntryStep, LeaveStep, AfterBodyStep, OpenStep, ReadAllStep,
     ScanStep DEF Loop
<1>2. CASE Output
  BY <1>2, BackupStep, CopyStep, TruncateStep, WriteStep DEF Output
<1>3. CASE User
  BY <1>3, UserStep, LeaveStep, NextFileStep DEF User
<1>4. CASE UNCHANGED vars
  <2>1. UNCHANGED <<case, pc, index, current, err, advanced, out, last, reader,
                    disk, stdout, ranges, visits>>
    BY <1>4 DEF vars
  <2>2. Types' /\ FileKnown'
    BY <2>1, SameTypes DEF IInv, Types, FileKnown
  <2>3. InVisit' /\ Between' /\ LoopsBegun' /\ EntriesInOrder'
    BY <2>1, SameTypes DEF IInv, InVisit, Between, LoopsBegun, EntriesInOrder, This
  <2> QED BY <2>2, <2>3 DEF IInv
<1> QED BY <1>1, <1>2, <1>3, <1>4 DEF Next

\* Where the source is follows from the last visit, however often NextFile was
\* called.
THEOREM Invariant == Spec => []IInv
<1> QED BY Initially, StepPreserves, PTL DEF Spec

\* The fields of FileInput, the source, the reader and the output are well formed.
THEOREM TypeCorrect == Spec => []TypeOK
<1>1. ASSUME IInv PROVE TypeOK
  <2>1. Types
    BY <1>1 DEF IInv
  <2>2. out.state \in {"none", "lazy", "file", "std", "failed"} /\ out.file \in Names \cup {NoFile}
    BY <2>1 DEF Types, OutType
  <2>3. reader.open \in BOOLEAN /\ reader.at \in Nat
        /\ reader.buf \in Seq(AnyByte) /\ reader.eof \in BOOLEAN
    BY <2>1 DEF Types, ReaderType
  <2>4. DOMAIN disk = Names
    BY <2>1 DEF Types, DiskType
  <2>5. \A v \in 1 .. This : visits[v] \in VisitType
    BY <2>1, VisitsTyped DEF Types
  <2> QED BY <2>1, <2>2, <2>3, <2>4, <2>5 DEF Types, TypeOK, Body
<1> QED BY <1>1, Invariant, PTL

\* For any source, and however the user mixes iterations with calls of NextFile,
\* no file is visited twice or passed over, and none follows one with an error
\* unless NextFile was called for it.
THEOREM OrderCorrect == Spec => []EntriesInOrder
<1>1. IInv => EntriesInOrder
  BY DEF IInv
<1> QED BY <1>1, Invariant, PTL
-----------------------------------------------------------------------------
(* What becomes of a file while it is visited *)

InUse == Opening \cup {"yield", "panicked"}
Visit == visits[This]

\* The record of the visit in progress is of the file in hand, and output goes
\* to no other file.
InFile ==
  pc \in Body =>
    /\ Visit.at \in DOMAIN Source /\ current = Source[Visit.at].name
    /\ Visit.file = current /\ Visit.ended = "no"
    /\ out.state # "none" => out.file = current
    /\ pc \in {"backup", "copy"} => case.suffix

\* How far the output is. A file which is opened has none yet.
Stage ==
  /\ pc \in {"open", "readall"} => out.state = "none"
  /\ pc \in {"backup", "copy", "create", "panicked"} => out.state = "lazy"
  /\ pc \in {"scan", "yield", "return", "write"} => out.state # "lazy"

\* What the file in hand holds: what was written if it was truncated, otherwise
\* what it held when its visit began, which then is also in the backup.
Edited ==
  pc \in Body =>
    /\ out.state = "file" => disk[current].text = OutBytes(This, Visit.wrote)
    /\ out.state # "file" => Visit.wrote = 0 /\ disk[current].text = Visit.pre
    /\ case.suffix /\ (out.state = "file" \/ pc = "create") =>
         disk[Backup[current]].text = Visit.pre

\* As long as the file in hand is as it was, what the user saw and what the
\* scanner holds are its beginning, all of it once the scanner met the end.
Before ==
  /\ reader.at <= Len(Visit.pre) /\ Got = SubSeq(Visit.pre, 1, reader.at)
  /\ reader.eof => reader.at = Len(Visit.pre)

\* Afterwards they are the file as it was and what was written beyond its length.
After(extra) ==
  /\ Got = Visit.pre \o OutBytes(This, extra) /\ reader.at = Len(Visit.pre) + extra
  /\ extra > 0 => reader.at <= Visit.wrote

Scanned ==
  case.method = "Lines" /\ pc \in Body \ {"open"} /\ ~Visit.fault =>
    /\ reader.open
    /\ out.state # "file" => Before
    /\ (out.state = "file" \/ pc = "return") /\ Visit.lost = 0 =>
         \E extra \in 0 .. Visit.wrote : After(extra)
    /\ pc = "return" => reader.buf = <<>>
    /\ pc \in InUse => ~last

Methods ==
  (pc = "scan" => case.method = "Lines") /\ (pc = "readall" => case.method = "Contents")

\* The other methods run the body of the loop once for each file.
ReadAtOnce ==
  case.method # "Lines" =>
    /\ pc \in InUse => last
    /\ case.method = "Contents" /\ pc \in InUse \cup {"return"} /\ ~Visit.fault
         => Visit.seen = Visit.pre

NothingSeen == pc = "open" => Visit.seen = <<>>

\* The reader of a file is closed before the next file is chosen.
ReaderClosed ==
  pc \in {"idle", "next"} /\ reader.open => case.method = "Readers" \/ current = Stdin

-----------------------------------------------------------------------------
(* Steps, as changes of the visit in progress *)

Fields == {"range", "at", "file", "pre", "seen", "wrote", "lost", "skips", "failed",
           "fault", "ended"}
OthersSame == This' = This /\ \A v \in 1 .. This : v # This => visits'[v] = visits[v]
\* Of the visit in progress at most the named fields change.
OnlyChanges(fields) ==
  OthersSame /\ \A f \in Fields \ fields : Visit'[f] = Visit[f]

\* What is noted about a visit is noted about nothing else.
LEMMA NoteChange ==
  ASSUME visits \in Seq(VisitType), This >= 1, NEW field \in Fields, NEW value,
         visits' = Note(field, value)
  PROVE  OnlyChanges({field}) /\ Visit'[field] = value
<1> DEFINE r == [visits[This] EXCEPT ![field] = value]
<1>1. This \in 1 .. Len(visits) /\ Len(visits) \in Nat /\ visits[This] \in VisitType
  BY ElementOfSeq DEF This
<1>2. visits' = [visits EXCEPT ![This] = r]
  BY DEF Note
<1>3. r[field] = value /\ \A f \in Fields \ {field} : r[f] = visits[This][f]
  BY <1>1 DEF VisitType, Fields
<1> HIDE DEF r
<1>4. /\ Len(visits') = Len(visits) /\ visits'[This] = r
      /\ \A v \in 1 .. This : v # This => visits'[v] = visits[v]
  <2>1. visits \in Seq(VisitType \cup {r}) /\ r \in VisitType \cup {r}
    <3>1. VisitType \subseteq VisitType \cup {r}
      OBVIOUS
    <3> QED BY <3>1, SeqMonotonic
  <2> DEFINE S == VisitType \cup {r}
  <2> HIDE DEF S
  <2>2. visits \in Seq(S) /\ r \in S
    BY <2>1 DEF S
  <2> QED BY <1>1, <1>2, <2>2, ExceptSeq DEF This
<1> QED BY <1>3, <1>4 DEF This, OnlyChanges, OthersSame, Visit

\* Nothing is noted.
LEMMA NoNote == ASSUME UNCHANGED visits PROVE OnlyChanges({})
  BY DEF OnlyChanges, OthersSame, Visit, This

\* The steps within a turn leave alone which file it is of and what it held.
LEMMA TurnStep ==
  ASSUME IInv, Next, pc \in Body, pc' \in Body
  PROVE  UNCHANGED <<case, current, ranges>> /\ OnlyChanges({"seen", "wrote", "lost", "skips", "fault"})
<1>1. visits \in Seq(VisitType) /\ This >= 1
  BY OfTurn
<1>2. \A field \in Fields : \A value : visits' = Note(field, value) => OnlyChanges({field})
  BY <1>1, NoteChange
<1>3. ASSUME \/ UNCHANGED visits
             \/ \E field \in {"seen", "wrote", "lost", "skips", "fault"} : \E value : visits' = Note(field, value)
      PROVE  OnlyChanges({"seen", "wrote", "lost", "skips", "fault"})
  <2>1. CASE UNCHANGED visits
    BY <2>1, NoNote DEF OnlyChanges
  <2>2. CASE \E field \in {"seen", "wrote", "lost", "skips", "fault"} : \E value : visits' = Note(field, value)
    <3>1. PICK field \in {"seen", "wrote", "lost", "skips", "fault"} : \E value : visits' = Note(field, value)
      BY <2>2
    <3>2. OnlyChanges({field})
      BY <1>2, <3>1 DEF Fields
    <3> QED BY <3>1, <3>2 DEF OnlyChanges
  <2> QED BY <1>3, <2>1, <2>2
<1>4. CASE OpenFails \/ Open \/ ReadAll \/ Scan \/ UserScan
  BY <1>3, <1>4 DEF OpenFails, Open, ReadAll, Scan, UserScan, ScanToken, ScanEnd, ScanFault
<1>5. CASE Continue \/ UserWrite \/ BackupFile \/ CopyToBackup \/ Truncate
  BY <1>3, <1>5 DEF Continue, UserWrite, BackupFile, CopyToBackup, Truncate
<1>6. CASE NextFile \/ Write
  BY <1>3, <1>6 DEF NextFile, Write
<1>7. ~(RangeLoop \/ NextEntry \/ NoMoreFiles \/ AfterBody \/ Break)
  BY DEF RangeLoop, NextEntry, NoMoreFiles, AfterBody, Break, Body
<1> QED BY <1>4, <1>5, <1>6, <1>7 DEF Next, Loop, Output, User

\* A turn begins only with the choice of a file.
LEMMA TurnBegins == ASSUME Next, pc \notin Body, pc' \in Body PROVE NextEntry
<1>1. CASE Loop
  BY <1>1 DEF Loop, RangeLoop, NoMoreFiles, AfterBody, OpenFails, Open, ReadAll, Scan, Body
<1>2. CASE Output
  BY <1>2 DEF Output, BackupFile, CopyToBackup, Truncate, Write, Body
<1>3. CASE User
  BY <1>3 DEF User, Continue, Break, UserScan, NextFile, UserWrite, InBody, Body
<1> QED BY <1>1, <1>2, <1>3 DEF Next

\* What a visit starts with.
LEMMA FreshVisit ==
  ASSUME IInv, NextEntry
  PROVE  /\ UNCHANGED <<case, index, last, reader, disk, ranges>> /\ pc = "next" /\ pc' = "open"
         /\ out' = NoOutput /\ current' = Source[index].name /\ index \in DOMAIN Source
         /\ This \in Nat /\ This' = This + 1 /\ \A v \in 1 .. This : visits'[v] = visits[v]
         /\ Visit' = NewVisit(Source[index])
<1> DEFINE r == NewVisit(Source[index])
<1>1. /\ UNCHANGED <<case, index, last, reader, disk, ranges>>
      /\ pc = "next" /\ pc' = "open" /\ index <= Len(Source)
      /\ current' = Source[index].name /\ out' = NoOutput /\ visits' = Append(visits, r)
  BY DEF NextEntry, closeOutput
<1>2. Types /\ visits \in Seq(VisitType) /\ index \in 1 .. Len(Source) /\ Len(Source) \in Nat
  BY <1>1, CaseTyped DEF IInv, Types
<1>3. index \in DOMAIN Source
  BY <1>2 DEF Types, CaseType, Source
<1>4. /\ This \in Nat /\ This' = This + 1 /\ \A v \in 1 .. This : visits'[v] = visits[v]
      /\ visits'[This + 1] = r
  <2> HIDE DEF r
  <2>1. Len(visits) \in Nat /\ visits' = Append(visits, r)
    BY <1>1, <1>2
  <2>2. visits' \in Seq(VisitType \cup {r}) /\ Len(visits') = Len(visits) + 1
    BY <1>2, <2>1
  <2> QED BY <1>2, <2>1, <2>2 DEF This
<1>5. Visit' = r
  BY <1>4 DEF Visit
<1> QED BY <1>1, <1>3, <1>4, <1>5

-----------------------------------------------------------------------------
(* The file in hand and the stage of its output *)

LEMMA InFileStep == ASSUME IInv, Next, InFile PROVE InFile'
<1>1. CASE pc' \notin Body
  BY <1>1 DEF InFile
<1>2. CASE pc \notin Body /\ pc' \in Body
  BY <1>2, TurnBegins, FreshVisit DEF InFile, NewVisit, NoOutput, Writing, Source
<1>3. CASE pc \in Body /\ pc' \in Body
  <2>1. UNCHANGED <<case, current>> /\ Visit'.at = Visit.at /\ Visit'.file = Visit.file
        /\ Visit'.ended = Visit.ended /\ Source' = Source
    BY <1>3, TurnStep DEF OnlyChanges, Fields, Source
  <2>2. \/ out' = out \/ out' = Writing(current, "lazy")
        \/ out'.file = out.file /\ out.state # "none"
    <3>1. Types /\ (pc \in Opening => out.state # "none")
      BY DEF IInv, FileKnown
    <3>2. CASE Loop
      BY <1>3, <3>2 DEF Loop, RangeLoop, NextEntry, NoMoreFiles, AfterBody, OpenFails, Open, ReadAll, Scan, Body
    <3>3. CASE Output
      <4>1. out' = out \/ \E state \in {"failed", "std", "file"} : out' = [out EXCEPT !.state = state]
        BY <3>3 DEF Output, BackupFile, CopyToBackup, Truncate, Write, Refuse
      <4>2. out \in OutType /\ out.state # "none"
        BY <3>1, <3>3 DEF Types, Output, BackupFile, CopyToBackup, Truncate, Write, Opening
      <4> QED BY <4>1, <4>2 DEF OutType
    <3>4. CASE User
      <4>1. CASE Continue \/ UserScan \/ NextFile \/ UserWrite
        BY <4>1 DEF Continue, UserScan, NextFile, UserWrite
      <4>2. CASE Break
        BY <1>3, <4>2 DEF Break, Body
      <4> QED BY <3>4, <4>1, <4>2 DEF User
    <3> QED BY <3>2, <3>3, <3>4 DEF Next
  <2>3. pc' \in {"backup", "copy"} => case.suffix
    <3>1. CASE Loop
      BY <3>1 DEF Loop, RangeLoop, NextEntry, NoMoreFiles, AfterBody, OpenFails, Open, ReadAll, Scan, Yield
    <3>2. CASE Output
      BY <1>3, <3>2 DEF Output, BackupFile, CopyToBackup, Truncate, Write, Refuse, InFile
    <3>3. CASE User
      BY <3>3 DEF User, Continue, Break, UserScan, NextFile, UserWrite, InBody
    <3> QED BY <3>1, <3>2, <3>3 DEF Next
  <2> QED BY <1>3, <2>1, <2>2, <2>3 DEF InFile, Writing
<1> QED BY <1>1, <1>2, <1>3

LEMMA StageStep == ASSUME IInv, Next, Stage PROVE Stage'
<1>1. Types
  BY DEF IInv
<1>2. CASE Loop
  <2>1. CASE RangeLoop \/ NoMoreFiles \/ AfterBody
    BY <2>1 DEF RangeLoop, NoMoreFiles, AfterBody, Stage
  <2>2. CASE NextEntry
    BY <2>2 DEF NextEntry, Stage, closeOutput, NoOutput, Writing
  <2>3. CASE OpenFails \/ Open \/ ReadAll \/ Scan
    BY <2>3 DEF OpenFails, Open, ReadAll, Scan, Yield, Stage
  <2> QED BY <1>2, <2>1, <2>2, <2>3 DEF Loop
<1>3. CASE Output
  BY <1>1, <1>3 DEF Output, BackupFile, CopyToBackup, Truncate, Write, Refuse, Stage, Types, OutType
<1>4. CASE User
  BY <1>1, <1>4 DEF User, Continue, Break, UserScan, NextFile, UserWrite, InBody, Stage, Writing, Types, OutType
<1> QED BY <1>2, <1>3, <1>4 DEF Next

LEMMA ReaderStep == ASSUME IInv, Next, ReaderClosed PROVE ReaderClosed'
<1>1. CASE RangeLoop \/ NoMoreFiles
  BY <1>1 DEF RangeLoop, NoMoreFiles, ReaderClosed
<1>2. CASE AfterBody \/ Break
  BY <1>2 DEF AfterBody, Break, closeReader, NoReader, Reader, ReaderClosed
<1>3. CASE NextFile
  BY <1>3 DEF NextFile, ReaderClosed
<1>4. CASE NextEntry \/ OpenFails \/ Open \/ ReadAll \/ Scan
  BY <1>4 DEF NextEntry, OpenFails, Open, ReadAll, Scan, Yield, ReaderClosed
<1>5. CASE Output
  BY <1>5 DEF Output, BackupFile, CopyToBackup, Truncate, Write, Refuse, ReaderClosed
<1>6. CASE Continue \/ UserScan \/ UserWrite
  BY <1>6 DEF Continue, UserScan, UserWrite, InBody, ReaderClosed
<1> QED BY <1>1, <1>2, <1>3, <1>4, <1>5, <1>6 DEF Next, Loop, User

-----------------------------------------------------------------------------
(* What was written, and what a file or its backup holds *)

\* What the next lemmas start from.
Turn == IInv /\ case \in Case /\ InFile /\ Stage

LEMMA TurnFacts ==
  ASSUME Turn, pc \in Body
  PROVE  /\ Types /\ current \in Names /\ Visit \in VisitType /\ This \in Nat \ {0}
         /\ disk \in DiskType /\ out \in OutType /\ Backup[current] \in Names
         /\ Visit.file = current /\ Visit.ended = "no" /\ (out.state # "none" => out.file = current)
         /\ case.suffix => Backup[current] # current
<1>1. Types /\ current \in Names /\ This >= 1 /\ Visit \in VisitType
  BY OfTurn DEF Turn, Visit
<1>2. This \in Nat
  BY <1>1, VisitsTyped DEF Types
<1>3. Visit.at \in DOMAIN case.source /\ current = case.source[Visit.at].name
  BY DEF Turn, InFile, Source
<1>4. case.suffix => Backup[current] # current
  BY <1>3, CaseAssumption DEF Turn
<1> QED BY <1>1, <1>2, <1>4, FileAssumption DEF Turn, InFile, Types

\* The reading side does not touch the files.
LEMMA QuietSteps ==
  ASSUME Next, pc \in Body, pc' \in Body
  PROVE  \/ Output
         \/ /\ pc \notin Opening \cup {"panicked"} /\ UNCHANGED disk
            /\ (out' = out \/ (out.state = "none" /\ out'.state = "lazy" /\ pc = "yield"))
            /\ (pc' = "create" => ~case.suffix)
            /\ \/ UNCHANGED visits
               \/ \E field \in {"seen", "skips", "fault"} : \E value : visits' = Note(field, value)
<1>1. CASE OpenFails \/ Open \/ ReadAll \/ Scan
  BY <1>1 DEF OpenFails, Open, ReadAll, Scan, Yield, ScanToken, ScanEnd, ScanFault, Opening
<1>2. CASE Continue \/ UserScan \/ NextFile
  BY <1>2 DEF Continue, UserScan, NextFile, InBody, ScanToken, Opening, Body
<1>3. CASE UserWrite
  BY <1>3 DEF UserWrite, InBody, Writing, Opening
<1>4. ~(RangeLoop \/ NextEntry \/ NoMoreFiles \/ AfterBody \/ Break)
  BY DEF RangeLoop, NextEntry, NoMoreFiles, AfterBody, Break, Body
<1> QED BY <1>1, <1>2, <1>3, <1>4 DEF Next, Loop, User

\* The fields of the visit which a note leaves alone.
LEMMA QuietNotes ==
  ASSUME Turn, pc \in Body,
         \/ UNCHANGED visits
         \/ \E field \in {"seen", "skips", "fault"} : \E value : visits' = Note(field, value)
  PROVE  OnlyChanges({"seen", "skips", "fault"})
<1>1. visits \in Seq(VisitType) /\ This >= 1
  BY OfTurn DEF Turn
<1>2. CASE UNCHANGED visits
  BY <1>2, NoNote DEF OnlyChanges
<1>3. ASSUME NEW field \in {"seen", "skips", "fault"}, NEW value, visits' = Note(field, value)
      PROVE  OnlyChanges({"seen", "skips", "fault"})
  <2>1. OnlyChanges({field})
    BY <1>1, <1>3, NoteChange DEF Fields
  <2> QED BY <2>1 DEF OnlyChanges
<1> QED BY <1>2, <1>3

\* Writing changes only the file in hand and its backup, and keeps the latter.
LEMMA OutputStep ==
  ASSUME Turn, Edited, Output
  PROVE  /\ pc \in Body /\ pc' \in Body /\ Edited'
         /\ \A n \in Names : n \notin {current, Backup[current]} => disk'[n] = disk[n]
<1>1. /\ pc \in Opening /\ pc \in Body /\ pc' \in Body
      /\ UNCHANGED <<case, current>>
  BY DEF Output, BackupFile, CopyToBackup, Truncate, Write, Refuse, Opening, Body
<1>2. /\ Types /\ current \in Names /\ Visit \in VisitType /\ This \in Nat \ {0}
      /\ disk \in DiskType /\ out \in OutType /\ Backup[current] \in Names
      /\ out.state # "none" => out.file = current
      /\ case.suffix => Backup[current] # current
  BY <1>1, TurnFacts
<1>3. out.state # "none" /\ out.file = current
  BY <1>1, <1>2 DEF Turn, IInv, FileKnown
<1>4. disk \in [Names -> [kind : Kind, text : Seq(AnyByte)]]
  BY <1>2 DEF DiskType
<1>5. CASE BackupFile \/ CopyToBackup \/ Truncate
  <2>1. This' = This /\ Visit'.pre = Visit.pre /\ Visit'.wrote = Visit.wrote
    <3>1. CASE UNCHANGED visits
      BY <3>1 DEF This, Visit
    <3>2. CASE visits' = Note("lost", Unread)
      <4>1. OnlyChanges({"lost"})
        BY <1>1, <3>2, OfTurn, NoteChange DEF Turn, Fields
      <4> QED BY <4>1 DEF OnlyChanges, OthersSame, Fields
    <3> QED BY <1>5, <3>1, <3>2 DEF BackupFile, CopyToBackup, Truncate
  <2>2. CASE BackupFile
    <3>1. out.state = "lazy" /\ case.suffix /\ pc = "backup"
      BY <2>2, <1>1 DEF BackupFile, Turn, Stage, InFile
    <3>2. Visit.wrote = 0 /\ disk[current].text = Visit.pre
      BY <1>1, <3>1 DEF Edited
    <3>3. out'.state \in {"lazy", "failed"} /\ pc' \in {"copy", "yield"}
      BY <1>2, <2>2, <3>1 DEF BackupFile, Refuse, OutType
    <3>4. disk' = disk \/ disk' = [disk EXCEPT ![Backup[current]] = [kind |-> "file", text |-> <<>>]]
      BY <1>3, <2>2 DEF BackupFile
    <3>5. \A n \in Names : n # Backup[current] => disk'[n] = disk[n]
      BY <1>2, <1>4, <3>4
    <3> QED BY <1>1, <1>2, <2>1, <3>1, <3>2, <3>3, <3>5 DEF Edited
  <2>3. CASE CopyToBackup
    <3>1. out.state = "lazy" /\ case.suffix /\ pc = "copy"
      BY <2>3, <1>1 DEF CopyToBackup, Turn, Stage, InFile
    <3>2. Visit.wrote = 0 /\ disk[current].text = Visit.pre
      BY <1>1, <3>1 DEF Edited
    <3>3. out'.state \in {"lazy", "failed"}
      BY <1>2, <2>3, <3>1 DEF CopyToBackup, Refuse, OutType
    <3>4. \/ disk' = disk /\ pc' = "yield"
          \/ disk' = [disk EXCEPT ![Backup[current]].text = disk[current].text] /\ pc' = "create"
      BY <1>3, <2>3 DEF CopyToBackup, Refuse
    <3>5. \A n \in Names : n # Backup[current] => disk'[n] = disk[n]
      BY <1>2, <1>4, <3>4
    <3>6. pc' = "create" => disk'[Backup[current]].text = Visit.pre
      BY <1>2, <1>4, <3>2, <3>4
    <3> QED BY <1>1, <1>2, <2>1, <3>1, <3>2, <3>3, <3>5, <3>6 DEF Edited
  <2>4. CASE Truncate
    <3>1. out.state = "lazy" /\ pc = "create"
      BY <2>4 DEF Truncate, Turn, Stage
    <3>2. /\ Visit.wrote = 0 /\ disk[current].text = Visit.pre
          /\ case.suffix => disk[Backup[current]].text = Visit.pre
      BY <1>1, <3>1 DEF Edited
    <3>3. \/ disk' = disk /\ out'.state # "file" /\ pc' # "create"
          \/ /\ disk' = [disk EXCEPT ![current] = [kind |-> "file", text |-> <<>>]]
             /\ out'.state = "file" /\ pc' = "write"
      <4>1. \A state : [out EXCEPT !.state = state].state = state
        BY <1>2 DEF OutType
      <4> QED BY <1>3, <2>4, <3>1, <4>1 DEF Truncate, Refuse
    <3>4. \A n \in Names : n # current => disk'[n] = disk[n]
      BY <1>2, <1>4, <3>3
    <3>5. CASE disk' = disk /\ out'.state # "file" /\ pc' # "create"
      BY <1>1, <2>1, <3>2, <3>5 DEF Edited
    <3>6. CASE /\ disk' = [disk EXCEPT ![current] = [kind |-> "file", text |-> <<>>]]
               /\ out'.state = "file" /\ pc' = "write"
      <4>1. disk'[current].text = <<>>
        BY <1>2, <1>4, <3>6
      <4>2. OutBytes(This', Visit'.wrote) = <<>>
        BY <1>2, <2>1, <3>2, OutRuns
      <4> QED BY <1>1, <1>2, <2>1, <3>2, <3>4, <3>6, <4>1, <4>2 DEF Edited
    <3> QED BY <1>1, <3>3, <3>4, <3>5, <3>6
  <2> QED BY <1>5, <2>2, <2>3, <2>4
<1>6. CASE Write /\ out.state # "file"
  <2>1. UNCHANGED <<visits, disk, out>> /\ pc' = "yield" /\ This' = This /\ Visit' = Visit
    BY <1>6 DEF Write, This, Visit
  <2> QED BY <1>1, <1>6, <2>1 DEF Edited
<1>7. CASE Write /\ out.state = "file"
  <2>1. PICK count \in 0 .. MaxWritten - Visit.wrote :
          /\ disk' = [disk EXCEPT ![current].text = @ \o OutBytes(This, count)]
          /\ visits' = Note("wrote", Visit.wrote + count)
    BY <1>3, <1>7 DEF Write, Visit
  <2>2. OnlyChanges({"wrote"}) /\ Visit'["wrote"] = Visit.wrote + count
    BY <1>1, <2>1, OfTurn, NoteChange DEF Turn, Fields
  <2>3. /\ This' = This /\ Visit'.pre = Visit.pre /\ Visit'.wrote = Visit.wrote + count
        /\ Visit.wrote \in Nat /\ count \in Nat
    <3>1. Visit.wrote \in 0 .. MaxWritten
      BY <1>2 DEF VisitType
    <3> QED BY <2>1, <2>2, <3>1, BoundAssumption DEF OnlyChanges, OthersSame, Fields
  <2>4. out' = out /\ pc' = "yield"
    BY <1>7 DEF Write
  <2>5. \A n \in Names : n # current => disk'[n] = disk[n]
    BY <1>2, <1>4, <2>1
  <2>6. disk'[current].text = disk[current].text \o OutBytes(This, count)
    BY <1>2, <1>4, <2>1
  <2>7. disk'[current].text = OutBytes(This', Visit'.wrote)
    <3>1. disk[current].text = OutBytes(This, Visit.wrote)
      BY <1>1, <1>7 DEF Edited
    <3>2. OutBytes(This, Visit.wrote) \o OutBytes(This, count) = OutBytes(This, Visit.wrote + count)
      BY <1>2, <2>3, OutRuns
    <3> QED BY <2>3, <2>6, <3>1, <3>2
  <2> QED BY <1>1, <1>2, <1>7, <2>3, <2>4, <2>5, <2>7 DEF Edited
<1> QED BY <1>5, <1>6, <1>7 DEF Output

LEMMA EditedStep == ASSUME Turn, Edited, Next PROVE Edited'
<1>1. CASE pc' \notin Body
  BY <1>1 DEF Edited
<1>2. CASE pc \notin Body /\ pc' \in Body
  BY <1>2, TurnBegins, FreshVisit DEF Turn, Edited, NewVisit, NoOutput, Writing
<1>3. CASE Output
  BY <1>3, OutputStep
<1>4. CASE pc \in Body /\ pc' \in Body /\ ~Output
  <2>1. /\ pc \notin Opening \cup {"panicked"} /\ UNCHANGED disk
        /\ (out' = out \/ (out.state = "none" /\ out'.state = "lazy" /\ pc = "yield"))
        /\ (pc' = "create" => ~case.suffix)
        /\ OnlyChanges({"seen", "skips", "fault"})
    BY <1>4, QuietSteps, QuietNotes
  <2>2. UNCHANGED <<case, current>> /\ This' = This /\ Visit'.wrote = Visit.wrote /\ Visit'.pre = Visit.pre
    BY <1>4, <2>1, TurnStep DEF Turn, OnlyChanges, OthersSame, Fields
  <2>3. OutBytes(This', Visit'.wrote) = OutBytes(This, Visit.wrote)
    BY <2>2
  <2> QED BY <1>4, <2>1, <2>2, <2>3 DEF Edited, Opening
<1> QED BY <1>1, <1>2, <1>3, <1>4

\* A turn ends in one way.
LEMMA EndsDiffer == ~(AfterBody /\ Break)
BY DEF AfterBody, Break, InBody

\* When a turn ends, its record is marked as ended.
LEMMA TurnEnds ==
  ASSUME Turn, AfterBody \/ Break
  PROVE  /\ pc \in Body /\ pc' \notin Body /\ UNCHANGED <<case, current, disk>>
         /\ OnlyChanges({"failed", "ended"})
         /\ AfterBody => Visit'.failed = (err # Ok)
         /\ Break => Visit'.ended = "broken"
<1>1. /\ visits \in Seq(VisitType) /\ This >= 1 /\ Visit \in VisitType
      /\ pc \in Body /\ pc' \notin Body /\ UNCHANGED <<case, current, disk>>
  <2>1. pc \in Body /\ pc' \notin Body /\ UNCHANGED <<case, current, disk>>
    BY DEF AfterBody, Break, InBody, Body
  <2> QED BY <2>1, OfTurn DEF Turn, Visit
<1>2. CASE Break
  <2>1. OnlyChanges({"ended"}) /\ Visit'["ended"] = "broken"
    <3>1. visits' = Note("ended", "broken")
      BY <1>2 DEF Break
    <3>2. "ended" \in Fields
      BY DEF Fields
    <3> QED BY <1>1, <3>1, <3>2, NoteChange, Zenon
  <2>2. ~AfterBody
    BY <1>2, EndsDiffer, Zenon
  <2> QED BY <1>1, <2>1, <2>2 DEF OnlyChanges
<1>3. CASE AfterBody
  <2> DEFINE r == [Visit EXCEPT !.failed = (err # Ok), !.ended = "done"]
  <2>1. visits' = [visits EXCEPT ![This] = r] /\ ~Break
    BY <1>3 DEF AfterBody, Visit, Break, InBody
  <2>2. /\ r \in VisitType /\ r.failed = (err # Ok)
        /\ \A f \in Fields \ {"failed", "ended"} : r[f] = Visit[f]
    BY <1>1 DEF VisitType, Fields
  <2> HIDE DEF r
  <2>3. /\ Len(visits') = This /\ visits'[This] = r
        /\ \A v \in 1 .. This : v # This => visits'[v] = visits[v]
    BY <1>1, <2>1, <2>2, Exchanged
  <2> QED BY <1>1, <2>1, <2>2, <2>3, Zenon DEF This, OnlyChanges, OthersSame, Visit
<1> QED BY <1>2, <1>3

\* Of the visits so far, files and what they held do not change; what was
\* written changes for the one in progress only.
LEMMA EarlierVisits ==
  ASSUME Turn, Next
  PROVE  /\ This \in Nat /\ This' = (IF NextEntry THEN This + 1 ELSE This)
         /\ \A v \in 1 .. This :
              /\ visits'[v].file = visits[v].file /\ visits'[v].pre = visits[v].pre
              /\ visits'[v].wrote # visits[v].wrote => Output /\ v = This
<1>1. This \in Nat
  BY VisitsTyped DEF Turn, IInv, Types
<1>2. CASE NextEntry
  BY <1>1, <1>2, FreshVisit DEF Turn
<1>3. CASE UNCHANGED visits /\ ~NextEntry
  BY <1>1, <1>3 DEF This
<1>4. CASE pc \in Body /\ pc' \in Body /\ ~NextEntry
  <2>1. Output \/ OnlyChanges({"seen", "skips", "fault"})
    BY <1>4, QuietSteps, QuietNotes
  <2>2. OnlyChanges({"seen", "wrote", "lost", "skips", "fault"})
    BY <1>4, TurnStep DEF Turn
  <2>3. /\ This' = This /\ \A v \in 1 .. This : v # This => visits'[v] = visits[v]
        /\ Visit'.file = Visit.file /\ Visit'.pre = Visit.pre
        /\ ~Output => Visit'.wrote = Visit.wrote
    BY <2>1, <2>2 DEF OnlyChanges, OthersSame, Fields
  <2> QED BY <1>1, <1>4, <2>3 DEF Visit
<1>5. CASE (AfterBody \/ Break) /\ ~NextEntry
  <2>1. OnlyChanges({"failed", "ended"})
    BY <1>5, TurnEnds
  <2>2. /\ This' = This /\ \A v \in 1 .. This : v # This => visits'[v] = visits[v]
        /\ Visit'.file = Visit.file /\ Visit'.pre = Visit.pre /\ Visit'.wrote = Visit.wrote
    BY <2>1 DEF OnlyChanges, OthersSame, Fields
  <2> QED BY <1>1, <1>5, <2>2 DEF Visit
<1>6. NextEntry \/ UNCHANGED visits \/ (pc \in Body /\ pc' \in Body) \/ AfterBody \/ Break
  <2>1. CASE RangeLoop \/ NoMoreFiles
    BY <2>1 DEF RangeLoop, NoMoreFiles
  <2>2. CASE OpenFails \/ Open \/ ReadAll \/ Scan \/ Output \/ Continue \/ UserScan \/ UserWrite
    BY <2>2 DEF OpenFails, Open, ReadAll, Scan, Output, BackupFile, CopyToBackup, Truncate, Write,
                Refuse, Continue, UserScan, UserWrite, InBody, Yield, Body
  <2>3. CASE NextFile
    BY <2>3 DEF NextFile, InBody, Body
  <2> QED BY <2>1, <2>2, <2>3 DEF Next, Loop, User
<1> QED BY <1>2, <1>3, <1>4, <1>5, <1>6

\* Files change in the output only.
LEMMA FilesKept == ASSUME Next, ~Output PROVE UNCHANGED disk
<1>1. CASE Loop
  BY <1>1 DEF Loop, RangeLoop, NextEntry, NoMoreFiles, AfterBody, OpenFails, Open, ReadAll, Scan
<1>2. CASE User
  BY <1>2 DEF User, Continue, Break, UserScan, NextFile, UserWrite
<1> QED BY <1>1, <1>2 DEF Next

\* A file which was edited is disturbed only by a later visit of it or its backup.
LEMMA EditsStep ==
  ASSUME Turn, Turn', Edited, Edited', EditsAreKept, Next
  PROVE  EditsAreKept'
<1>1. /\ This \in Nat /\ This' = (IF NextEntry THEN This + 1 ELSE This)
      /\ \A v \in 1 .. This :
              /\ visits'[v].file = visits[v].file /\ visits'[v].pre = visits[v].pre
              /\ visits'[v].wrote # visits[v].wrote => Output /\ v = This
  BY EarlierVisits
<1> SUFFICES ASSUME NEW v \in 1 .. This', \A u \in v + 1 .. This' : ~Disturbs(u, v)'
             PROVE  LET file == visits'[v].file
                    IN /\ case'.inplace /\ case'.suffix =>
                            visits'[v].pre \in {disk'[file].text, disk'[Backup[file]].text}
                       /\ visits'[v].wrote > 0 =>
                            disk'[file].text = OutBytes(v, visits'[v].wrote)
  BY DEF EditsAreKept
<1>2. case' = case
  BY DEF Next, Loop, Output, User, RangeLoop, NextEntry, NoMoreFiles, AfterBody, OpenFails, Open,
         ReadAll, Scan, BackupFile, CopyToBackup, Truncate, Write, Continue, Break, UserScan,
         NextFile, UserWrite
<1>3. CASE v = This' /\ pc' \in Body
  <2>1. Visit'.file = current' /\ Visit' = visits'[v] /\ Visit'.wrote \in Nat
    <3>1. Visit' \in VisitType'
      <4>1. visits' \in Seq(VisitType') /\ v \in 1 .. Len(visits')
        BY <1>3 DEF Turn, IInv, Types, This
      <4> QED BY <1>3, <4>1, ElementOfSeq DEF Visit
    <3> QED BY <1>3, <3>1 DEF Turn, InFile, Visit, VisitType
  <2> QED BY <1>3, <2>1 DEF Edited
<1>4. CASE ~(v = This' /\ pc' \in Body)
  <2>1. v \in 1 .. This /\ ~(v = This /\ Output)
    <3>1. NextEntry => pc' \in Body
      BY DEF NextEntry, Body
    <3>2. Output => pc' \in Body /\ ~NextEntry
      BY OutputStep DEF Output, NextEntry, BackupFile, CopyToBackup, Truncate, Write
    <3> QED BY <1>1, <1>4, <3>1, <3>2
  <2>2. /\ visits'[v].file = visits[v].file /\ visits'[v].pre = visits[v].pre
        /\ visits'[v].wrote = visits[v].wrote
    BY <1>1, <2>1
  <2>3. \A u \in v + 1 .. This : ~Disturbs(u, v)
    <3>1. ASSUME NEW u \in v + 1 .. This PROVE ~Disturbs(u, v)
      <4>1. u \in v + 1 .. This' /\ u \in 1 .. This
        BY <1>1, <2>1
      <4> QED BY <1>1, <4>1, <2>2 DEF Disturbs
    <3> QED BY <3>1
  <2>4. /\ disk'[visits[v].file] = disk[visits[v].file]
        /\ disk'[Backup[visits[v].file]] = disk[Backup[visits[v].file]]
    <3>1. CASE ~Output
      BY <3>1, FilesKept
    <3>2. CASE Output
      <4>1. /\ pc \in Body
            /\ \A n \in Names : n \notin {current, Backup[current]} => disk'[n] = disk[n]
        BY <3>2, OutputStep
      <4>2. Visit.file = current /\ This \in v + 1 .. This
        BY <1>1, <2>1, <3>2, <4>1, TurnFacts
      <4>3. {current, Backup[current]} \cap {visits[v].file, Backup[visits[v].file]} = {}
        BY <2>3, <4>2 DEF Disturbs, Visit
      <4>4. visits[v] \in VisitType
        BY <2>1, VisitsTyped DEF Turn, IInv, Types
      <4>5. visits[v].file \in Names /\ Backup[visits[v].file] \in Names
        BY <4>4, FileAssumption DEF VisitType
      <4> QED BY <4>1, <4>3, <4>5
    <3> QED BY <3>1, <3>2
  <2> QED BY <1>2, <2>1, <2>2, <2>3, <2>4 DEF EditsAreKept
<1> QED BY <1>3, <1>4

-----------------------------------------------------------------------------
(* What was seen of the file *)

SeenType == Visit.seen \in Seq(AnyByte) /\ Visit.pre \in Seq(AnyByte) /\ reader \in ReaderType

LEMMA SeenTyped == ASSUME Turn, pc \in Body PROVE SeenType
  BY TurnFacts DEF Types, VisitType, SeenType

LEMMA CaseKept == ASSUME Next PROVE case' = case
<1>1. CASE Loop
  BY <1>1 DEF Loop, RangeLoop, NextEntry, NoMoreFiles, AfterBody, OpenFails, Open, ReadAll, Scan
<1>2. CASE Output
  BY <1>2 DEF Output, BackupFile, CopyToBackup, Truncate, Write
<1>3. CASE User
  BY <1>3 DEF User, Continue, Break, UserScan, NextFile, UserWrite
<1> QED BY <1>1, <1>2, <1>3 DEF Next

LEMMA MethodsStep == ASSUME Next, Methods, ReadAtOnce PROVE Methods' /\ (pc' = "open" => NextEntry)
<1>1. CASE Loop
  BY <1>1 DEF Loop, RangeLoop, NextEntry, NoMoreFiles, AfterBody, OpenFails, Open, ReadAll, Scan,
              Yield, Methods
<1>2. CASE Output
  BY <1>2 DEF Output, BackupFile, CopyToBackup, Truncate, Write, Refuse, Methods
<1>3. CASE Break \/ UserScan \/ NextFile \/ UserWrite
  BY <1>3 DEF Break, UserScan, NextFile, UserWrite, InBody, Methods
<1>4. CASE Continue
  BY <1>4 DEF Continue, InBody, Resumes, Methods, ReadAtOnce, InUse
<1> QED BY <1>1, <1>2, <1>3, <1>4 DEF Next, User

\* The methods which do not scan call the body of the loop once.
LEMMA ReadAtOnceStep == ASSUME Turn, Edited, Methods, Next, ReadAtOnce PROVE ReadAtOnce'
<1> SUFFICES ASSUME case.method # "Lines" PROVE ReadAtOnce'
  BY CaseKept DEF ReadAtOnce
<1>1. CASE pc' \notin InUse \cup {"return"}
  BY <1>1 DEF ReadAtOnce, InUse
<1>2. CASE pc \notin Body /\ pc' \in Body
  BY <1>2, TurnBegins, FreshVisit DEF Turn, ReadAtOnce, InUse, Opening
<1>3. CASE pc \in Body /\ pc' \in InUse \cup {"return"}
  <2>1. /\ pc' \in Body /\ visits \in Seq(VisitType) /\ This >= 1 /\ case' = case
    BY <1>3, OfTurn, CaseKept DEF Turn, InUse, Opening, Body
  <2>2. OnlyChanges({"seen", "wrote", "lost", "skips", "fault"})
    BY <1>3, <2>1, TurnStep DEF Turn
  <2>3. CASE OpenFails
    <3>1. Visit'["fault"] = TRUE /\ last' = TRUE
      BY <2>1, <2>3, NoteChange DEF OpenFails, Yield, Fields
    <3> QED BY <2>1, <3>1 DEF ReadAtOnce
  <2>4. CASE Open
    BY <1>3, <2>1, <2>4 DEF Open, Yield, ReadAtOnce, InUse, Opening
  <2>5. CASE ReadAll
    <3>1. last' = TRUE /\ pc = "readall"
      BY <2>5 DEF ReadAll, Yield
    <3>2. disk[current].text = Visit.pre
      BY <1>3, <3>1 DEF Turn, Stage, Edited
    <3>3. CASE visits' = Note("seen", disk[current].text)
      <4>1. OnlyChanges({"seen"}) /\ Visit'["seen"] = Visit.pre
        BY <2>1, <3>2, <3>3, NoteChange DEF Fields
      <4>2. Visit'.seen = Visit'.pre
        BY <4>1 DEF OnlyChanges, Fields
      <4> QED BY <3>1, <4>2 DEF ReadAtOnce
    <3>4. CASE visits' = Note("fault", TRUE)
      <4>1. Visit'["fault"] = TRUE
        BY <2>1, <3>4, NoteChange DEF Fields
      <4> QED BY <3>1, <4>1 DEF ReadAtOnce
    <3> QED BY <2>5, <3>3, <3>4 DEF ReadAll
  <2>6. CASE Output \/ Continue \/ UserWrite \/ NextFile \/ (UserScan /\ case.method # "Contents")
    <3>1. pc \in InUse /\ last' = last
      BY <1>3, <2>6 DEF Output, BackupFile, CopyToBackup, Truncate, Write, Continue, UserWrite, NextFile,
                   UserScan, InBody, InUse, Opening, Body
    <3>2. \/ OnlyChanges({"wrote"}) \/ OnlyChanges({"lost"}) \/ OnlyChanges({"skips"})
          \/ case.method # "Contents"
      <4>1. \A field \in Fields : \A value : visits' = Note(field, value) => OnlyChanges({field})
        BY <2>1, NoteChange
      <4>2. UNCHANGED visits => OnlyChanges({"wrote"})
        BY NoNote DEF OnlyChanges
      <4> QED BY <2>6, <4>1, <4>2 DEF Output, BackupFile, CopyToBackup, Truncate, Write, Continue,
                   UserWrite, NextFile, Fields
    <3>3. case.method = "Contents" => Visit'.seen = Visit.seen /\ Visit'.pre = Visit.pre
                                      /\ Visit'.fault = Visit.fault
      BY <3>2 DEF OnlyChanges, Fields
    <3> QED BY <2>1, <3>1, <3>3 DEF ReadAtOnce
  <2>7. ~(RangeLoop \/ NextEntry \/ NoMoreFiles \/ AfterBody \/ Break \/ Scan)
        /\ (UserScan => case.method # "Contents")
    BY <1>3, <2>1 DEF RangeLoop, NextEntry, NoMoreFiles, AfterBody, Break, Scan, UserScan, Methods, Body
  <2> QED BY <2>3, <2>4, <2>5, <2>6, <2>7 DEF Next, Loop, User
<1> QED BY <1>1, <1>2, <1>3 DEF InUse, Opening, Body

\* The scanner reads on in the file as it was.
LEMMA ReadsBefore ==
  ASSUME Turn, Edited, Scanned, pc = "scan", case.method = "Lines", ~Visit.fault,
         out.state # "file", NEW more \in Nat, ReadsOn(more)
  PROVE  LET piece == SubSeq(disk[current].text, reader.at + 1, reader.at + more)
         IN /\ reader.at + more <= Len(Visit.pre)
            /\ Got \o piece = SubSeq(Visit.pre, 1, reader.at + more)
            /\ reader.eof \/ more = Unread => reader.at + more = Len(Visit.pre)
<1> DEFINE pre == Visit.pre
           at == reader.at
           piece == SubSeq(disk[current].text, at + 1, at + more)
<1>1. /\ pc \in Body /\ Types /\ current \in Names /\ pre \in Seq(AnyByte) /\ at \in Nat
      /\ Len(pre) \in Nat
  <2>1. pc \in Body
    BY DEF Body
  <2> QED BY <2>1, TurnFacts, SeenTyped DEF SeenType, ReaderType
<1>2. /\ disk[current].text = pre /\ reader.open /\ at <= Len(pre) /\ Got = SubSeq(pre, 1, at)
      /\ reader.eof => at = Len(pre)
  BY <1>1 DEF Edited, Scanned, Before
<1>3. more \in Reads /\ more \in 0 .. Unread
  BY <1>1, HeldFacts DEF ReadsOn
<1>4. Unread = Len(pre) - at
  BY <1>1, <1>2 DEF Unread
<1>5. /\ at + more <= Len(pre)
      /\ reader.eof \/ more = Unread => at + more = Len(pre)
  BY <1>1, <1>2, <1>3, <1>4 DEF Reads
<1>6. Got \o piece = SubSeq(pre, 1, at + more)
  <2>1. piece = SubSeq(pre, at + 1, at + more)
    BY <1>2
  <2> DEFINE m == at + more
  <2>2. 1 \in 1 .. Len(pre) + 1 /\ at \in 1 - 1 .. Len(pre) /\ m \in at .. Len(pre)
    BY <1>1, <1>2, <1>5
  <2> HIDE DEF m, pre, at
  <2>3. SubSeq(pre, 1, at) \o SubSeq(pre, at + 1, m) = SubSeq(pre, 1, m)
    BY <1>1, <2>2, ConcatAdjacentSubSeq
  <2> QED BY <1>2, <2>1, <2>3 DEF m
<1> QED BY <1>5, <1>6

\* It reads on in what was written, from where the file as it was ended.
LEMMA ReadsAfter ==
  ASSUME Turn, Edited, pc = "scan", out.state = "file",
         NEW more \in Nat, ReadsOn(more), NEW extra \in 0 .. Visit.wrote, After(extra)
  PROVE  LET piece == SubSeq(disk[current].text, reader.at + 1, reader.at + more)
         IN /\ extra + more \in 0 .. Visit.wrote
            /\ Got \o piece = Visit.pre \o OutBytes(This, extra + more)
            /\ extra + more > 0 => reader.at + more <= Visit.wrote
<1> DEFINE pre == Visit.pre
           at == reader.at
           wrote == Visit.wrote
           text == disk[current].text
           piece == SubSeq(disk[current].text, reader.at + 1, reader.at + more)
<1>1. /\ pc \in Body /\ Types /\ current \in Names /\ pre \in Seq(AnyByte) /\ at \in Nat
      /\ Len(pre) \in Nat /\ wrote \in Nat /\ This \in Nat /\ extra \in Nat
  <2>1. pc \in Body
    BY DEF Body
  <2> QED BY <2>1, TurnFacts, SeenTyped DEF SeenType, ReaderType, VisitType
<1>2. /\ text = OutBytes(This, wrote) /\ Got = pre \o OutBytes(This, extra)
      /\ at = Len(pre) + extra /\ extra > 0 => at <= wrote
  BY <1>1 DEF Edited, After
<1>3. more \in Reads /\ more \in 0 .. Unread
  BY <1>1, HeldFacts DEF ReadsOn
<1>4. Len(text) = wrote /\ \A i \in 1 .. wrote : text[i] = <<"out", This>>
  <2> DEFINE v == This
  <2>1. v \in Nat /\ text = OutBytes(v, wrote)
    BY <1>1, <1>2
  <2> HIDE DEF v, wrote, text
  <2>2. wrote \in Nat
    BY <1>1
  <2>3. Len(OutBytes(v, wrote)) = wrote /\ \A i \in 1 .. wrote : OutBytes(v, wrote)[i] = <<"out", v>>
    BY <2>1, <2>2, OutRuns
  <2> QED BY <2>1, <2>3 DEF v
<1>5. at + more <= wrote \/ more = 0
  BY <1>1, <1>3, <1>4 DEF Unread
<1>6. extra + more \in 0 .. wrote /\ (extra + more > 0 => at + more <= wrote)
  <2>1. at \in Nat /\ wrote \in Nat /\ Len(pre) \in Nat /\ extra \in Nat /\ extra <= wrote
    BY <1>1
  <2>2. at = Len(pre) + extra /\ (extra > 0 => at <= wrote)
    BY DEF After
  <2> HIDE DEF at, wrote, pre
  <2> QED BY <1>5, <2>1, <2>2
<1>7. piece = OutBytes(This, more)
  <2>1. /\ piece \in Seq(AnyByte) /\ Len(piece) = more
        /\ \A i \in 1 .. more : at + i \in 1 .. Len(text) /\ piece[i] = text[at + i]
    BY <1>1, <1>3, HeldFacts
  <2> HIDE DEF piece, text
  <2>2. \A i \in 1 .. more : piece[i] = <<"out", This>>
    BY <1>4, <2>1
  <2> QED BY <1>1, <2>1, <2>2, OutRuns
<1>8. Got \o piece = pre \o OutBytes(This, extra + more)
  <2> DEFINE a == OutBytes(This, extra)
             b == OutBytes(This, more)
             v == This
  <2>1. v \in Nat /\ extra \in Nat /\ pre \in Seq(AnyByte)
    BY <1>1
  <2>2. a = OutBytes(v, extra) /\ b = OutBytes(v, more)
    OBVIOUS
  <2> HIDE DEF a, b, v, pre, piece
  <2>3. a \in Seq(AnyByte) /\ b \in Seq(AnyByte)
    BY <2>1, <2>2, OutRuns
  <2>4. a \o b = OutBytes(v, extra + more)
    BY <2>1, <2>2, OutRuns
  <2>5. (pre \o a) \o b = pre \o (a \o b)
    BY <2>1, <2>3, Joined, Zenon
  <2> QED BY <1>2, <1>7, <2>4, <2>5 DEF a, b, v
<1> QED BY <1>6, <1>8

\* What the body of the loop does leaves the scanner alone.
LEMMA ScannerKept ==
  ASSUME Turn, Edited, Scanned, Next, case.method = "Lines", pc \in InUse, pc' \in Body
  PROVE  Scanned'
<1>1. /\ pc \in Body \ {"open", "return"} /\ pc # "scan" /\ case' = case
      /\ visits \in Seq(VisitType) /\ This >= 1 /\ This \in Nat
      /\ Visit.pre \in Seq(AnyByte) /\ Visit.wrote \in Nat
  <2>1. pc \in Body \ {"open", "return"} /\ pc # "scan"
    BY DEF InUse, Opening, Body
  <2> QED BY <2>1, CaseKept, OfTurn, TurnFacts DEF Turn, VisitType
<1>2. /\ OnlyChanges({"wrote"}) \/ OnlyChanges({"skips"}) \/ OnlyChanges({"lost"})
      /\ last' = last /\ reader' = reader /\ pc' \in InUse \cup {"scan", "return"}
      /\ pc' \in {"scan", "return"} => pc' = IF last THEN "return" ELSE "scan"
  <2>1. CASE Output
    <3>1. UNCHANGED visits \/ \E field \in {"wrote", "lost"} : \E value : visits' = Note(field, value)
      BY <2>1 DEF Output, BackupFile, CopyToBackup, Truncate, Write
    <3>2. OnlyChanges({"wrote"}) \/ OnlyChanges({"lost"})
      BY <1>1, <3>1, NoNote, NoteChange DEF OnlyChanges, Fields
    <3> QED BY <2>1, <3>2 DEF Output, BackupFile, CopyToBackup, Truncate, Write, Refuse, InUse, Opening
  <2>2. CASE Continue \/ UserWrite
    <3>1. OnlyChanges({"wrote"})
      BY <2>2, NoNote DEF OnlyChanges, Continue, UserWrite
    <3> QED BY <1>1, <2>2, <3>1 DEF Continue, UserWrite, InBody, Resumes, InUse, Opening
  <2>3. CASE NextFile
    <3>1. pc = "yield"
      BY <1>1, <2>3 DEF NextFile, InBody, Body
    <3>2. OnlyChanges({"skips"})
      BY <1>1, <2>3, <3>1, NoteChange DEF NextFile, InBody, Fields
    <3> QED BY <2>3, <3>1, <3>2 DEF NextFile, InUse
  <2>4. CASE UserScan
    BY <2>4 DEF UserScan
  <2>5. ~(Loop \/ Break)
    BY DEF Loop, RangeLoop, NextEntry, NoMoreFiles, AfterBody, OpenFails, Open, ReadAll, Scan, Break,
           InUse, Opening, Body
  <2> QED BY <2>1, <2>2, <2>3, <2>4, <2>5 DEF Next, User
<1>3. /\ Visit'.seen = Visit.seen /\ Visit'.pre = Visit.pre /\ Visit'.fault = Visit.fault
      /\ This' = This
  BY <1>2 DEF OnlyChanges, OthersSame, Fields
<1>4. CASE Visit.fault
  BY <1>3, <1>4 DEF Scanned
<1>5. CASE ~Visit.fault
  <2>1. /\ reader.open /\ ~last /\ pc' # "return" /\ Got' = Got
        /\ out.state # "file" => Before
        /\ out.state = "file" /\ Visit.lost = 0 => \E extra \in 0 .. Visit.wrote : After(extra)
    <3>1. Got' = Got
      BY <1>2, <1>3 DEF Got, Visit
    <3>2. reader.open /\ ~last /\ (out.state # "file" => Before)
      BY <1>1, <1>5 DEF Scanned
    <3>3. out.state = "file" /\ Visit.lost = 0 => \E extra \in 0 .. Visit.wrote : After(extra)
      BY <1>1, <1>5 DEF Scanned
    <3> QED BY <1>2, <3>1, <3>2, <3>3 DEF InUse, Opening
  <2>2. Before => Before'
    BY <1>2, <1>3, <2>1 DEF Before
  <2>3. out'.state # "file" => out.state # "file"
    <3>1. out.state = "file" => out'.state = "file" \/ Output
      BY <1>1, <1>2 DEF Next, Loop, Output, User, RangeLoop, NextEntry, NoMoreFiles, AfterBody, OpenFails,
                   Open, ReadAll, Scan, Continue, Break, UserScan, NextFile, UserWrite, InUse, Opening
    <3>2. Output /\ out.state = "file" => out' = out
      BY DEF Turn, Stage, Output, BackupFile, CopyToBackup, Truncate, Write
    <3> QED BY <3>1, <3>2
  <2>4. ASSUME out'.state = "file", Visit'.lost = 0
        PROVE  \E extra \in 0 .. Visit'.wrote : After(extra)'
    <3>1. CASE out.state = "file"
      <4>1. Visit.lost = 0 /\ Visit'.wrote \in Nat /\ Visit.wrote <= Visit'.wrote
        <5>1. CASE Write
          <6>1. PICK count \in 0 .. MaxWritten - Visit.wrote : visits' = Note("wrote", Visit.wrote + count)
            BY <3>1, <5>1 DEF Write, Visit
          <6>2. OnlyChanges({"wrote"}) /\ Visit'["wrote"] = Visit.wrote + count
            BY <1>1, <6>1, NoteChange DEF Fields
          <6>3. Visit'.lost = Visit.lost
            BY <6>2 DEF OnlyChanges, Fields
          <6> QED BY <1>1, <2>4, <6>1, <6>2, <6>3, BoundAssumption
        <5>2. CASE ~Write
          <6>1. ~Output
            BY <3>1, <5>2 DEF Turn, Stage, Output, BackupFile, CopyToBackup, Truncate
          <6>2. OnlyChanges({"seen", "skips", "fault"})
            BY <1>1, <6>1, QuietSteps, QuietNotes
          <6>3. Visit'.lost = Visit.lost /\ Visit'.wrote = Visit.wrote
            BY <6>2 DEF OnlyChanges, Fields
          <6> QED BY <1>1, <2>4, <6>3
        <5> QED BY <5>1, <5>2
      <4>2. PICK extra \in 0 .. Visit.wrote : After(extra)
        BY <2>1, <3>1, <4>1
      <4>3. After(extra)'
        BY <1>1, <1>2, <1>3, <2>1, <4>1, <4>2 DEF After
      <4> QED BY <1>1, <4>1, <4>2, <4>3
    <3>2. CASE out.state # "file"
      <4>1. visits' = Note("lost", Unread)
        <5>1. CASE Output
          <6>1. \A state : [out EXCEPT !.state = state].state = state
            BY <1>1, TurnFacts DEF OutType
          <6> QED BY <2>4, <3>2, <5>1, <6>1 DEF Output, BackupFile, CopyToBackup, Truncate, Write, Refuse
        <5>2. CASE ~Output
          BY <1>1, <2>4, <3>2, <5>2, QuietSteps
        <5> QED BY <5>1, <5>2
      <4>2. Unread = 0
        <5>1. Visit'["lost"] = Unread
          BY <1>1, <4>1, NoteChange DEF Fields
        <5> QED BY <2>4, <5>1
      <4>3. disk[current].text = Visit.pre
        BY <1>1, <3>2 DEF Edited
      <4>4. /\ reader.at \in Nat /\ reader.at <= Len(Visit.pre) /\ Len(Visit.pre) \in Nat
            /\ Got = SubSeq(Visit.pre, 1, reader.at)
        BY <1>1, <2>1, <3>2, SeenTyped DEF Before, SeenType, ReaderType
      <4>5. reader.at = Len(Visit.pre)
        BY <2>1, <4>2, <4>3, <4>4 DEF Unread
      <4>6. Got = Visit.pre
        BY <1>1, <4>4, <4>5, SubSeqFull
      <4>7. Got' = Visit'.pre \o OutBytes(This', 0)
        <5>1. OutBytes(This', 0) = <<>>
          BY <1>1, <1>3, OutRuns
        <5> QED BY <1>1, <1>3, <2>1, <4>6, <5>1, ConcatEmptySeq
      <4>8. Visit'.wrote \in Nat
        <5>1. OnlyChanges({"lost"})
          BY <1>1, <4>1, NoteChange DEF Fields
        <5> QED BY <1>1, <5>1 DEF OnlyChanges, Fields
      <4>9. After(0)'
        BY <1>2, <1>3, <4>4, <4>5, <4>7 DEF After
      <4> QED BY <4>8, <4>9
    <3> QED BY <3>1, <3>2
  <2> QED BY <1>2, <1>5, <2>1, <2>2, <2>3, <2>4 DEF Scanned
<1> QED BY <1>4, <1>5

\* A step of the scanner.
LEMMA ScannerStep ==
  ASSUME Turn, Edited, Scanned, case.method = "Lines", Scan
  PROVE  Scanned'
<1>1. /\ pc = "scan" /\ pc \in Body /\ case' = case /\ out' = out /\ disk' = disk
      /\ visits \in Seq(VisitType) /\ This >= 1 /\ This \in Nat /\ Types /\ current \in Names
      /\ Visit.pre \in Seq(AnyByte) /\ Visit.wrote \in Nat
      /\ \A field \in Fields : \A value : visits' = Note(field, value) =>
           OnlyChanges({field}) /\ Visit'[field] = value
  <2>1. pc = "scan" /\ pc \in Body /\ case' = case /\ out' = out /\ disk' = disk
    BY DEF Scan, Body
  <2>2. visits \in Seq(VisitType) /\ This >= 1
    BY <2>1, OfTurn DEF Turn
  <2>3. /\ This \in Nat /\ Types /\ current \in Names
        /\ Visit.pre \in Seq(AnyByte) /\ Visit.wrote \in Nat
    BY <2>1, TurnFacts DEF VisitType
  <2>4. ASSUME NEW field \in Fields, NEW value, visits' = Note(field, value)
        PROVE  OnlyChanges({field}) /\ Visit'[field] = value
    BY <2>2, <2>4, NoteChange
  <2> QED BY <2>1, <2>2, <2>3, <2>4
<1>2. CASE ScanFault
  <2>1. Visit'["fault"] = TRUE
    BY <1>1, <1>2 DEF ScanFault, Fields
  <2> QED BY <2>1 DEF Scanned
<1>3. CASE (ScanToken /\ pc' = "yield" /\ last' = FALSE) \/ (ScanEnd /\ pc' = "return")
  <2>1. PICK more \in Nat :
          ReadsOn(more) /\ (ScanEnd => reader'.buf = <<>> /\ (reader.eof \/ more = Unread))
    BY <1>1, <1>3, ScanFacts
  <2> DEFINE piece == SubSeq(disk[current].text, reader.at + 1, reader.at + more)
  <2>2. PICK t \in Seq(AnyByte) : visits' = Note("seen", t) /\ t \o reader'.buf = Got \o piece
    BY <2>1 DEF ReadsOn
  <2>3. /\ Visit'.pre = Visit.pre /\ Visit'.wrote = Visit.wrote /\ Visit'.fault = Visit.fault
        /\ Visit'.lost = Visit.lost /\ Visit'.seen = t /\ This' = This
    <3>1. OnlyChanges({"seen"}) /\ Visit'["seen"] = t
      BY <1>1, <2>2 DEF Fields
    <3> QED BY <3>1 DEF OnlyChanges, OthersSame, Fields
  <2>4. Got' = Got \o piece
    BY <2>2, <2>3 DEF Got, Visit
  <2>5. /\ reader'.open = reader.open /\ reader'.at = reader.at + more
        /\ reader'.eof => reader.eof \/ more = Unread
    BY <2>1 DEF ReadsOn
  <2>6. CASE Visit.fault
    BY <2>3, <2>6 DEF Scanned
  <2>7. CASE ~Visit.fault
    <3>1. /\ reader.open /\ (out.state # "file" => Before)
          /\ out.state = "file" /\ Visit.lost = 0 => \E extra \in 0 .. Visit.wrote : After(extra)
      BY <1>1, <2>7 DEF Scanned
    <3>2. ASSUME out.state # "file"
          PROVE  Before' /\ (pc' = "return" => After(0)')
      <4>1. /\ reader.at + more <= Len(Visit.pre)
            /\ Got \o piece = SubSeq(Visit.pre, 1, reader.at + more)
            /\ reader.eof \/ more = Unread => reader.at + more = Len(Visit.pre)
        BY <1>1, <2>1, <2>7, <3>2, ReadsBefore
      <4>2. Before'
        BY <2>3, <2>4, <2>5, <4>1 DEF Before
      <4>3. ASSUME pc' = "return" PROVE After(0)'
        <5>1. reader'.at = Len(Visit'.pre)
          BY <1>3, <2>1, <2>3, <2>5, <4>1, <4>3
        <5>2. Got' = SubSeq(Visit.pre, 1, Len(Visit.pre))
          BY <2>3, <4>2, <5>1 DEF Before
        <5>3. OutBytes(This', 0) = <<>>
          BY <1>1, <2>3, OutRuns
        <5>4. Got' = Visit'.pre \o OutBytes(This', 0)
          BY <1>1, <2>3, <5>2, <5>3, SubSeqFull, ConcatEmptySeq
        <5>5. Len(Visit'.pre) \in Nat
          BY <1>1, <2>3
        <5> QED BY <5>1, <5>4, <5>5 DEF After
      <4> QED BY <4>2, <4>3
    <3>3. ASSUME out.state = "file", Visit.lost = 0
          PROVE  \E extra \in 0 .. Visit'.wrote : After(extra)'
      <4>1. PICK extra \in 0 .. Visit.wrote : After(extra)
        BY <3>1, <3>3
      <4>2. /\ extra + more \in 0 .. Visit.wrote
            /\ Got \o piece = Visit.pre \o OutBytes(This, extra + more)
            /\ extra + more > 0 => reader.at + more <= Visit.wrote
        BY <1>1, <2>1, <3>3, <4>1, ReadsAfter
      <4>3. reader.at = Len(Visit.pre) + extra /\ reader.at \in Nat /\ Len(Visit.pre) \in Nat
            /\ extra \in Nat
        BY <1>1, <4>1, SeenTyped DEF After, SeenType, ReaderType
      <4>4. After(extra + more)'
        <5>1. reader'.at = Len(Visit'.pre) + (extra + more)
          <6> DEFINE was == Len(Visit.pre)
                     at == reader.at
          <6>1. reader'.at = at + more /\ Len(Visit'.pre) = was
            BY <2>3, <2>5
          <6>2. at = was + extra /\ was \in Nat /\ extra \in Nat
            BY <4>3
          <6> HIDE DEF was, at
          <6>3. at + more = was + (extra + more)
            BY <6>2
          <6> QED BY <6>1, <6>3
        <5>2. Got' = Visit'.pre \o OutBytes(This', extra + more)
          BY <2>3, <2>4, <4>2
        <5>3. extra + more > 0 => reader'.at <= Visit'.wrote
          BY <2>3, <2>5, <4>2
        <5> QED BY <5>1, <5>2, <5>3 DEF After
      <4> QED BY <2>3, <4>2, <4>4
    <3>4. Visit'.wrote \in Nat /\ 0 \in 0 .. Visit'.wrote
      BY <1>1, <2>3
    <3>5. (out'.state = "file" \/ pc' = "return") /\ Visit'.lost = 0 =>
            \E extra \in 0 .. Visit'.wrote : After(extra)'
      BY <1>1, <2>3, <3>2, <3>3, <3>4
    <3>6. reader'.open /\ (out'.state # "file" => Before')
      BY <1>1, <2>5, <3>1, <3>2
    <3>7. /\ pc' = "return" => reader'.buf = <<>>
          /\ pc' \in InUse => ~last'
      BY <1>3, <2>1 DEF InUse, Opening
    <3> QED BY <3>5, <3>6, <3>7 DEF Scanned
  <2> QED BY <2>6, <2>7
<1> QED BY <1>2, <1>3 DEF Scan, Yield

LEMMA ScannedStep ==
  ASSUME Turn, Edited, Methods, NothingSeen, Scanned, Next
  PROVE  Scanned'
<1> SUFFICES ASSUME case.method = "Lines", pc' \in Body \ {"open"} PROVE Scanned'
  BY CaseKept DEF Scanned
<1>1. pc \in Body /\ pc # "readall"
  <2>1. pc \notin Body => NextEntry
    BY TurnBegins
  <2>2. NextEntry => pc' = "open"
    BY DEF NextEntry
  <2> QED BY <2>1, <2>2 DEF Methods
<1>2. CASE pc \in InUse
  BY <1>2, ScannerKept
<1>3. CASE pc = "scan"
  <2>1. Scan
    BY <1>3 DEF Next, Loop, Output, User, RangeLoop, NextEntry, NoMoreFiles, AfterBody, OpenFails, Open,
                ReadAll, BackupFile, CopyToBackup, Truncate, Write, Continue, Break, UserScan,
                NextFile, UserWrite, InBody
  <2> QED BY <2>1, ScannerStep
<1>4. CASE pc = "open"
  <2>1. OpenFails \/ Open
    BY <1>4 DEF Next, Loop, Output, User, RangeLoop, NextEntry, NoMoreFiles, AfterBody, Scan,
                ReadAll, BackupFile, CopyToBackup, Truncate, Write, Continue, Break, UserScan,
                NextFile, UserWrite, InBody
  <2>2. CASE OpenFails
    <3>1. Visit'["fault"] = TRUE
      BY <1>1, <2>2, OfTurn, NoteChange DEF Turn, OpenFails, Fields
    <3> QED BY <3>1 DEF Scanned
  <2>3. CASE Open
    <3>1. /\ Visit' = Visit /\ This' = This /\ pc' = "scan" /\ out' = out
          /\ reader'.at = 0 /\ reader'.buf = <<>> /\ reader'.open /\ ~reader'.eof
      BY <2>3 DEF Open, Visit, This, Reader
    <3>2. out'.state # "file" /\ Visit'.seen = <<>>
      BY <1>4, <3>1 DEF NothingSeen, Turn, Stage
    <3>3. Visit'.pre \in Seq(AnyByte)
      BY <1>1, <3>1, SeenTyped DEF SeenType
    <3>4. Got' = <<>>
      BY <3>1, <3>2 DEF Got, Visit
    <3>5. SubSeq(Visit'.pre, 1, 0) = <<>> /\ 0 <= Len(Visit'.pre)
      BY <3>3, SubSeqEmpty
    <3>6. Before'
      BY <3>1, <3>4, <3>5 DEF Before
    <3> QED BY <3>1, <3>2, <3>6 DEF Scanned, InUse, Opening
  <2> QED BY <2>1, <2>2, <2>3
<1>5. CASE pc = "return"
  <2>1. AfterBody
    BY <1>5 DEF Next, Loop, Output, User, RangeLoop, NextEntry, NoMoreFiles, OpenFails, Open, Scan,
                ReadAll, BackupFile, CopyToBackup, Truncate, Write, Continue, Break, UserScan,
                NextFile, UserWrite, InBody
  <2> QED BY <2>1 DEF AfterBody, Body
<1> QED BY <1>1, <1>2, <1>3, <1>4, <1>5 DEF Body, InUse, Opening

LEMMA NothingSeenStep == ASSUME Turn, Methods, ReadAtOnce, Next PROVE NothingSeen'
<1>1. CASE NextEntry
  BY <1>1, FreshVisit DEF Turn, NothingSeen, NewVisit
<1>2. CASE ~NextEntry
  BY <1>2, MethodsStep DEF NothingSeen
<1> QED BY <1>1, <1>2

\* When a turn ends the file was seen.
LEMMA SeenStep ==
  ASSUME Turn, Turn', Edited, Scanned, ReadAtOnce, WholeFileSeen, Next
  PROVE  WholeFileSeen'
<1>1. /\ This \in Nat /\ This' = (IF NextEntry THEN This + 1 ELSE This) /\ case' = case
  BY EarlierVisits, CaseKept
<1> SUFFICES ASSUME NEW v \in 1 .. This', Complete(v)', visits'[v].lost = 0
             PROVE  \E extra \in 0 .. visits'[v].wrote :
                      /\ visits'[v].seen = visits'[v].pre \o OutBytes(v, extra)
                      /\ extra > 0 => /\ case'.method = "Lines"
                                      /\ extra + Len(visits'[v].pre) <= visits'[v].wrote
  BY DEF WholeFileSeen
<1>2. CASE v = This' /\ pc' \in Body
  BY <1>2 DEF Turn, InFile, Visit, Complete
<1>3. CASE v = This' /\ pc' \notin Body /\ pc \in Body
  <2>1. CASE Break
    <3>1. OnlyChanges({"failed", "ended"}) /\ Visit'.ended = "broken"
      BY <2>1, TurnEnds
    <3> QED BY <1>3, <3>1 DEF Visit, Complete
  <2>2. CASE AfterBody
    <3>1. OnlyChanges({"failed", "ended"}) /\ pc = "return"
      BY <2>2, TurnEnds DEF AfterBody
    <3>2. /\ Visit'.fault = Visit.fault /\ Visit'.seen = Visit.seen /\ Visit'.pre = Visit.pre
          /\ Visit'.wrote = Visit.wrote /\ Visit'.lost = Visit.lost /\ visits'[v] = Visit'
          /\ This = v
      BY <1>3, <3>1 DEF OnlyChanges, OthersSame, Fields, Visit
    <3>3. ~Visit.fault /\ case.method \in {"Lines", "Contents"}
      BY <1>1, <3>2 DEF Complete
    <3>4. CASE case.method = "Lines"
      <4>1. /\ Visit.seen \in Seq(AnyByte) /\ Visit.wrote \in Nat /\ Len(Visit.pre) \in Nat
        BY <1>3, TurnFacts DEF VisitType
      <4>2. /\ Visit.lost = 0 /\ reader.buf = <<>>
            /\ \E extra \in 0 .. Visit.wrote : After(extra)
        BY <1>3, <3>1, <3>2, <3>3, <3>4 DEF Scanned
      <4>3. PICK extra \in 0 .. Visit.wrote : After(extra)
        BY <4>2
      <4>4. Visit.seen = Visit.pre \o OutBytes(v, extra)
        BY <3>2, <4>1, <4>2, <4>3, ConcatEmptySeq DEF After, Got, Visit
      <4>5. extra > 0 => extra + Len(Visit.pre) <= Visit.wrote
        BY <4>1, <4>3 DEF After
      <4> QED BY <1>1, <3>2, <3>4, <4>3, <4>4, <4>5
    <3>5. CASE case.method = "Contents"
      <4>1. Visit.seen = Visit.pre
        BY <3>1, <3>2, <3>3, <3>5 DEF ReadAtOnce
      <4>2. Visit.pre \in Seq(AnyByte) /\ Visit.wrote \in Nat /\ v \in Nat
        BY <1>1, <1>3, <3>2, TurnFacts DEF VisitType
      <4>3. Visit.seen = Visit.pre \o OutBytes(v, 0)
        BY <4>1, <4>2, OutRuns, ConcatEmptySeq
      <4>4. 0 \in 0 .. visits'[v].wrote /\ ~(0 > 0)
        BY <3>2, <4>2
      <4>5. visits'[v].seen = visits'[v].pre \o OutBytes(v, 0)
        BY <3>2, <4>3
      <4> QED BY <4>4, <4>5
    <3> QED BY <3>3, <3>4, <3>5
  <2>3. AfterBody \/ Break
    BY <1>3 DEF Next, Loop, Output, User, RangeLoop, NextEntry, NoMoreFiles, OpenFails, Open, Scan,
                ReadAll, BackupFile, CopyToBackup, Truncate, Write, Continue, UserScan,
                NextFile, UserWrite, InBody, Yield, Refuse, Body
  <2> QED BY <2>1, <2>2, <2>3
<1>4. CASE v # This' \/ (pc \notin Body /\ pc' \notin Body)
  <2>1. v \in 1 .. This /\ visits'[v] = visits[v]
    <3>1. CASE NextEntry
      <4>1. pc' \in Body
        BY <3>1 DEF NextEntry, Body
      <4> QED BY <1>1, <1>4, <3>1, <4>1, FreshVisit DEF Turn
    <3>2. CASE pc \in Body /\ pc' \in Body /\ ~NextEntry
      BY <1>1, <1>4, <3>2, TurnStep DEF Turn, OnlyChanges, OthersSame
    <3>3. CASE (AfterBody \/ Break) /\ ~NextEntry
      BY <1>1, <1>4, <3>3, TurnEnds DEF OnlyChanges, OthersSame
    <3>4. CASE UNCHANGED visits /\ ~NextEntry
      BY <1>1, <3>4
    <3>5. NextEntry \/ (pc \in Body /\ pc' \in Body) \/ AfterBody \/ Break \/ UNCHANGED visits
      BY DEF Next, Loop, Output, User, RangeLoop, NoMoreFiles, OpenFails, Open, Scan,
             ReadAll, BackupFile, CopyToBackup, Truncate, Write, Continue, UserScan,
             NextFile, UserWrite, InBody, Yield, Refuse, Body
    <3> QED BY <3>1, <3>2, <3>3, <3>4, <3>5
  <2> QED BY <1>1, <2>1 DEF WholeFileSeen, Complete
<1> QED BY <1>2, <1>3, <1>4

-----------------------------------------------------------------------------
(* The theorems about what is seen and kept *)

KInv ==
  /\ case \in Case /\ InFile /\ Stage /\ Edited /\ EditsAreKept
  /\ Methods /\ ReadAtOnce /\ NothingSeen /\ Scanned /\ WholeFileSeen
  /\ ReaderClosed /\ (pc = "idle" => out = NoOutput)

LEMMA KeptInitially == ASSUME Init PROVE KInv
<1>1. /\ case \in Case /\ pc = "idle" /\ out = NoOutput /\ reader = NoReader /\ visits = <<>>
      /\ pc \notin Body
  BY DEF Init, Body
<1>2. InFile /\ Stage /\ Edited /\ Methods /\ NothingSeen /\ Scanned /\ ReaderClosed
  BY <1>1 DEF InFile, Stage, Edited, Methods, NothingSeen, Scanned, ReaderClosed, NoReader, Reader
<1>3. EditsAreKept /\ WholeFileSeen
  BY <1>1 DEF EditsAreKept, WholeFileSeen, This
<1>4. ReadAtOnce
  BY <1>1 DEF ReadAtOnce, InUse, Opening
<1> QED BY <1>1, <1>2, <1>3, <1>4 DEF KInv

\* Every loop which ends closes its output.
LEMMA IdleStep == ASSUME Next, pc = "idle" => out = NoOutput PROVE pc' = "idle" => out' = NoOutput
  BY DEF Next, Loop, Output, User, RangeLoop, NextEntry, NoMoreFiles, AfterBody, OpenFails, Open,
         ReadAll, Scan, BackupFile, CopyToBackup, Truncate, Write, Continue, Break, UserScan,
         NextFile, UserWrite, InBody, Yield, Refuse, Leave, closeOutput

LEMMA KeptStep == ASSUME IInv, IInv', KInv, [Next]_vars PROVE KInv'
<1>1. CASE Next
  <2>1. Turn /\ Turn'
    BY <1>1, InFileStep, StageStep, CaseKept DEF Turn, KInv
  <2>2. Edited' /\ EditsAreKept'
    BY <1>1, <2>1, EditedStep, EditsStep DEF KInv
  <2>3. Methods' /\ ReadAtOnce' /\ NothingSeen' /\ Scanned' /\ WholeFileSeen'
    BY <1>1, <2>1, MethodsStep, ReadAtOnceStep, NothingSeenStep, ScannedStep, SeenStep DEF KInv
  <2>4. ReaderClosed' /\ (pc' = "idle" => out' = NoOutput)
    BY <1>1, ReaderStep, IdleStep DEF KInv
  <2> QED BY <2>1, <2>2, <2>3, <2>4 DEF KInv, Turn
<1>2. CASE UNCHANGED vars
  <2>1. UNCHANGED <<case, pc, current, last, reader, out, disk, visits>> /\ This' = This /\ Visit' = Visit
    BY <1>2 DEF vars, This, Visit
  <2>2. InFile' /\ Stage' /\ Edited' /\ ReaderClosed' /\ (pc' = "idle" => out' = NoOutput)
    BY <2>1 DEF KInv, InFile, Stage, Edited, ReaderClosed, Source
  <2>3. EditsAreKept' /\ WholeFileSeen'
    BY <2>1 DEF KInv, EditsAreKept, Disturbs, WholeFileSeen, Complete
  <2>4. Methods' /\ ReadAtOnce' /\ NothingSeen'
    BY <2>1 DEF KInv, Methods, ReadAtOnce, NothingSeen
  <2>5. Scanned'
    BY <2>1 DEF KInv, Scanned, Before, After, Got
  <2> QED BY <2>1, <2>2, <2>3, <2>4, <2>5 DEF KInv
<1> QED BY <1>1, <1>2

THEOREM TurnInvariant == Spec => []KInv
<1>1. Init => KInv
  BY KeptInitially
<1>2. IInv /\ IInv' /\ KInv /\ [Next]_vars => KInv'
  BY KeptStep
<1> QED BY <1>1, <1>2, Invariant, PTL DEF Spec

\* Who gets to the end of a file has seen all of it as it was, however much the
\* scanner reads ahead and however reading, writing and NextFile are mixed, unless
\* the first write truncated what was not read; and of what was written at most
\* what exceeds the length of the file.
THEOREM SeenCorrect == Spec => []WholeFileSeen
<1>1. KInv => WholeFileSeen
  BY DEF KInv
<1> QED BY <1>1, TurnInvariant, PTL

\* What a file held is kept in its backup, whatever fails and whenever the
\* program stops, and output never goes to another file than the one visited.
THEOREM EditsCorrect == Spec => []EditsAreKept
<1>1. KInv => EditsAreKept
  BY DEF KInv
<1> QED BY <1>1, TurnInvariant, PTL

\* However a loop is left, its output and its reader are closed.
THEOREM AllClosed == Spec => []NothingLeftOpen
<1>1. KInv => NothingLeftOpen
  BY DEF KInv, ReaderClosed, NothingLeftOpen
<1> QED BY <1>1, TurnInvariant, PTL
=============================================================================

------------------------------- MODULE Ingest -------------------------------
(***************************************************************************)
(* How documents get into the index: a PDF is read page by page (fitzpdf), *)
(* its white space is normalised (rag/chunk), the documents are split and  *)
(* the parts cleaned (lcsplit), and the chunks stored (Store.Build).  The  *)
(* caller, who is not part of the repository, strings these calls together *)
(* as their comments ask for, gives up at the first error, and may try the *)
(* whole again.                                                            *)
(*                                                                         *)
(* A text is a sequence of bytes.  Letters are visible characters of one   *)
(* byte, each at one place of the corpus only, so that a letter says where *)
(* it comes from; the bullet and the no-break space take two bytes each.   *)
(***************************************************************************)
EXTENDS Integers, Sequences, SequencesExt

CONSTANTS
    Letters,    \* the visible characters of one byte
    PdfPages,   \* the PDFs there may be, each the sequence of its pages
    TextFiles,  \* the text documents there may be
    MaxCut,     \* bound: the last byte a text is cut after
    MaxOverlap, \* bound: the bytes two parts of a text share
    MaxAttempts \* bound: how often the caller tries

Bullet == << "bullet1", "bullet2" >>
NoBreakSpace == << "nbsp1", "nbsp2" >>
Space == "space"
NewLine == "newline"

AsciiSpace == {Space, NewLine}
WhiteSpace == AsciiSpace \cup Range(NoBreakSpace)
Bytes == Letters \cup WhiteSpace \cup Range(Bullet)
Visible == Bytes \ WhiteSpace

ASSUME CorpusAssumption ==
    /\ Letters \cap (WhiteSpace \cup Range(Bullet)) = {}
    /\ PdfPages \subseteq Seq(Seq(Bytes))
    /\ TextFiles \subseteq Seq(Bytes)
ASSUME BoundsAssumption == {MaxCut, MaxOverlap, MaxAttempts} \subseteq Nat

VARIABLES
    pdf,      \* the pages of the PDF
    file,     \* the text document
    splitter, \* where the chunker's splitter cuts
    pages,    \* the pages LoadPages has read
    open,     \* whether MuPDF has the PDF open
    docs,     \* the documents handed to the chunker
    chunks,   \* what ChunkDocuments returned
    rows,     \* the chunks the collection holds, once or more often
    result,   \* how the last attempt ended
    attempts, \* the attempts so far
    stage     \* where the attempt is

source == << pdf, file, splitter >>
vars == << source, pages, open, docs, chunks, rows, result, attempts, stage >>

Sources == {"pdf", "file"}

-----------------------------------------------------------------------------
(* fitzpdf.Load and chunk.NormalizeWhitespace *)

\* Slip: the pages follow each other without a newline.
JoinDirectly(pp) == FlattenSeq(pp)

\* strings.Join(pages, "\n")
JoinPages(pp) ==
    FlattenSeq([i \in DOMAIN pp |-> IF i = 1 THEN pp[i] ELSE << NewLine >> \o pp[i]])

\* whitespaceRun knows the ASCII white space only.
CollapseRuns(t) ==
    FlattenSeq([i \in DOMAIN t |->
        IF t[i] \notin AsciiSpace THEN << t[i] >>
        ELSE IF i > 1 /\ t[i - 1] \in AsciiSpace THEN << >>
        ELSE << Space >>])

\* strings.TrimSpace knows the no-break space as well.
TrimSpace(t) ==
    LET seen == {i \in DOMAIN t : t[i] \notin WhiteSpace}
    IN  IF seen = {} THEN << >> ELSE SubSeq(t, Min(seen), Max(seen))

NormalizeWhitespace(t) == TrimSpace(CollapseRuns(t))

-----------------------------------------------------------------------------
(* lcsplit.ChunkDocuments *)

(***************************************************************************)
(* A splitter of langchaingo: it covers the text in its order, cuts after  *)
(* any byte, as the token splitter does, reaches back for an overlap, and  *)
(* may trim its parts, as the recursive one does.                          *)
(***************************************************************************)
Splitters == [ends : SUBSET (1 .. MaxCut), overlap : 0 .. MaxOverlap, trims : BOOLEAN]

SplitText(s, t) ==
    LET ends == {e \in s.ends : e < Len(t)} \cup {Len(t)}
        from(e) == Max({1} \cup {d + 1 - s.overlap : d \in {d \in ends : d < e}})
        part(e) == SubSeq(t, from(e), e)
    IN  FlattenSeq([e \in DOMAIN t |->
            IF e \notin ends THEN << >>
            ELSE << IF s.trims THEN TrimSpace(part(e)) ELSE part(e) >>])

\* A byte that is a character, or one of the two of a whole character.
InCharacter(p, i) ==
    \/ p[i] \in Letters \cup AsciiSpace
    \/ \E c \in {Bullet, NoBreakSpace} :
          \/ p[i] = c[1] /\ i < Len(p) /\ p[i + 1] = c[2]
          \/ p[i] = c[2] /\ i > 1 /\ p[i - 1] = c[1]

\* strings.ToValidUTF8(p, "")
ToValidUTF8(p) ==
    FlattenSeq([i \in DOMAIN p |-> IF InCharacter(p, i) THEN << p[i] >> ELSE << >>])

ValidUTF8(p) == \A i \in DOMAIN p : InCharacter(p, i)
Blank(p) == TrimSpace(p) = << >>

\* Slip: the source is not carried over.
ChunksWithoutSource(src, parts) ==
    FlattenSeq([i \in DOMAIN parts |->
        LET clean == ToValidUTF8(parts[i])
        IN  IF Blank(clean) THEN << >> ELSE << [text |-> clean, source |-> ""] >>])

\* Slip: a part is looked at before its broken characters are dropped.
ChunksCleanedLast(src, parts) ==
    FlattenSeq([i \in DOMAIN parts |->
        LET clean == ToValidUTF8(parts[i])
        IN  IF Blank(parts[i]) THEN << >> ELSE << [text |-> clean, source |-> src] >>])

\* Slip: a part with a broken character is dropped as a whole.
ChunksUnbroken(src, parts) ==
    FlattenSeq([i \in DOMAIN parts |->
        IF ~ValidUTF8(parts[i]) \/ Blank(parts[i]) THEN << >>
        ELSE << [text |-> parts[i], source |-> src] >>])

Chunks(src, parts) ==
    FlattenSeq([i \in DOMAIN parts |->
        LET clean == ToValidUTF8(parts[i])
        IN  IF Blank(clean) THEN << >> ELSE << [text |-> clean, source |-> src] >>])

-----------------------------------------------------------------------------
Init ==
    /\ pdf \in PdfPages
    /\ file \in TextFiles
    /\ splitter \in Splitters
    /\ pages = << >>
    /\ open = FALSE
    /\ docs = << >>
    /\ chunks = << >>
    /\ rows = {}
    /\ result = "none"
    /\ attempts = 0
    /\ stage = "idle"

\* The attempt ends.
End(r) ==
    /\ result' = r
    /\ pages' = << >>
    /\ docs' = << >>
    /\ stage' = "idle"

Begin ==
    /\ stage = "idle"
    /\ result # "ok"
    /\ attempts < MaxAttempts
    /\ attempts' = attempts + 1
    /\ chunks' = << >>
    /\ result' = "none"
    /\ stage' = "opening"
    /\ UNCHANGED << source, pages, open, docs, rows >>

\* New finds the file and LoadPages opens it.
OpenPdf ==
    /\ stage = "opening"
    /\ open' = TRUE
    /\ stage' = "reading"
    /\ UNCHANGED << source, pages, docs, chunks, rows, result, attempts >>

\* There is no such file, or it is no PDF.
OpenFails ==
    /\ stage = "opening"
    /\ End("failed")
    /\ UNCHANGED << source, open, chunks, rows, attempts >>

ReadPage ==
    /\ stage = "reading"
    /\ Len(pages) < Len(pdf)
    /\ pages' = Append(pages, pdf[Len(pages) + 1])
    /\ UNCHANGED << source, open, docs, chunks, rows, result, attempts, stage >>

\* A page cannot be extracted: nothing is returned, and the PDF is closed.
ReadPageFails ==
    /\ stage = "reading"
    /\ Len(pages) < Len(pdf)
    /\ open' = FALSE
    /\ End("failed")
    /\ UNCHANGED << source, chunks, rows, attempts >>

\* The whole PDF as one text, normalised; the text document as it is.
Corpus(pp, f) ==
    << [source |-> "pdf", text |-> NormalizeWhitespace(JoinPages(pp))],
       [source |-> "file", text |-> f] >>

\* Slip: a page that cannot be extracted ends the loop, and what was read counts.
LoadedShort ==
    /\ stage = "reading"
    /\ open' = FALSE
    /\ docs' = Corpus(pages, file)
    /\ stage' = "chunking"
    /\ UNCHANGED << source, pages, chunks, rows, result, attempts >>

\* LoadPages has them all and closes the PDF.
Loaded ==
    /\ stage = "reading"
    /\ Len(pages) = Len(pdf)
    /\ open' = FALSE
    /\ docs' = Corpus(pages, file)
    /\ stage' = "chunking"
    /\ UNCHANGED << source, pages, chunks, rows, result, attempts >>

\* The documents are split in their order; some part is left of them.
ChunkDocuments ==
    /\ stage = "chunking"
    /\ chunks' = FlattenSeq([i \in DOMAIN docs |->
                                Chunks(docs[i].source, SplitText(splitter, docs[i].text))])
    /\ chunks' # << >>
    /\ stage' = "building"
    /\ UNCHANGED << source, pages, open, docs, rows, result, attempts >>

\* A split fails, or no part of any document is left.
ChunkDocumentsFails ==
    /\ stage = "chunking"
    /\ End("failed")
    /\ UNCHANGED << source, open, chunks, rows, attempts >>

Build ==
    /\ stage = "building"
    /\ rows' = rows \cup Range(chunks)
    /\ End("ok")
    /\ UNCHANGED << source, open, chunks, attempts >>

\* AddDocuments fails.  Build only passes its error on, so that any of the
\* chunks may have been stored: none, some of them, or all.
BuildFails ==
    /\ stage = "building"
    /\ \E part \in SUBSET Range(chunks) : rows' = rows \cup part
    /\ End("failed")
    /\ UNCHANGED << source, open, chunks, attempts >>

Next ==
    \/ Begin
    \/ OpenPdf
    \/ OpenFails
    \/ ReadPage
    \/ ReadPageFails
    \/ Loaded
    \/ ChunkDocuments
    \/ ChunkDocumentsFails
    \/ Build
    \/ BuildFails

Spec == Init /\ [][Next]_vars

-----------------------------------------------------------------------------
IsChunk(c) == Range(c.text) \subseteq Bytes /\ c.source \in Sources

TypeOK ==
    /\ pdf \in PdfPages
    /\ file \in TextFiles
    /\ splitter \in Splitters
    /\ Len(pages) <= Len(pdf)
    /\ open = (stage = "reading")
    /\ \A d \in Range(docs) : IsChunk(d)
    /\ \A c \in Range(chunks) \cup rows : IsChunk(c)
    /\ result \in {"none", "ok", "failed"}
    /\ attempts \in 0 .. MaxAttempts
    /\ stage \in {"idle", "opening", "reading", "chunking", "building"}

\* What the reader of a document sees on its pages.
PagesOf(src) == IF src = "pdf" THEN Range(pdf) ELSE {file}

(***************************************************************************)
(* An ingest that succeeds has indexed every letter of every document,     *)
(* under the document it is from: neither normalising, nor cutting in the  *)
(* middle of a character and dropping its fragments, nor skipping blank    *)
(* parts takes a character of one byte along.  (One of several bytes that  *)
(* a part ends in is dropped, unless the overlap holds the whole of it.)   *)
(***************************************************************************)
EveryLetterIsIndexed ==
    result = "ok" =>
        \A src \in Sources : \A p \in PagesOf(src) : \A x \in Range(p) \cap Letters :
            \E c \in rows : c.source = src /\ x \in Range(c.text)

(***************************************************************************)
(* Words keep their edges: what stands side by side in a stored chunk      *)
(* stands side by side on a page.  The end of a page, a run of white space *)
(* and a dropped fragment never join two words into one, which no query    *)
(* would find.                                                             *)
(***************************************************************************)
SideBySide(p, x, y) == \E i \in 1 .. Len(p) - 1 : p[i] = x /\ p[i + 1] = y

WordsKeepTheirEdges ==
    \A c \in rows : \A i \in 1 .. Len(c.text) - 1 :
        {c.text[i], c.text[i + 1]} \subseteq Visible =>
            \E p \in PagesOf(c.source) : SideBySide(p, c.text[i], c.text[i + 1])

(***************************************************************************)
(* Postgres takes every chunk, wherever the splitter cut, and none of them *)
(* is blank: whole characters only, and at least one that can be seen.     *)
(***************************************************************************)
ChunksAreStorable ==
    \A c \in Range(chunks) : ValidUTF8(c.text) /\ ~Blank(c.text)

(***************************************************************************)
(* The collection holds chunks of whole documents only, whichever pages,   *)
(* splits and inserts of earlier attempts have failed: a PDF that was read *)
(* in part leaves nothing behind that no later attempt would store, and a  *)
(* retry adds what is missing.                                             *)
(***************************************************************************)
AllChunks(p, f, s) ==
    FlattenSeq([i \in DOMAIN Corpus(p, f) |->
        Chunks(Corpus(p, f)[i].source, SplitText(s, Corpus(p, f)[i].text))])

OnlyWholeDocuments == rows \subseteq Range(AllChunks(pdf, file, splitter))
=============================================================================

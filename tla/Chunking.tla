------------------------------- MODULE Chunking -------------------------------
(***************************************************************************)
(* From the text of a document to its chunks: the parsers of               *)
(* import_pipeline/executors.py read it line by line (a Word file element  *)
(* by element) into blocks, the cleaner keeps them, and the chunker packs  *)
(* the blocks of a section together and cuts what is too long.             *)
(*                                                                         *)
(* A line is its kind, its length and whether it ends a sentence; it holds *)
(* no other sentence end and no white space.  Everywhere after, a line is  *)
(* its number.  Character offsets into the source, token counts and white  *)
(* space that the cleaner removes are not modelled.                        *)
(***************************************************************************)
EXTENDS Integers, Sequences, FiniteSets, SequencesExt, Lists

CONSTANTS
  Lines,     \* what a line may be: [kind, level, size, ends]
  Formats,   \* of "text" (also a PDF, page by page), "md" and "docx"
  MaxLines,  \* lines of a document
  MaxChars   \* of a chunk

ASSUME ChunkingAssumption ==
  /\ MaxLines \in Nat /\ MaxChars \in Nat \ {0}
  /\ Formats \subseteq {"text", "md", "docx"}
  /\ \A l \in Lines : /\ l.kind \in {"text", "heading", "list", "table", "blank", "page", "fence"}
                      /\ l.level \in 0..6 /\ (l.level > 0 <=> l.kind = "heading")
                      /\ l.size \in Nat /\ (l.size = 0 <=> l.kind = "blank")
                      /\ l.ends \in BOOLEAN

VARIABLES
  format, doc,      \* the file type, and the lines read so far
  parsed,           \* its blocks, in order
  para, code,       \* lines of the open paragraph and of the open code block
  page,             \* current_page, 0 for none
  pc,               \* "read", "chunk", "done" or "failed"
  at,               \* the block that the chunker takes next
  path,             \* section_path: the headings it is under
  pending, headings, \* blocks that wait for a chunk, and headings met
  chunks

reading  == <<format, doc, parsed, para, code, page>>
chunking == <<at, path, pending, headings, chunks>>
chunkingVars == <<reading, pc, chunking>>

ChunkingInit ==
  /\ format \in Formats /\ doc = <<>> /\ parsed = <<>>
  /\ para = <<>> /\ code = <<>> /\ page = 0 /\ pc = "read"
  /\ at = 1 /\ path = <<>> /\ pending = <<>> /\ headings = <<>> /\ chunks = <<>>

-----------------------------------------------------------------------------
(* The parser.                                                             *)

Block(type, lines, p) == [type |-> type, lines |-> lines, page |-> p]

\* The open paragraph becomes a block of the page it began on.
Flushed == IF para = <<>> THEN parsed ELSE Append(parsed, Block("paragraph", para, page))

Read(l) == /\ pc = "read" /\ Len(doc) < MaxLines /\ doc' = Append(doc, l)
           /\ UNCHANGED <<format, pc, chunking>>
Number  == Len(doc) + 1

\* [page n]: looked for before anything else, within a code block too.
PageMark(l) ==
  /\ format # "docx" /\ l.kind = "page" /\ Read(l)
  /\ parsed' = Append(Flushed, Block("page_break", <<Number>>, page + 1))
  /\ para' = <<>> /\ page' = page + 1
  /\ UNCHANGED code

\* ``` opens a code block of a Markdown text, or closes it.
Fence(l) ==
  /\ format = "md" /\ l.kind = "fence" /\ Read(l)
  /\ IF code = <<>>
     THEN /\ parsed' = Flushed /\ para' = <<>> /\ code' = <<Number>>
     ELSE /\ parsed' = Append(parsed, Block("code", Append(code, Number), page))
          /\ code' = <<>> /\ UNCHANGED para
  /\ UNCHANGED page

CodeLine(l) ==
  /\ code # <<>> /\ l.kind \notin {"page", "fence", "table"} /\ Read(l)
  /\ code' = Append(code, Number)
  /\ UNCHANGED <<parsed, para, page>>

\* A heading or a list item is a block of its own.
Single(l) ==
  /\ format # "docx" /\ code = <<>> /\ l.kind \in {"heading", "list"} /\ Read(l)
  /\ parsed' = Append(Flushed, Block(l.kind, <<Number>>, page))
  /\ para' = <<>>
  /\ UNCHANGED <<code, page>>

Blank(l) ==
  /\ format # "docx" /\ code = <<>> /\ l.kind = "blank" /\ Read(l)
  /\ parsed' = Flushed /\ para' = <<>>
  /\ UNCHANGED <<code, page>>

\* Lines of text that follow one another are one paragraph.
TextLine(l) ==
  /\ format # "docx" /\ code = <<>> /\ Read(l)
  /\ l.kind = "text" \/ (l.kind = "fence" /\ format = "text")
  /\ para' = Append(para, Number)
  /\ UNCHANGED <<parsed, code, page>>

\* A paragraph, heading or table of a Word file; an empty one is left out.
Element(l) ==
  /\ format = "docx" /\ l.kind \in {"text", "heading", "table", "blank"} /\ Read(l)
  /\ parsed' = IF l.kind = "blank" THEN parsed
               ELSE Append(parsed, Block(IF l.kind = "text" THEN "paragraph" ELSE l.kind,
                                         <<Number>>, 0))
  /\ UNCHANGED <<para, code, page>>

\* At the end of the text what is still open is a block.
Closed == IF code = <<>> THEN Flushed ELSE Append(parsed, Block("code", code, page))

\* Parsing fails when nothing is there to read.
EndOfText ==
  /\ pc = "read"
  /\ parsed' = Closed /\ para' = <<>> /\ code' = <<>>
  /\ pc' = IF Closed = <<>> THEN "failed" ELSE "chunk"
  /\ UNCHANGED <<format, doc, page, chunking>>

-----------------------------------------------------------------------------
(* The text of blocks: lines one character apart, blocks two.  A piece is  *)
(* the place of a line in it.                                              *)

\* The lengths of lines, with what joins each of them to the next.
Sizes(lines) == [i \in DOMAIN lines |-> doc[lines[i]].size + 1]

Placed(lines, from) ==
  [i \in DOMAIN lines |->
     LET start == from + Total(SubSeq(Sizes(lines), 1, i - 1))
     IN [line |-> lines[i], from |-> start, to |-> start + doc[lines[i]].size - 1]]

\* The same of blocks.
Lengths(bs) == [n \in DOMAIN bs |-> Total(Sizes(parsed[bs[n]].lines)) + 1]

Pieces(bs) ==
  Joined([n \in DOMAIN bs |->
            Placed(parsed[bs[n]].lines, 1 + Total(SubSeq(Lengths(bs), 1, n - 1)))])

\* _join_block_text
TextLength(bs) == IF bs = <<>> THEN 0 ELSE Total(Lengths(bs)) - 2

Part(from, to) == [from |-> from, to |-> to, size |-> to - from + 1]

\* The sentences of a text: each from the piece after the last end to its own.
Sentences(pieces) ==
  LET ends == {i \in DOMAIN pieces : i = Len(pieces) \/ doc[pieces[i].line].ends}
      First(n) == IF n = 1 THEN 1 ELSE Nth(ends, n - 1) + 1
  IN [n \in 1..Cardinality(ends) |-> Part(pieces[First(n)].from, pieces[Nth(ends, n)].to)]

\* The characters of a window that are not between the pieces.
Printed(w, pieces) ==
  {x \in w.from..w.to : \E i \in DOMAIN pieces : pieces[i].from <= x /\ x <= pieces[i].to}

Stripped(w, pieces) ==
  LET kept == Printed(w, pieces)
  IN Part(CHOOSE x \in kept : \A y \in kept : x <= y, Largest(kept))

\* _split_text_by_chars: what is left of each window, if something is.
Windows(s, pieces) ==
  LET cut  == [k \in 1..((s.size + MaxChars - 1) \div MaxChars) |->
                 Part(s.from + (k - 1) * MaxChars,
                      IF s.from + k * MaxChars - 1 < s.to THEN s.from + k * MaxChars - 1 ELSE s.to)]
      kept == Sublist(cut, {k \in DOMAIN cut : Printed(cut[k], pieces) # {}})
  IN [n \in DOMAIN kept |-> Stripped(kept[n], pieces)]

\* _split_text_by_sentence: sentences joined, without what was between them, while they fit.
\* Faulty variant: the sentences gathered so far are forgotten before a long one.
AddSentence_Forgets(acc, s, pieces) ==
  IF s.size > MaxChars THEN [parts |-> acc.parts \o Windows(s, pieces), open |-> <<>>]
  ELSE IF acc.open # <<>> /\ acc.open[1].size + s.size + 1 <= MaxChars
  THEN [acc EXCEPT !.open = <<[from |-> @[1].from, to |-> s.to, size |-> @[1].size + s.size]>>]
  ELSE [parts |-> acc.parts \o acc.open, open |-> <<s>>]

AddSentence(acc, s, pieces) ==
  IF s.size > MaxChars
  THEN [parts |-> acc.parts \o acc.open \o Windows(s, pieces), open |-> <<>>]
  ELSE IF acc.open # <<>> /\ acc.open[1].size + s.size + 1 <= MaxChars
  THEN [acc EXCEPT !.open = <<[from |-> @[1].from, to |-> s.to, size |-> @[1].size + s.size]>>]
  ELSE [parts |-> acc.parts \o acc.open, open |-> <<s>>]

Split(pieces) ==
  LET said == Sentences(pieces)
      run[n \in 0..Len(said)] ==
        IF n = 0 THEN [parts |-> <<>>, open |-> <<>>] ELSE AddSentence(run[n - 1], said[n], pieces)
  IN run[Len(said)].parts \o run[Len(said)].open

-----------------------------------------------------------------------------
(* The chunker.                                                            *)

Type(b)   == parsed[b].type
Level(b)  == doc[parsed[b].lines[1]].level
Atomic(b) == Type(b) \in {"table", "code"}

Pages(bs) == {parsed[bs[i]].page : i \in DOMAIN bs} \ {0}

\* A chunk of blocks, under headings p: part of their text.
ChunkOf(bs, p, part) ==
  [blocks |-> bs, path |-> p, part |-> part, pages |-> Pages(bs)]

\* _emit_blocks: one chunk when the text fits or is one table or code block.
Emit(bs, p) ==
  LET pieces == Pieces(bs)
      whole  == Part(1, TextLength(bs))
      parts  == Split(pieces)
  IN IF whole.size <= MaxChars \/ (Len(bs) = 1 /\ Atomic(bs[1]))
     THEN <<ChunkOf(bs, p, whole)>>
     ELSE [k \in DOMAIN parts |-> ChunkOf(bs, p, parts[k])]

\* What waits is all under path: a heading leaves nothing waiting.
EmitPending == IF pending = <<>> THEN chunks ELSE chunks \o Emit(pending, path)

\* _updated_heading_path: below the first level - 1 headings of the path.
\* Faulty variant: off by one, a heading stays below one of its own level.
Under_Sibling(p, b) == Append(SubSeq(p, 1, IF Level(b) < Len(p) THEN Level(b) ELSE Len(p)), b)
Under(p, b) == Append(SubSeq(p, 1, IF Level(b) - 1 < Len(p) THEN Level(b) - 1 ELSE Len(p)), b)

Take == /\ pc = "chunk" /\ at <= Len(parsed) /\ at' = at + 1
        /\ UNCHANGED <<reading, pc>>

SkipBreak == /\ Take /\ Type(at) = "page_break"
             /\ UNCHANGED <<path, pending, headings, chunks>>

TakeHeading ==
  /\ Take /\ Type(at) = "heading"
  /\ chunks' = EmitPending /\ pending' = <<>>
  /\ headings' = Append(headings, at)
  /\ path' = Under(path, at)

TakeAtomic ==
  /\ Take /\ Atomic(at)
  /\ chunks' = EmitPending \o Emit(<<at>>, path) /\ pending' = <<>>
  /\ UNCHANGED <<path, headings>>

\* Whether a paragraph or list item still fits beside those that wait.
\* Faulty variant: what joins the blocks is not counted.
Fits_NoGap(b) == TextLength(pending) + TextLength(<<b>>) <= MaxChars
Fits(b) == TextLength(pending) + TextLength(<<b>>) + 2 <= MaxChars

TakeBody ==
  /\ Take /\ Type(at) \in {"paragraph", "list"}
  /\ IF pending # <<>> /\ Fits(at)
     THEN pending' = Append(pending, at) /\ UNCHANGED chunks
     ELSE pending' = <<at>> /\ chunks' = EmitPending
  /\ UNCHANGED <<path, headings>>

\* A document of headings alone is a chunk of these; one of page marks alone a chunk of all.
Remaining ==
  IF EmitPending # <<>> THEN EmitPending
  ELSE IF headings # <<>> THEN Emit(headings, <<>>)
  ELSE LET all == Emit([b \in DOMAIN parsed |-> b], <<>>)
       IN [k \in DOMAIN all |-> [all[k] EXCEPT !.pages = {}]]

ChunkEnd ==
  /\ pc = "chunk" /\ at > Len(parsed)
  /\ chunks' = Remaining /\ pending' = <<>> /\ pc' = "done"
  /\ UNCHANGED <<reading, at, path, headings>>

ChunkingNext ==
  \/ \E l \in Lines : \/ PageMark(l) \/ Fence(l) \/ CodeLine(l) \/ Single(l)
                      \/ Blank(l) \/ TextLine(l) \/ Element(l)
  \/ EndOfText \/ SkipBreak \/ TakeHeading \/ TakeAtomic \/ TakeBody \/ ChunkEnd

ChunkingSpec == ChunkingInit /\ [][ChunkingNext]_chunkingVars

-----------------------------------------------------------------------------
Holds(k, n, x) == \E i \in DOMAIN Pieces(chunks[k].blocks) :
  LET p == Pieces(chunks[k].blocks)[i]
  IN /\ p.line = n
     /\ p.from + x - 1 >= chunks[k].part.from /\ p.from + x - 1 <= chunks[k].part.to

Once(n) == \A x \in 1..doc[n].size : Cardinality({k \in DOMAIN chunks : Holds(k, n, x)}) = 1

Body == {n \in DOMAIN doc : doc[n].kind \notin {"blank", "page", "heading"}}

\* Every character of the text that is no heading is in exactly one chunk, and the chunks are
\* in its order, however the blocks were packed, split or left open; a document of headings
\* alone keeps these.
NothingLost ==
  pc = "done" =>
    /\ \A n \in IF Body # {} THEN Body ELSE {b \in DOMAIN doc : doc[b].kind = "heading"} : Once(n)
    /\ \A k \in 1..(Len(chunks) - 1) :
         \/ Last(chunks[k].blocks) < chunks[k + 1].blocks[1]
         \/ /\ chunks[k].blocks = chunks[k + 1].blocks
            /\ chunks[k].part.to < chunks[k + 1].part.from

\* No chunk is longer than max_chars, unless it is one table or code block; and a block that
\* fits is never cut: packing it with others did not make it too long.
CutOnlyWhenLong ==
  \A k \in DOMAIN chunks :
    LET bs == chunks[k].blocks
    IN /\ chunks[k].part.size <= MaxChars \/ (Len(bs) = 1 /\ Atomic(bs[1]))
       /\ (chunks[k].part.size < TextLength(bs) /\ Body # {})
            => Len(bs) = 1 /\ TextLength(bs) > MaxChars

\* The headings above block b: with no heading of their level or a higher one in between.
IsHeading(h) == h \in DOMAIN parsed /\ Type(h) = "heading"
Above(b) == {h \in 1..(b - 1) : /\ IsHeading(h)
                               /\ \A k \in (h + 1)..(b - 1) : IsHeading(k) => Level(k) > Level(h)}
Parents(h) == {k \in Above(h) : Level(k) < Level(h)}
NoneSkipped(b) == \A h \in 1..(b - 1) : IsHeading(h) => Level(h) <= Cardinality(Parents(h)) + 1

\* The page of a line: that of the last page mark before it.
PageOf(n) == Cardinality({m \in 1..n : doc[m].kind = "page"})

\* Where a chunk says it stands is where its text stands: under the headings above each of
\* its blocks, if no level was skipped before, and on the pages of its lines, if no page
\* mark is within a code block.
PlaceCited ==
  \A k \in DOMAIN chunks : \A i \in DOMAIN chunks[k].blocks :
    LET b == chunks[k].blocks[i]
    IN /\ (NoneSkipped(b) /\ Type(b) \notin {"heading", "page_break"})
            => /\ ToSet(chunks[k].path) = Above(b)
               /\ \A h, j \in DOMAIN chunks[k].path : h < j => chunks[k].path[h] < chunks[k].path[j]
       /\ (Type(b) \notin {"code", "page_break"} /\ format # "docx")
            => \A n \in ToSet(parsed[b].lines) : PageOf(n) \in chunks[k].pages \cup {0}
       /\ (Body # {} /\ format # "docx" /\ \A j \in DOMAIN chunks[k].blocks : Type(chunks[k].blocks[j]) # "code")
            => \A p \in chunks[k].pages : \E j \in DOMAIN chunks[k].blocks :
                 \E n \in ToSet(parsed[chunks[k].blocks[j]].lines) : PageOf(n) = p
===============================================================================

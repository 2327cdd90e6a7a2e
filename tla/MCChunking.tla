------------------------------ MODULE MCChunking ------------------------------
(* Lines that fit beside one another, and lines that must be cut. *)
EXTENDS Chunking

Line(kind, size, ends) == [kind |-> kind, level |-> 0, size |-> size, ends |-> ends]
Heading(level) == [kind |-> "heading", level |-> level, size |-> 2, ends |-> FALSE]
MCLines == {Line("text", 2, TRUE), Line("text", 5, FALSE), Line("text", 7, TRUE),
            Line("list", 3, FALSE), Line("table", 7, FALSE), Line("blank", 0, FALSE),
            Line("page", 3, FALSE), Line("fence", 2, FALSE),
            Heading(1), Heading(2)}
MCFormats == {"text", "md", "docx"}
===============================================================================

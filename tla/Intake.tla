-------------------------------- MODULE Intake --------------------------------
(***************************************************************************)
(* From the bytes of a file to its text (backend/data/file_extractor.py    *)
(* and pdf_extractor.py).  A file is a sequence of parts: the pages of a   *)
(* PDF, the paragraphs and cells of an office file, the frames of an       *)
(* image, the tags and the data of an HTML page.  Its text is the set of   *)
(* the parts that were read.  Wording and separators are left out.         *)
(***************************************************************************)
EXTENDS Integers, Sequences, FiniteSets

CONSTANT MaxParts    \* _MAX_EXTRACTED_CHARS, counted in parts

ASSUME MaxPartsAssumption == MaxParts \in Nat \ {0}

Formats  == {"pdf", "office", "html", "image", "text"}
\* A part that is no tag: "text" is digital text, "sparse" a page with less
\* of it than _OCR_THRESHOLD or an image, and "blank" has nothing to read.
Contents == {"text", "sparse", "blank"}
Tags     == {"open", "close"}      \* of an element of _skip_tags

\* What the extractors look at, beside the extension and the parts.
Files == [format : Formats \cup {"other"}, magic : BOOLEAN, bomb : BOOLEAN,
          opens : BOOLEAN, utf8 : BOOLEAN, large : BOOLEAN,
          parts : Seq(Contents \cup Tags)]

With(file, kinds) == {p \in DOMAIN file.parts : file.parts[p] \in kinds}

-----------------------------------------------------------------------------
(* PDF: a page with too little digital text is rendered and read by OCR.    *)
(* OCR is an installed program: ready, or missing or broken.                *)

PdfReadable(file, ocr) ==
    /\ file.magic
    /\ file.opens
    /\ With(file, {"sparse", "blank"}) = {} \/ ocr

PdfText(file) == With(file, {"text", "sparse"})

(* DOCX, XLSX and PPTX: ZIP archives with something to say.                 *)

OfficeReadable(file) ==
    /\ file.magic
    /\ ~ file.bomb
    /\ file.opens
    /\ With(file, {"text"}) # {}

OfficeText(file) == With(file, {"text"})

(* HTML: the parser counts the skipped elements it is inside of; an end tag *)
(* that closes nothing does not count.  Never an error.                     *)

\* Faulty: an end tag that closes nothing counts.
AfterUnclipped(part, depth) ==
    CASE part = "open"  -> depth + 1
      [] part = "close" -> depth - 1
      [] OTHER          -> depth

\* How deep the parser is after one more part.
After(part, depth) ==
    CASE part = "open"  -> depth + 1
      [] part = "close" -> IF depth > 0 THEN depth - 1 ELSE 0
      [] OTHER          -> depth

\* How deep it is after the first p parts.
SkipDepth(file) ==
    LET depth[p \in 0..Len(file.parts)] ==
            IF p = 0 THEN 0 ELSE After(file.parts[p], depth[p - 1])
    IN  depth

HtmlText(file) == {p \in With(file, {"text"}) : SkipDepth(file)[p] = 0}

(* Images: one look at the picture that Image.open returns, the first.      *)

ImageReadable(file, ocr) == file.magic /\ ~ file.bomb /\ file.opens /\ ocr

ImageText(file) == {p \in With(file, {"text", "sparse"}) : p = 1}

-----------------------------------------------------------------------------
\* Whether extract_text returns rather than raises ValueError.
Readable(file, ocr) ==
    CASE file.format = "pdf"    -> PdfReadable(file, ocr)
      [] file.format = "office" -> OfficeReadable(file)
      [] file.format = "html"   -> TRUE
      [] file.format = "image"  -> ImageReadable(file, ocr)
      [] OTHER                  -> file.utf8

Truncated(text) ==
    {p \in text : Cardinality({q \in text : q =< p}) =< MaxParts}

\* What extract_text returns for a readable file.
ExtractText(file) ==
    Truncated(CASE file.format = "pdf"    -> PdfText(file)
                [] file.format = "office" -> OfficeText(file)
                [] file.format = "html"   -> HtmlText(file)
                [] file.format = "image"  -> ImageText(file)
                [] OTHER                  -> With(file, {"text"}))

\* Unreadable bytes decoded with replacement characters: not a part of the
\* file, but text.
Raw == 0

=============================================================================

------------------------------ MODULE MCEvidence ------------------------------
(***************************************************************************)
(* A small instance of Evidence: files of up to four parts in every        *)
(* format, HTML pages of up to five parts, and an index of up to three     *)
(* chunks.  A budget of 9 has room for three least pieces of 2 with their  *)
(* separators of 1, but only for two excerpts of 3.                        *)
(***************************************************************************)
EXTENDS Evidence

CONSTANT MaxFileParts, MaxPageParts

PartsUpTo(n, kinds) == UNION {[1..m -> kinds] : m \in 0..n}

\* Where the flags matter, all of them; elsewhere one value.
Sound == [magic |-> TRUE, bomb |-> FALSE, opens |-> TRUE, utf8 |-> TRUE,
          large |-> FALSE]

File(format, flags, parts) ==
    [format |-> format, magic |-> flags.magic, bomb |-> flags.bomb,
     opens |-> flags.opens, utf8 |-> flags.utf8, large |-> flags.large,
     parts |-> parts]

AnyFlags == [magic : BOOLEAN, bomb : BOOLEAN, opens : BOOLEAN, utf8 : BOOLEAN,
             large : BOOLEAN]

MCUploads ==
    {File(format, Sound, parts) :
        format \in {"pdf", "office"},
        parts \in PartsUpTo(MaxFileParts, Contents)}
    \cup {File(format, Sound, parts) :
        format \in {"image", "text"}, parts \in PartsUpTo(2, Contents)}
    \cup {File("html", Sound, parts) :
        parts \in PartsUpTo(MaxPageParts, {"text"} \cup Tags)}
    \cup {File(format, flags, parts) :
        format \in Formats \cup {"other"}, flags \in AnyFlags,
        parts \in PartsUpTo(1, {"text"})}

=============================================================================

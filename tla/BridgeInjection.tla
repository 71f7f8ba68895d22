-------------------------- MODULE BridgeInjection --------------------------
(***************************************************************************)
(* injectBridge: where the comment bridge's <script> goes into an HTML     *)
(* document.  A document is a sequence of tokens, upper case as lower:     *)
(* " " stands for whatever ends a tag's name and is not ">", "text" for    *)
(* anything else, so that <<"<head", "text">> begins with "<header".       *)
(* An offset is the number of tokens before it.                            *)
(***************************************************************************)
EXTENDS Integers, SequencesExt

CONSTANTS
    ScanTokens, \* bridgeScanBytes
    MaxTokens   \* bound on the documents' length

ASSUME BridgeAssumption == ScanTokens \in Nat /\ MaxTokens \in Nat

Tokens == {"<head", "<html", "<!doctype", ">", "<!--", "-->", " ", "text", "BOM"}
Documents == SeqOf(Tokens, MaxTokens)

\* bytes.Index from a position on; 0 where there is none.
Index(doc, token, from) ==
    LET found == {i \in from..Len(doc) : doc[i] = token}
    IN  IF found = {} THEN 0 ELSE Min(found)

\* Every comment, the last one perhaps unterminated, is overwritten with spaces.
BlankComments(doc) ==
    LET blank[from \in 1..Len(doc) + 1] ==
          LET start == Index(doc, "<!--", from)
              close == Index(doc, "-->", start + 1)
              end == IF close = 0 THEN Len(doc) ELSE close
          IN  IF start = 0 THEN {} ELSE (start..end) \cup blank[end + 1]
    IN  [i \in DOMAIN doc |-> IF i \in blank[1] THEN " " ELSE doc[i]]

\* isTagNameEnd.
NameEnds == {" ", ">"}

\* Behind the first tag of that name, if it has an end.
OpeningTagEnd(doc, name) ==
    LET tags == {i \in 1..Len(doc) - 1 : doc[i] = name /\ doc[i + 1] \in NameEnds}
    IN  IF tags = {} THEN 0 ELSE Index(doc, ">", Min(tags) + 1)

\* The head's tag before the root's before the doctype, or the start.
OffsetIn(doc, scanned) ==
    LET tag == [name \in {"<head", "<html", "<!doctype"} |-> OpeningTagEnd(scanned, name)]
    IN  IF tag["<head"] > 0 THEN tag["<head"]
        ELSE IF tag["<html"] > 0 THEN tag["<html"]
        ELSE IF tag["<!doctype"] > 0 THEN tag["<!doctype"]
        ELSE IF IsPrefix(<<"BOM">>, doc) THEN 1 ELSE 0

Scanned(doc) == SubSeq(doc, 1, IF Len(doc) < ScanTokens THEN Len(doc) ELSE ScanTokens)

\* Variant: comments are not skipped.
BridgeOffsetAnywhere(doc) == OffsetIn(doc, Scanned(doc))

BridgeOffset(doc) == OffsetIn(doc, BlankComments(Scanned(doc)))

-----------------------------------------------------------------------------
(* The reference: the rule of comments-design.md ("immediately after the   *)
(* opening <head ...> tag", or that of <html>, or the doctype, of the first *)
(* 64 KiB, "tags inside comments are skipped") as a reader of the text      *)
(* would apply it.  It is a rule about text, not HTML: it knows nothing of  *)
(* quoted values or of what stands in a script, a style sheet or a title,   *)
(* takes every <!-- for a comment up to the next -->, and lets one end a    *)
(* tag's name.                                                              *)

\* Whether a comment is open behind the first n tokens.
CommentOpen(doc, n) ==
    FoldLeft(LAMBDA open, token : IF open THEN token # "-->" ELSE token = "<!--",
             FALSE, SubSeq(doc, 1, n))

\* The offsets behind the tags of that name outside comments.
TagEnds(doc, name) ==
    LET Outside(i) == ~CommentOpen(doc, i - 1) /\ ~CommentOpen(doc, i)
        Ends(i) == Outside(i) /\ doc[i] = ">"
    IN  {j \in DOMAIN doc :
           /\ Ends(j)
           /\ \E i \in 1..j - 1 :
                /\ Outside(i) /\ doc[i] = name
                /\ doc[i + 1] \in NameEnds \cup {"<!--"}
                /\ \A k \in i + 1..j - 1 : ~Ends(k)}

\* Behind the first tag of the head, of the root where there is none, or the
\* doctype where there is neither, and in no comment.
PlacedByRule(doc, offset) ==
    LET scanned == Scanned(doc)
        head == TagEnds(scanned, "<head")
        root == TagEnds(scanned, "<html")
        doctype == TagEnds(scanned, "<!doctype")
    IN  /\ offset \in 0..Len(doc)
        /\ ~CommentOpen(doc, offset)
        /\ head # {} => offset = Min(head)
        /\ head = {} /\ root # {} => offset = Min(root)
        /\ head = {} /\ root = {} /\ doctype # {} => offset = Min(doctype)

EveryDocumentByRule == \A doc \in Documents : PlacedByRule(doc, BridgeOffset(doc))
=============================================================================

------------------------- MODULE MCFileTransactions -------------------------
EXTENDS FileTransactions, Sequences
Edits == INSTANCE FileEdits

-----------------------------------------------------------------------------
(* The plans the file tools make, over short texts of two letters.           *)

Texts(n) == UNION {[1 .. k -> {"x", "y"}] : k \in 0 .. n}
AFile(text) == [was |-> <<text>>, link |-> FALSE]

(* A replacement that is accepted can be taken back: the new text differs    *)
(* from the old in one place, which the old text named unambiguously.        *)
ASSUME ReplacementsAreUnique ==
  \A text \in Texts(4), old \in Texts(2), new \in Texts(1) :
    LET out == Edits!replaceUnique(text, old, new)
    IN  ~Edits!IsError(out) =>
          /\ Len(out.plan) = Len(text) + Len(new) - Len(old)
          /\ \E i \in 0 .. Len(text) :
               /\ SubSeq(text, 1, i) = SubSeq(out.plan, 1, i)
               /\ SubSeq(text, i + 1, i + Len(old)) = old
               /\ \A j \in 0 .. Len(text) - Len(old) :
                    SubSeq(text, j + 1, j + Len(old)) = old => j = i

(* A patch is the edits one after the other, each on what the one before     *)
(* left, and nothing when one of them fails.                                 *)
Step(old, new) == [path |-> "f", old |-> old, new |-> new, expected |-> <<>>]
ASSUME PatchesAreSequences ==
  \A text \in Texts(3), a, b \in Texts(1), new \in Texts(1) :
    LET one == Edits!execEditFile(AFile(text), a, new, <<>>)
        two == IF Edits!IsError(one) THEN one
               ELSE Edits!execEditFile(AFile(one.plan.data), b, new, <<>>)
        patch == Edits!applyPatch([f |-> AFile(text)], <<Step(a, new), Step(b, new)>>)
    IN  IF Edits!IsError(two) THEN patch = two
        ELSE patch.plan["f"] = [data |-> two.plan.data, expected |-> <<<<text>>>>]

(* A write or an edit with a version that is no longer there, and any edit   *)
(* of a link, is refused.                                                    *)
ASSUME StaleEditsAreRefused ==
  \A was, version \in {<<>>} \union {<<text>> : text \in Texts(2)}, link \in BOOLEAN :
    LET file == [was |-> was, link |-> link] IN
    /\ Edits!IsError(Edits!execWriteFile(file, <<>>, <<version>>)) <=> link \/ was # version
    /\ ~Edits!IsError(Edits!execEditFile(file, <<"x">>, <<>>, <<version>>)) =>
         ~link /\ was = version /\ was # <<>>

(* Whoever follows the pages reads every line once.  A file that ends with a *)
(* full page is followed by one refusal.                                     *)
ASSUME PagesCoverTheFile ==
  \A lines \in 0 .. 6, limit \in 1 .. 3, offset \in 1 .. 7 :
    LET page == Edits!execReadFile(lines, offset, limit)
    IN  /\ Edits!IsError(page) <=> lines > 0 /\ offset > lines
        /\ ~Edits!IsError(page) =>
             /\ page.plan.next # 0 => page.plan.next = page.plan.last + 1
             /\ page.plan.next = 0 => page.plan.last = lines
             /\ page.plan.next > lines => (lines - offset + 1) % limit = 0

(* Whatever links there are, an accepted path names a file inside.           *)
Paths == UNION {[1 .. k -> {"w", "o"}] : k \in 1 .. 2}
ASSUME PathsStayInside ==
  \A target \in Paths, path \in Paths :
    LET links == [p \in {<<"w", "o">>} |-> target]
    IN  Edits!checkPath(path, <<"w">>, links) =>
          /\ path[1] = "w" /\ (path = <<"w", "o">> => target[1] = "w")
          /\ ~Edits!IsError(Edits!execGrep(path, <<"w">>, links, 1))
=============================================================================

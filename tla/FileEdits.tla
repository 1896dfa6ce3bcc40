----------------------------- MODULE FileEdits -----------------------------
(***************************************************************************)
(* What the file tools ask of a transaction (tools/file.ts): which paths are  *)
(* inside the workspace (tools/path.ts), which page of a file is read, and     *)
(* how replacements become the new contents of a plan.  A text is a sequence   *)
(* of characters; the contents of a path are <<text>>, or <<>> where there is  *)
(* no file, and stand for their hash; a version the model names is <<contents>>,*)
(* or <<>> for none.  The transaction itself is FileTransactions'.            *)
(***************************************************************************)
EXTENDS Naturals, Sequences, FiniteSets, TLC

Missing == <<>>
Refused(why) == [error |-> why]
Accepted(plan) == [plan |-> plan]
IsError(outcome) == "error" \in DOMAIN outcome

-----------------------------------------------------------------------------
(* Paths: a sequence of names below the root; links maps the paths that are  *)
(* symbolic links to an existing target to that target.                      *)

(* The deepest part of the path that is a link is resolved; what does not    *)
(* exist below it is kept.                                                   *)
realpathDeep(path, links) ==
  LET linked == {n \in 1 .. Len(path) : SubSeq(path, 1, n) \in DOMAIN links}
      deepest == CHOOSE n \in linked : \A m \in linked : m <= n
  IN  IF linked = {} THEN path
      ELSE links[SubSeq(path, 1, deepest)] \o SubSeq(path, deepest + 1, Len(path))

Below(path, dir) == Len(path) >= Len(dir) /\ SubSeq(path, 1, Len(dir)) = dir
checkPath(path, workdir, links) ==
  Below(realpathDeep(path, links), realpathDeep(workdir, links))

-----------------------------------------------------------------------------
(* Reading.                                                                  *)

(* The lines from offset on, at most limit; a reader that fills its page     *)
(* stops there and does not know whether the file ends.                      *)
readFilePaged(lines, offset, limit) ==
  LET last == IF offset + limit - 1 < lines THEN offset + limit - 1 ELSE lines
  IN  [first |-> offset, last |-> last, eof |-> offset + limit - 1 > lines]

execReadFile(lines, offset, limit) ==
  LET page == readFilePaged(lines, offset, limit)
  IN  IF offset < 1 \/ limit < 1 THEN Refused("offset or limit")
      ELSE IF page.last < offset /\ lines > 0 THEN Refused("beyond the end")
      ELSE Accepted(page @@ [next |-> IF page.eof THEN 0 ELSE page.last + 1])

-----------------------------------------------------------------------------
(* Replacing.                                                                *)

Occurrences(text, old) ==
  {i \in 1 .. Len(text) : Len(old) <= Len(text) - i + 1 /\
                          SubSeq(text, i, i + Len(old) - 1) = old}

(* Exactly one occurrence, overlapping ones counted.                         *)
replaceUnique(text, old, new) ==
  LET at == Occurrences(text, old)
      i == CHOOSE i \in at : TRUE
  IN  CASE old = <<>> -> Refused("empty")
        [] old # <<>> /\ at = {} -> Refused("not found")
        [] Cardinality(at) > 1 -> Refused("ambiguous")
        [] old # <<>> /\ Cardinality(at) = 1 ->
             Accepted(SubSeq(text, 1, i - 1) \o new \o SubSeq(text, i + Len(old), Len(text)))

(* A symbolic link is not edited; a version that was named must be there.    *)
checkExpectedHash(file, expected) == ~file.link /\ (expected # <<>> => expected = <<file.was>>)

execWriteFile(file, content, expected) ==
  IF ~checkExpectedHash(file, expected) THEN Refused("conflict")
  ELSE Accepted([data |-> content, expected |-> expected])

(* An edit expects the text it was computed from.                            *)
execEditFile(file, old, new, expected) ==
  LET next == replaceUnique(file.was[1], old, new)
  IN  IF ~checkExpectedHash(file, expected) THEN Refused("conflict")
      ELSE IF file.was = Missing THEN Refused("no file")
      ELSE IF IsError(next) THEN next
      ELSE Accepted([data |-> next.plan, expected |-> <<file.was>>])

(* A patch replaces one after the other: a file that was staged is edited as  *)
(* staged, each expectation is of the file as it is; one refusal refuses all. *)
Staged(files, edits) ==
  LET S[k \in 0 .. Len(edits)] ==
        IF k = 0 THEN Accepted([p \in {} |-> <<>>])
        ELSE IF IsError(S[k - 1]) THEN S[k - 1]
        ELSE LET e == edits[k]
                 staged == S[k - 1].plan
                 text == IF e.path \in DOMAIN staged THEN staged[e.path] ELSE files[e.path].was[1]
                 next == replaceUnique(text, e.old, e.new)
             IN  IF ~checkExpectedHash(files[e.path], e.expected) THEN Refused("conflict")
                 ELSE IF files[e.path].was = Missing THEN Refused("no file")
                 ELSE IF IsError(next) THEN next
                 ELSE Accepted([p \in DOMAIN staged \union {e.path} |->
                                  IF p = e.path THEN next.plan ELSE staged[p]])
  IN  S[Len(edits)]

applyPatch(files, edits) ==
  LET staged == Staged(files, edits)
  IN  IF IsError(staged) THEN staged
      ELSE Accepted([p \in DOMAIN staged.plan |->
                       [data |-> staged.plan[p], expected |-> <<files[p].was>>]])

(* A search is bounded and stays inside.                                     *)
execGrep(path, workdir, links, limit) ==
  IF ~checkPath(path, workdir, links) THEN Refused("path")
  ELSE IF limit < 1 THEN Refused("limit") ELSE Accepted(limit)
=============================================================================

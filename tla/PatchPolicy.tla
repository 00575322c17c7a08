----------------------------- MODULE PatchPolicy -----------------------------
(* The patch policy (tools/patch.py): the static inspection of a unified     *)
(* diff, and the second one against the paths that Git really changed.       *)
(*                                                                           *)
(* The inspection reads a diff line by line without following its structure, *)
(* while Git follows it. A diff is therefore modelled twice: as the set of   *)
(* its file sections, which is what Git applies, and as the set of the lines *)
(* that the policy sees of them, which are not always Git's. Order and number*)
(* of the lines do not matter to either.                                     *)
EXTENDS Naturals, FiniteSets, Sequences

CONSTANTS
    PatchPaths,   \* repository paths, as sequences of names
    Unsafe,       \* names in headers that are refused; quoted ones count as malformed, not escape
    AllowedPaths, \* the task's allowlist, directories or files; empty allows all
    Forbidden,    \* the paths that match one of the task's forbidden globs
    Bodies        \* the texts that a section may hold, as sets of lines

VARIABLES
    patch,        \* the sections of the diff
    oversized,    \* it is longer than max_patch_bytes
    stage,        \* "written", "inspected", "applied", "verified"
    inspection,   \* the last PatchInspection
    applied       \* the paths Git reports after applying it

patchVars == <<patch, oversized, stage, inspection, applied>>

-----------------------------------------------------------------------------
(* Diffs                                                                     *)

DevNull == <<>>

Modes == {"100644", "100755", "120000"}
Names == PatchPaths \union Unsafe \union {DevNull}

Line(role, name) == [role |-> role, name |-> name]
HeaderLines ==
    [role : {"diff", "old", "new", "hunk", "rename", "mode", "binary"}, name : Names]
    \union [role : {"filemode"}, name : {<<mode>> : mode \in Modes}]

(* A piece of text as the policy reads it. `sign`: its first character, "no" *)
(* if that is neither plus nor minus; `begins`: what comes then, "words",    *)
(* two more of the same sign ("marks"), or these, a space and a path up to a *)
(* tab or the end, which is `name` ("header"); `skip`: it holds a marker of  *)
(* a bypassed test.                                                          *)
Pieces == [sign : {"+", "-", "no"}, begins : {"words", "marks", "header"},
           name : Names, skip : BOOLEAN]

(* A line of text as Git reads it, up to a line feed: `first` has Git's sign,*)
(* and `rest` is what follows the other characters at which splitlines()     *)
(* ends a line (a form feed, a carriage return, U+2028): any text, which may *)
(* look like a line of a header.                                             *)
TextLines == [first : Pieces, rest : SUBSET (Pieces \union HeaderLines)]

(* A name that is refused, or the null device's, is no repository path.      *)
ASSUME PatchAssumption ==
    /\ PatchPaths \intersect Unsafe = {}
    /\ DevNull \notin PatchPaths
    /\ \A body \in Bodies : body \subseteq TextLines

FileChange(kind, mode) == [kind |-> kind, mode |-> mode]
Changes == {FileChange(k, "100644") : k \in {"edit", "rename", "mode", "binary"}}
           \union {FileChange(k, mode) : k \in {"create", "delete"}, mode \in Modes}

Sections == {[path |-> p, change |-> c, body |-> b] :
                p \in PatchPaths \union Unsafe, c \in Changes, b \in Bodies}

(* The lines that git diff writes for a section, headers and hunks.          *)
Headers(s) ==
    LET c == s.change.kind IN
    {Line("diff", s.path)}
    \union (IF s.body = {} THEN {}
            ELSE {Line("old", IF c = "create" THEN DevNull ELSE s.path),
                  Line("new", IF c = "delete" THEN DevNull ELSE s.path),
                  Line("hunk", s.path)})
    \union (CASE c \in {"create", "delete"} -> {Line("filemode", <<s.change.mode>>)}
              [] c = "edit" -> {}
              [] OTHER -> {Line(c, s.path)})

(* patch.splitlines()                                                        *)
Lines(p) == UNION {Headers(s) \union UNION {{l.first} \union l.rest : l \in s.body} : s \in p}

IsText(l) == "sign" \in DOMAIN l

-----------------------------------------------------------------------------
(* The inspection                                                            *)

(* inspect(): the tests on the beginning of a line, "--- " and "+++ " with   *)
(* their space.                                                              *)
ReadAsHeader(l) ==
    IF IsText(l) THEN l.sign # "no" /\ l.begins = "header"
    ELSE l.role \in {"diff", "old", "new"}

(* _parse_diff_git_paths, _parse_file_header and _strip_git_prefix           *)
PathsRead_DevNullToo(l) == IF ReadAsHeader(l) THEN {l.name} ELSE {}

PathsRead(l) == IF ReadAsHeader(l) THEN {l.name} \ {DevNull} ELSE {}

(* The test for a bypass leaves out what begins with three pluses, a space   *)
(* after them or not.                                                        *)
LineViolations(l) ==
    IF IsText(l)
    THEN IF l.sign = "+" /\ l.begins = "words" /\ l.skip THEN {"test_bypass"} ELSE {}
    ELSE CASE l.role = "mode" -> {"mode_change"}
           [] l.role = "rename" -> {"rename_or_copy"}
           [] l.role = "binary" -> {"binary_patch"}
           [] l.role = "filemode" /\ l.name = <<"120000">> -> {"symlink_or_submodule"}
           [] l.role = "filemode" /\ l.name = <<"100755">> -> {"mode_change"}
           [] OTHER -> {}

IsPrefix(a, p) == Len(a) <= Len(p) /\ SubSeq(p, 1, Len(a)) = a

(* _is_allowed: the path itself or a directory above it.                     *)
IsAllowed(p) == \E a \in AllowedPaths : IsPrefix(a, p)

PathViolations(read) ==
    (IF \E p \in read : AllowedPaths # {} /\ ~IsAllowed(p) THEN {"path_not_allowed"} ELSE {})
    \union (IF read \intersect Forbidden # {} THEN {"forbidden_path"} ELSE {})

Inspection(paths, violations) == [paths |-> paths, violations |-> violations]
Accepted == inspection.violations = {}

Inspect(p, tooLong) ==
    LET lines == Lines(p)
        read == UNION {PathsRead(l) : l \in lines}
        safe == read \ Unsafe
        ofLines == UNION {LineViolations(l) : l \in lines}
        hunks == {l \in lines : ~IsText(l) /\ l.role = "hunk"}
    IN Inspection(safe,
         ofLines
         \union (IF tooLong THEN {"oversized"} ELSE {})
         \union (IF read # safe THEN {"path_escape"} ELSE {})
         \union (IF safe = {} THEN {"malformed"} ELSE {})
         \union (IF hunks = {} /\ "binary_patch" \notin ofLines THEN {"malformed"} ELSE {})
         \union PathViolations(safe))

(* inspect_applied_paths; Git reports no path that leaves the repository.    *)
Reinspect_TrustsHeaders(first, paths) ==
    Inspection(paths, first.violations \union PathViolations(paths))

Reinspect(first, paths) ==
    Inspection(paths,
        first.violations
        \union (IF paths # first.paths THEN {"malformed"} ELSE {})
        \union PathViolations(paths))

-----------------------------------------------------------------------------
(* The steps of a verification that use the policy                           *)

NoInspection == Inspection({}, {})

PatchInit ==
    /\ patch \in {{s, t} : s \in Sections, t \in Sections}
    /\ \A s, t \in patch : s.path = t.path => s = t
    /\ oversized \in BOOLEAN
    /\ stage = "written" /\ inspection = NoInspection /\ applied = {}

(* ToolGateway.execute and Verifier.verify                                   *)
FirstInspection ==
    /\ stage = "written"
    /\ stage' = "inspected" /\ inspection' = Inspect(patch, oversized)
    /\ UNCHANGED <<patch, oversized, applied>>

GitTakes(p) ==
    \A s \in p :
        /\ s.path \in PatchPaths
        /\ s.change.kind = "edit" => s.body # {}
        /\ s.body # {} => \E l \in s.body : l.first.sign # "no"

(* Only an accepted patch is applied. Git refuses names outside the          *)
(* repository, and sections and hunks without any change.                    *)
GitApplies ==
    /\ stage = "inspected" /\ Accepted
    /\ GitTakes(patch)
    /\ stage' = "applied" /\ applied' = {s.path : s \in patch}
    /\ UNCHANGED <<patch, oversized, inspection>>

SecondInspection ==
    /\ stage = "applied"
    /\ stage' = "verified" /\ inspection' = Reinspect(inspection, applied)
    /\ UNCHANGED <<patch, oversized, applied>>

Done ==
    /\ stage = "verified" \/ (stage = "inspected" /\ ~(Accepted /\ GitTakes(patch)))
    /\ UNCHANGED patchVars

PatchNext == FirstInspection \/ GitApplies \/ SecondInspection \/ Done

PatchSpec == PatchInit /\ [][PatchNext]_patchVars

-----------------------------------------------------------------------------
(* Properties                                                                *)

(* The values of the variables.                                              *)
Codes == {"malformed", "oversized", "path_escape", "path_not_allowed", "forbidden_path",
          "binary_patch", "mode_change", "symlink_or_submodule", "rename_or_copy",
          "test_bypass"}

PatchTypeOK ==
    /\ patch \subseteq Sections /\ oversized \in BOOLEAN
    /\ stage \in {"written", "inspected", "applied", "verified"}
    /\ inspection.paths \subseteq PatchPaths
    /\ inspection.violations \subseteq Codes
    /\ applied \subseteq PatchPaths

(* What the test for a bypass does not see in a line that Git adds: what     *)
(* begins with two more pluses, unless they name a file that the patch does  *)
(* not change, and what splitlines() splits off, unless that begins with a   *)
(* plus again.                                                               *)
Unseen(piece) ==
    \/ piece.sign # "+"
    \/ piece.begins = "marks"
    \/ piece.begins = "header" /\ piece.name \in applied \union {DevNull}

(* A patch that passes both inspections is safe in Git's eyes, not only in   *)
(* the reader's: Git changed allowed files only, none by mode, link, rename  *)
(* or binary content; and no line that it added holds a marker of a bypassed *)
(* test, but where the reader cannot see it. A line that the first inspection*)
(* mistook for a file header is no such place when it names another file.    *)
AcceptedIsSafe ==
    stage = "verified" /\ Accepted =>
        /\ applied \intersect Forbidden = {}
        /\ AllowedPaths # {} => \A p \in applied : IsAllowed(p)
        /\ \A s \in patch :
            /\ s.change.kind \in {"edit", "create", "delete"} /\ s.change.mode = "100644"
            /\ \A l \in s.body : l.first.sign = "+" =>
                 \A piece \in {l.first} \union l.rest :
                     IsText(piece) /\ piece.skip => Unseen(piece)

(* Said of the program, README.md:58: "Patch-policy checks for traversal,    *)
(* forbidden files, tests, skips". An added line that calls pytest.skip(     *)
(* after two pluses of its own, which is Python, or after a form feed, is    *)
(* accepted.                                                                 *)
NoBypassIsAdded ==
    stage = "verified" /\ Accepted =>
        \A s \in patch : \A l \in s.body : l.first.sign = "+" =>
            \A piece \in {l.first} \union l.rest : IsText(piece) => ~piece.skip

(* Nothing else is rejected (tools/patch.py:80, "Reject unsafe or            *)
(* out-of-scope unified diffs"): a diff of allowed text files, edited,       *)
(* created or deleted, passes both inspections when no line that it adds     *)
(* bypasses a test, and no line, added or removed, reads like a file header  *)
(* or is split. These last conditions are the code's: a diff that removes a  *)
(* line of SQL comment is rejected.                                          *)
IsSafe(s) ==
    /\ s.path \in PatchPaths \ Forbidden /\ \E a \in AllowedPaths : IsPrefix(a, s.path)
    /\ s.change.kind \in {"edit", "create", "delete"} /\ s.change.mode = "100644"
    /\ s.body # {}
    /\ \A l \in s.body : /\ l.first.begins # "header" /\ l.rest = {}
                         /\ ~(l.first.sign = "+" /\ l.first.skip)

SafeEditsPass ==
    stage \in {"inspected", "verified"} /\ ~oversized /\ patch # {} /\ (\A s \in patch : IsSafe(s))
    => Accepted

(* The policy draws its line where it should: nothing unsafe passes, and a   *)
(* plain edit of permitted files does.                                       *)
PatchesAreJudgedRightly == AcceptedIsSafe /\ SafeEditsPass
=============================================================================

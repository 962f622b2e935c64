------------------------- MODULE MCDocumentEditing -------------------------
(* Instances of DocumentEditing for TLC: small sound originals.            *)
EXTENDS DocumentEditing

CONSTANTS x1, x2, n1, n2, o1,       \* projects, next actions, an output
          reader, book, copy, extra \* files and directories

(* Controls that agree; the last ones a final result.                      *)
Sound(project, status, class, ready) ==
    LET b == [gates |-> 0, restricted |-> {}, ready |-> ready]
        s == [version |-> "1.0.0", fits |-> TRUE, project |-> project, status |-> status,
              class |-> class, next |-> n1, boundaries |-> b]
    IN [state |-> s, lock |-> s,
        validation |-> [version |-> "1.0.0", fits |-> TRUE, project |-> project,
                        status |-> "PASS", boundaries |-> b]]
MCContracts ==
    {Sound(x1, "CURRENT", "PRELIMINARY_RED_FLAG_DD", FALSE),
     Sound(x1, "CURRENT", "PRELIMINARY_RED_FLAG_DD", TRUE),
     Sound(x1, "ARCHIVED", "FINAL_FULL_DD", TRUE)}

(* "book" and its copy differ by case only.                                *)
MCCaseKey == [f \in File |-> IF f = copy THEN book ELSE f]
MCDisk == [q \in DiskPath |->
             CASE q \in {<<reader>>, <<extra>>} -> "directory"
               [] q \in {<<reader, book>>, <<extra, book>>} -> "file"
               [] OTHER -> "absent"]
MCProjects ==
    {[root |-> "directory", config |-> "usable", version |-> "1.0.0", fits |-> TRUE,
      project |-> x1, control |-> [k \in Control |-> "usable"],
      contract |-> Sound(x1, "CURRENT", "PRELIMINARY_RED_FLAG_DD", FALSE),
      roots |-> <<[class |-> "READER", path |-> <<reader>>, required |-> TRUE],
                  [class |-> "CONTROL", path |-> <<extra>>, required |-> TRUE]>> \o more,
      disk |-> MCDisk] :
       more \in {<<>>, <<[class |-> "SUPPLEMENTAL", path |-> <<book>>, required |-> FALSE]>>}}

(* The least complete delivery: the required roles, one product of each    *)
(* parent group and one workpaper.                                         *)
MCRoles == <<"INTEGRATED_DD", "INVESTMENT_MEMO", "ACTION_BOOK", "READER_GUIDE",
             "BASE_DD", "FORMAL_NOT_READY", "CURRENT_UPDATE", "FACT_PACK", "ACCEPTANCE">>
MCStatus(pack) == CHOOSE s \in AllowedStatus(pack) : TRUE
MCCatalog == [i \in 1 .. 9 |->
    [id |-> i, role |-> MCRoles[i], lifecycle |-> "CURRENT",
     status |-> MCStatus(HomePack(MCRoles[i])), pack |-> HomePack(MCRoles[i]),
     path |-> i, parents |-> {}, reason |-> FALSE, file |-> {}]]
MCDeliveries ==
    {[fits |-> [x \in DeliveryDocument |-> "yes"], catalog |-> MCCatalog, master |-> "PASS",
      packs |-> [k \in Pack |->
                   [products |-> {i \in 1 .. 9 : MCCatalog[i].pack = k}, file |-> {}]],
      authority |-> {},
      coverage |-> [sources |-> 1, reviewed |-> 1, unreadable |-> 0, deferred |-> 0,
                    total |-> 1, completed |-> 1, open |-> 0, claim |-> "FULL",
                    complete |-> TRUE],
      recovery |-> [matches |-> TRUE, verified |-> TRUE, pass |-> TRUE,
                    authority |-> "CURRENT"]]}

(* Names: a file, two ZIP files that differ by case, a file in another     *)
(* root, a directory, and an unsafe name.                                  *)
MCRootOf == [n \in Name |-> IF n = "s/a" THEN "s" ELSE "r"]
MCFoldOf == [n \in Name |-> IF n = "r/z.ZIP" THEN "r/z.zip" ELSE n]
MCLimits == [entries |-> 2, total |-> 3, member |-> 2, ratio |-> 2, depth |-> 1]
File1(n, a) == [name |-> n, size |-> 1, packed |-> 1, encrypted |-> FALSE,
                link |-> FALSE, corrupt |-> FALSE, holds |-> a]
Strict ==
    {[form |-> "zip", profile |-> profile, outer |-> 1, size |-> 1,
      zip |-> [a \in Archive |-> <<File1(inner[a], IF a = 3 THEN NotZip ELSE a + 1)>>],
      descriptor |-> "fits", idIsRoot |-> TRUE, manifest |-> "fits",
      rootIsPayload |-> TRUE, verifies |-> TRUE, payload |-> "directory",
      extra |-> FALSE] :
        profile \in {"archive", "release"},
        inner \in {f \in [Archive -> {"r/a", "r/z.zip"}] : f[3] = "r/a"}}

Bare == {[x EXCEPT !.profile = "auto", !.descriptor = "missing", !.manifest = "missing",
                   !.payload = "missing"] : x \in Strict}

(* An extracted release; what is nested in it has a suffix in capitals.    *)
Capital == {[x EXCEPT !.form = "directory", !.zip[1][1].name = "r/z.ZIP"] :
              x \in {y \in Strict : y.profile = "release" /\ y.zip[1][1].name = "r/a"}}
MCPackages == Strict \cup Bare \cup Capital

(* Characters by their order: the full stop, the slash and a letter.       *)
Stop == 1
Letter == 3
MCPartName == {<<Letter>>, <<Letter, Stop>>}       \* "a" and "a."

(* Two files of one size, and one of another.                              *)
MCContent == {[size |-> 1, hash |-> "x"], [size |-> 1, hash |-> "y"],
              [size |-> 2, hash |-> "z"]}
MCTrees == {[tree |-> t, manifest |-> Nothing, built |-> FALSE] : t \in Trees}

MCOriginal == [contract |-> MCContracts, project |-> MCProjects,
               delivery |-> MCDeliveries, package |-> MCPackages,
               manifest |-> MCTrees]
MCMaxEdits == [contract |-> 3, project |-> 2, delivery |-> 2, package |-> 2,
               manifest |-> 2]
MCNoEdits == [k \in Kind |-> 0]
=============================================================================

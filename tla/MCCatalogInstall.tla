-------------------------- MODULE MCCatalogInstall --------------------------
(***************************************************************************)
(* A small instance of CatalogInstall. The KEV catalog has an edition with *)
(* other bytes and the same meaning, a new version, and a correction that  *)
(* keeps the version; Microsoft moves from one month to the next; the      *)
(* other two sources have one edition each, with a livepatch notice newer  *)
(* than the others, and a release that is not linked yet.                  *)
(***************************************************************************)
EXTENDS CatalogInstall

Item(id, date) ==
    [id |-> id, date |-> date, revised |-> 0, desktop |-> TRUE, livepatch |-> FALSE, linked |-> TRUE]
Server(id, date) == [Item(id, date) EXCEPT !.desktop = FALSE]
Livepatch(id, date) == [Item(id, date) EXCEPT !.livepatch = TRUE]
Unlinked(id, date) == [Item(id, date) EXCEPT !.linked = FALSE]
Page(declared, items) == [first |-> 1, declared |-> declared, month |-> "jan", items |-> items]

MCEditions ==
    [d \in Documents |->
        CASE d = "kev" -> << Page(1, {Item(1, 1)}), Page(1, {Item(1, 1), Server(3, 1)}),
                             Page(2, {Item(1, 1), Item(2, 2)}), Page(2, {Item(2, 2)}) >>
          [] d = "usn" -> << Page(0, {Item(1, 1), Server(2, 2), Livepatch(3, 3)}) >>
          [] d = "apple" -> << Page(1, {Item(1, 1), Unlinked(2, 2)}) >>
          [] d = "index" -> << Page(0, {Item(1, 1), Item(2, 2)}), Page(0, {Item(1, 9)}) >>
          [] d = "jan" -> << [Page(1, {Item(1, 1)}) EXCEPT !.month = "jan"] >>
          [] d = "feb" -> << [Page(2, {Item(2, 2)}) EXCEPT !.month = "feb"] >>]

MCSelections == { <<"cisa-kev">>, <<"ubuntu-usn", "apple-security", "microsoft-msrc", "cisa-kev">> }

Symmetry == Permutations(Updaters)

MCModes == { [dry |-> FALSE, offline |-> FALSE], [dry |-> TRUE, offline |-> FALSE],
             [dry |-> FALSE, offline |-> TRUE] }
=============================================================================

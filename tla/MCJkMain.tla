------------------------------ MODULE MCJkMain ------------------------------
(* Three episodes: cutscenes before, between and after levels, with and without  *)
(* their files; a choice of two ways, one of them to a level that is missing;    *)
(* cutscenes in a row.                                                           *)
EXTENDS JkMain

E(level, type, there, a, b) ==
    [level |-> level, type |-> type, there |-> there, gotoA |-> a, gotoB |-> b]

MCFilm == <<E(1, "cut", TRUE, 2, NONE), E(1, "level", TRUE, 3, NONE),
            E(1, "cut", FALSE, 4, NONE), E(2, "level", TRUE, 5, NONE),
            E(2, "cut", TRUE, NONE, NONE)>>
MCWays == <<E(1, "cut", FALSE, 2, NONE), E(2, "level", TRUE, 3, NONE),
            E(3, "choice", TRUE, 4, 5), E(4, "level", TRUE, NONE, NONE),
            E(5, "level", FALSE, 2, NONE)>>
MCRow == <<E(1, "level", TRUE, 2, NONE), E(1, "cut", TRUE, 3, NONE),
           E(1, "cut", TRUE, 4, NONE), E(2, "cut", TRUE, 5, NONE),
           E(2, "cut", TRUE, 6, NONE), E(2, "level", TRUE, NONE, NONE)>>

MCEpisodes == {MCFilm, MCWays, MCRow}
=============================================================================

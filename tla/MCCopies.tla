------------------------------ MODULE MCCopies ------------------------------
(* Instances of Copies for TLC. *)
EXTENDS Copies

(* Runs that are coded and runs that are too long, the mark, line ends and *)
(* the characters of one set; forks at and about the ends of a buffer.     *)
Run(b, n) == [k \in 1 .. n |-> b]

MCFiles == {[type |-> 5, flags |-> 7, data |-> <<65, 13, 66, 10, 101>>, rsrc |-> << >>],
            [type |-> 5, flags |-> 4, data |-> <<65, 13, 66>>, rsrc |-> Run(102, 4)],
            [type |-> 9, flags |-> 2, data |-> Run(65, 12), rsrc |-> <<144, 144, 1>>],
            [type |-> 9, flags |-> 0, data |-> Run(144, 6) \o <<2>>, rsrc |-> Run(0, 6)],
            [type |-> 9, flags |-> 3, data |-> << >>, rsrc |-> Run(65, 13)]}

(* No bytes, a text, a header without its forks.                           *)
MCForeign == {<< >>, <<72, 10, 102, 72, 9, 9, 9>>,
              LET h == <<9, 0, 5, 0>> IN h \o Word(crc_macb(h, 0)),
              LET h == <<9, 0, 128, 0>> IN h \o Word(crc_macb(h, 0)),
              bh_end(bh_insertcrc(bh_insert(bh_start, <<9, 0, 0, 0>>)))}
=============================================================================

----------------------------- MODULE MCForkJoin -----------------------------
(* Instance of ForkJoin: products of matrices of different shapes, up to   *)
(* five trials, and determinants up to four rows, with one to three        *)
(* workers, among them workers without work.                               *)
EXTENDS ForkJoin

MCProducts ==
  { << <<  <<1, 2>>, <<3, 4>>, <<5, 6>> >>, << <<7, 8>>, <<9, 1>> >> >>,
    << <<  <<2>>, <<3>>, <<4>>, <<5>>, <<6>> >>, << <<3>> >> >>,
    << <<  <<1, 2, 3>> >>, << <<4>>, <<5>>, <<6>> >> >> }

MCTrialCounts == {0, 2, 5}

MCSquares ==
  { << <<3>> >>,
    << <<1, 2>>, <<3, 4>> >>,
    << <<2, 7, 1>>, <<5, 3, 4>>, <<1, 6, 8>> >>,
    << <<1, 2, 0, 3>>, <<4, 1, 5, 2>>, <<2, 0, 3, 1>>, <<1, 3, 2, 6>> >> }

=============================================================================

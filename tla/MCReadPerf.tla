---------------------------- MODULE MCReadPerf ----------------------------
(***************************************************************************)
(* ReadPerf for two addresses of a function, one of them also an address   *)
(* of a stripped binary, a binary that does not exist, and one that makes  *)
(* addr2line complain at length.                                           *)
(***************************************************************************)
EXTENDS ReadPerf

Result(status, words, printed, complained) ==
  [status |-> status, words |-> words, printed |-> printed, complained |-> complained]

main == Result(0, << <<"main">>, <<"test.c", "17">> >>, 4, 0)

MCAddresses == {<<1, "app">>, <<2, "app">>, <<1, "bare">>, <<3, "gone">>, <<4, "noisy">>}

MCTool ==
  [a \in MCAddresses |->
     CASE a = <<1, "app">>   -> main
       [] a = <<2, "app">>   -> main
       [] a = <<1, "bare">>  -> Result(0, << <<"??">>, <<"??", "0">> >>, 2, 0)
       [] a = <<3, "gone">>  -> Result(1, << >>, 0, 4)
       [] a = <<4, "noisy">> -> [main EXCEPT !.complained = 5]]

\* "   per       period samples function".
MCOverview == << <<"per">>, <<"period">>, <<"samples">>, <<"function">> >>
=============================================================================

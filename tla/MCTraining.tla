------------------------------ MODULE MCTraining ------------------------------
(***************************************************************************)
(* Training on small files: two classes, two attributes, one of them with  *)
(* a value the info file does not list, a label it does not list either.   *)
(***************************************************************************)
EXTENDS Training

MCClassNames == <<"x", "y">>

MCAttrValues == << <<"u", "v">>, <<"p", "q", "r">> >>

MCRows == { <<"u", "p">>, <<"v", "q">>, <<"v", "s">> }

MCBlocks ==
    [row : MCRows, label : {"x", "y", "z"}, times : {1, 2}]
        \cup [row : {<<"u", "p">>, <<"v", "q">>}, label : {"x", "y"}, times : {1300}]
        \cup [row : {<<"u", "p">>}, label : {"x"}, times : {3000}]

\* Ten natural logarithms, in thousandths, of the numbers three blocks add up to.
MCLog(k) ==
    CASE k = 1 -> 0         [] k = 2 -> 6931      [] k = 3 -> 10986
      [] k = 4 -> 13863     [] k = 5 -> 16094     [] k = 6 -> 17918
      [] k = 1300 -> 71701  [] k = 1301 -> 71709  [] k = 1302 -> 71717
      [] k = 1303 -> 71724  [] k = 1304 -> 71732  [] k = 2600 -> 78633
      [] k = 2601 -> 78637  [] k = 2602 -> 78640  [] k = 3000 -> 80064
      [] k = 3001 -> 80067  [] k = 3002 -> 80070  [] k = 3003 -> 80074
      [] k = 3004 -> 80077  [] k = 3900 -> 82687  [] k = 4300 -> 83664
      [] k = 4301 -> 83666  [] k = 4302 -> 83668  [] k = 5600 -> 86305
      [] k = 6000 -> 86995  [] k = 6001 -> 86997  [] k = 6002 -> 86998
      [] k = 7300 -> 88956  [] k = 9000 -> 91050
=============================================================================

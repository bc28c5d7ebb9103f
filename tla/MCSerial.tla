------------------------------ MODULE MCSerial ------------------------------
(* Values for the runs of SerialHistory: a BMS whose only cell is full,    *)
(* not full or not shown.                                                  *)
EXTENDS SerialHistory

Report(v, soc_) ==
  [total |-> v, cell |-> [c \in Cell |-> v], soc |-> soc_]

MCAnswers == {Report(3450, 100), Report(3300, 60), Report(0, 100)}

Set(fn_, count_, percent_, check_, full_, empty_) ==
  [fn |-> fn_, count |-> count_, percent |-> percent_, check |-> check_,
   soc100 |-> [d \in Device |-> full_], soc0 |-> [d \in Device |-> empty_]]

MCSettings == {Set(<<"jbd">>, 1, 4, TRUE, 3450, 3000), Set(<<"jk">>, 2, 4, TRUE, 3450, 0),
               Set(<<"none">>, 1, 0, FALSE, 0, 0)}

(* Two JBD-BMS, of a battery of 48 V and one of 24 V.                      *)
TwoSettings == {Set(<<"jbd", "jbd">>, 1, 0, FALSE, 0, 0)}
TwoAnswers  == {Report(3300, 60), Report(1650, 60)}
=============================================================================

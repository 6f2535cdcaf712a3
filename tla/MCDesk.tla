-------------------------------- MODULE MCDesk --------------------------------
(* Market data, the committee's models and their rotation, full cycles, the *)
(* factory's search, the licence, the desktop shell, a rented machine and the *)
(* news, for TLC: the initial state chooses the part that moves and its     *)
(* configuration.                                                           *)
EXTENDS Desk, TLC

CONSTANTS m1, m2  \* the models of a cycle

CycleModelsOfTwo == {m1, m2}
SomePhases == {{"p3", "p4", "p5", "p6"}, {"p3", "p4", "p6"}, {"p4", "p5", "p6"}, {"p3", "p5", "p6"},
               {"p3", "p4", "p5"}}

\* The runner's regimes, and the rotation's models.
UpOrFlat   == {"up", "flat"}
AssignedTo == [r \in UpOrFlat |-> IF r = "up" THEN {"svm", "mlp"} ELSE {"svm"}]
TwoLoaded  == <<"svm", "mlp">>
FourInAll  == <<"svm", "mlp", "gru", "tcn">>

\* The factory: the committee it starts with, and what it is started with: the
\* Sharpe ratios of the models are in hundredths.
RegimesInOrder == <<"up", "flat">>
SeatsAtFirst   == "up" :> <<"svm">> @@ "flat" :> <<"mlp", "svm">>
OneFallback    == <<"svm">>
Two   == [models |-> <<"svm", "mlp">>, iterations |-> 3, ratios |-> {0, 40},
          matrix |-> "up" :> ("svm" :> 10 @@ "mlp" :> 40) @@ "flat" :> ("svm" :> 50 @@ "mlp" :> -20)]
Three == [models |-> <<"svm", "mlp", "gru">>, iterations |-> 5, ratios |-> {0, 20, 40, 100},
          matrix |-> "up" :> ("svm" :> 10 @@ "mlp" :> 40 @@ "gru" :> 5)
                  @@ "flat" :> ("svm" :> 50 @@ "mlp" :> -20 @@ "gru" :> 60)]
By(proposer, s) == [proposer |-> proposer, models |-> s.models, matrix |-> s.matrix,
                    iterations |-> s.iterations, ratios |-> s.ratios]
Searches == {By("greedy", Three), By("hybrid", Two), By("llm", Two)}

----------------------------------------------------------------------------
ASSUME Assumptions == DeskAssumption

\* What stands still has one state.
OneStateEach ==
  /\ part # "bars" => keys
  /\ part # "store" => store_page = 2
  /\ part # "cycle" => opts = {"p3", "p4", "p5"}
  /\ part # "factory" => setup.proposer = "llm"
  /\ part # "shell" => system = "other"

CheckedInit  == SuiteInit /\ OneStateEach
CheckedSuite == CheckedInit /\ [][SuiteNext]_suiteVars

=============================================================================

---------------------------- MODULE MC_Commands ----------------------------
(* The constants of the runs: eight transactions, the chains they form, what  *)
(* an inspection may be asked for, and the six stages of a provenance chain.  *)
EXTENDS Commands

MCStage == 1..6

MCHash == 1..8

ASSUME StagesAssumption == StagesAreSix

\* A call that names the contract, takes effect and leaves no trace of itself.
Plain == [ok |-> TRUE, creates |-> {}, installs |-> None, writes |-> FALSE, names |-> TRUE,
          updates |-> FALSE, event |-> FALSE, wellFormed |-> TRUE]

MCTxs ==
    <<[Plain EXCEPT !.creates = {"instance", "persistent"}, !.installs = "v1", !.writes = TRUE,
                    !.event = TRUE],                              \* 1: the deployment
      [Plain EXCEPT !.updates = TRUE, !.installs = "v2", !.writes = TRUE],   \* 2: an upgrade
      [Plain EXCEPT !.creates = {"temporary"}, !.event = TRUE],   \* 3: a call that stores
      [Plain EXCEPT !.updates = TRUE, !.ok = FALSE],              \* 4: an upgrade that failed
      [Plain EXCEPT !.event = TRUE, !.wellFormed = FALSE],        \* 5: reported with no proper hash
      [Plain EXCEPT !.creates = {"instance"}, !.installs = "asset", !.writes = TRUE],  \* 6: an asset
      [Plain EXCEPT !.writes = TRUE, !.event = TRUE],             \* 7: a write to the instance
      [Plain EXCEPT !.names = FALSE, !.event = TRUE]>>            \* 8: a call from another contract

MCHistories == {<< <<>>, <<1>>, <<2, 8>> >>,
                << <<1>>, <<5, 7>>, <<4, 2>> >>,
                << <<1>>, <<3, 2>>, <<8>> >>,
                << <<6>>, <<>>, <<3, 7>> >>,
                << <<1, 3>>, <<7>>, <<4>>, <<2>> >>}

MCRequests ==
    {[keys |-> {}, scan |-> FALSE, reads |-> 2, resolve |-> FALSE, horizon |-> TRUE],
     [keys |-> {"persistent"}, scan |-> FALSE, reads |-> 2, resolve |-> TRUE, horizon |-> FALSE],
     [keys |-> Durability, scan |-> TRUE, reads |-> 2, resolve |-> TRUE, horizon |-> TRUE],
     [keys |-> {}, scan |-> TRUE, reads |-> 0, resolve |-> TRUE, horizon |-> TRUE]}
=============================================================================

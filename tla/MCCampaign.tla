----------------------------- MODULE MCCampaign -----------------------------
(***************************************************************************)
(* A campaign of three runs, two of them of the task that downloads, on a  *)
(* pool of two workers.  The agent runs from an image, which is always     *)
(* read, and with a flag, which is not always set and whose reading may    *)
(* fail; the campaign starts with the flag set.                            *)
(***************************************************************************)
EXTENDS Campaign

CONSTANTS t1, t5a, t5b, image, flag, old, new, on

MCPlan == <<t5a, t1, t5b>>
MCSerialized == {t5a, t5b}

Config(build, set) == [s \in Settings |-> IF s = image THEN build ELSE set]

MCSettings == {image, flag}
MCFlags    == {flag}
MCSources  == {{flag}}
MCValues   == {old, new, on}
MCConfigs  == {Config(old, on), Config(old, Unread), Config(new, on)}

MCInit == Init /\ config = Config(old, on)

MCSpec == MCInit /\ [][Next]_vars /\ Fairness
=============================================================================

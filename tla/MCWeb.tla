--------------------------------- MODULE MCWeb ---------------------------------
EXTENDS WebPages

CONSTANTS one, test, tests

MCRecs == 1..3
MCBoxes == {"client", "alias", "command"}
MCFields == [r \in MCRecs |->
                [client  |-> one,
                 alias   |-> IF r = 1 THEN tests ELSE test,
                 command |-> None]]
MCPart == {<<test, test>>, <<tests, tests>>, <<test, tests>>}
MCInitially == [r \in MCRecs |-> IF r = 2 THEN "active" ELSE "completed"]
MCValues == [b \in {"client", "alias", "command", "per"} |->
                CASE b = "alias" -> {test, tests}
                  [] b = "per" -> {2}
                  [] OTHER -> {}]
MCBookmarks == {[b \in {"client", "alias", "command", "per"} |->
                    IF b = "alias" THEN test ELSE None]}
=============================================================================

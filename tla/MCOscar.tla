-------------------------------- MODULE MCOscar --------------------------------
(***************************************************************************)
(* Bytes of eight values, so that a word has 64 and a message of two texts *)
(* with eleven bytes together is the longest that fits.                    *)
(***************************************************************************)
EXTENDS Oscar

MCValue == {<<>>, <<5>>, <<1, 2, 3>>, <<7, 6, 5, 4, 3, 2, 1, 0>>,
            <<1, 0, 7, 4, 7, 6, 5, 0, 1, 2, 3, 4>>}
MCRequestId == {<<0, 0, 0, 1>>}
MCNoise == {0, 1, 4, 7}
===============================================================================

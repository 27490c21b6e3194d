---------------------------- MODULE MCBootstrap ----------------------------
(* The lab's document, two edits of it that break a rule, and a production   *)
(* island's. Addresses are a few small numbers.                              *)
EXTENDS Bootstrap, TLC

CONSTANTS example1, example2, example3, example4

Prefix(address, size) == [address |-> address, size |-> size]

Lab == [profile |-> "lab", mcc |-> "001", mnc |-> "01", imsiPrefix |-> "00101",
        sites |-> <<<<1, 2>>, <<3, NoPci>>, <<NoPci>>>>,
        ue |-> Prefix(9, 4), services |-> Prefix(12, 4),
        association |-> "", contact |-> ""]
LabReused  == [Lab EXCEPT !.sites = <<<<1>>, <<2, 1>>>>]
LabOverlap == [Lab EXCEPT !.services = Prefix(1, 16)]
Atoll == [Lab EXCEPT !.profile = "production", !.mcc = "208", !.mnc = "93",
                     !.imsiPrefix = "20893", !.association = "Atoll",
                     !.contact = "radio"]

Bodies == {Lab, LabReused, LabOverlap, Atoll}

TheLab == [id |-> "lab", body |-> Lab]

Sources == {TheLab, [id |-> "atoll", body |-> Atoll],
            [id |-> "atoll", body |-> LabReused]}

Examples ==
    [nomad |-> example1, services |-> example2, matrix |-> example3, jitsi |-> example4]
=============================================================================

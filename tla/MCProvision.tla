---------------------------- MODULE MCProvision ----------------------------
(* Instances of Provision for TLC. *)
EXTENDS Provision

CONSTANTS i1, i2, i3, i4

ThreeIds == {i1, i2, i3}
FourIds  == {i1, i2, i3, i4}

Want(e, n, v, s) == [eip |-> e, nat |-> n, vpc |-> v, subnet |-> s]

(* Everything created by the operator; everything provided by the user; a  *)
(* subnet wanted in the user's VPC; a subnet named without its VPC.        *)
Everything == {Want("create", "create", FALSE, FALSE)}
AllGiven   == {Want("given", "given", TRUE, TRUE)}
UserVpc    == {Want("off", "off", TRUE, FALSE)}
SubnetOnly == {Want("off", "off", FALSE, TRUE)}
OwnNetwork == {Want("off", "off", FALSE, FALSE)}
AllWays    == Everything \cup AllGiven \cup UserVpc \cup SubnetOnly

AllFaults    == {"call", "reply", "write", "crash"}
FailingCalls == {"call"}
NoFaults     == {}
=============================================================================

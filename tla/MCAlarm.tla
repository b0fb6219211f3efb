------------------------------- MODULE MCAlarm -------------------------------
EXTENDS Alarm, TLC

CONSTANTS main, t1, t2

Perms == Permutations({t1, t2})
SleepTimes == {-1, 1, 2}
=============================================================================

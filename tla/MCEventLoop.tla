---------------------------- MODULE MCEventLoop ----------------------------
EXTENDS EventLoop

MCBudgets == {<<4, 0>>, <<1, 1>>, <<0, 2>>}
MCInterests == {{"in"}, {"in", "out"}}
=============================================================================

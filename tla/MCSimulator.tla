---------------------------- MODULE MCSimulator ----------------------------
EXTENDS Simulator
MCMaps == {{<<2, 1>>, <<1, 0>>}, {<<2, 0>>, <<3, 0>>, <<0, 2>>}}
=============================================================================

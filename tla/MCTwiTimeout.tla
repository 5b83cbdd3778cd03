---------------------------- MODULE MCTwiTimeout ----------------------------
\* What becomes of the queue of the two wire bus after twi_wait_message gave up
\* a message and its frame is used again (master.c:118).
EXTENDS TwiMaster

CONSTANTS adc, aux, rtc

MCMain == {rtc}
MCTick == {adc, aux}

\* One shape of each, scaled down.
MCShape(m) == {<<1, 2>>}
=============================================================================

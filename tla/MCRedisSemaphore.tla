-------------------------- MODULE MCRedisSemaphore --------------------------
EXTENDS RedisSemaphore

CONSTANTS c1, c2, c3
=============================================================================

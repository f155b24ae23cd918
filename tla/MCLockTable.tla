---------------------------- MODULE MCLockTable ----------------------------
EXTENDS LockTable
=============================================================================

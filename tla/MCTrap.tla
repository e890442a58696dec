-------------------------------- MODULE MCTrap --------------------------------
EXTENDS Trap
===============================================================================

------------------------------ MODULE MCMemory ------------------------------
EXTENDS Memory
MCSlug(name) == IF name = "Same name" THEN "same-name" ELSE name
=============================================================================

---------------------------- MODULE MCMemorySearch ----------------------------
(* MemorySearch with the values of MCMemoryService.                          *)
EXTENDS MCMemoryService, MemorySearch
=============================================================================

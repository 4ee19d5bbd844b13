---------------------------- MODULE MC_MergeCalls ----------------------------
EXTENDS MergeCalls

CONSTANTS Sym, V

MCStrKeys == {"id", "components"}

=============================================================================

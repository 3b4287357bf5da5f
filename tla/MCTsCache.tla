---- MODULE MCTsCache ----
EXTENDS TsCache
====

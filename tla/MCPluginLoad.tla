---- MODULE MCPluginLoad ----
EXTENDS PluginLoad
CONSTANTS a, b
====

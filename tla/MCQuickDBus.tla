---- MODULE MCQuickDBus ----
EXTENDS QuickDBus
CONSTANTS a, b
====

----------------------------- MODULE MCCompiler -----------------------------
(* Three C files and an LLVM file; for two C files LlvmFiles is empty.       *)
EXTENDS Compiler

CONSTANTS lib

OneLlvmFile == <<lib>>
NoLlvmFile == <<>>
=============================================================================

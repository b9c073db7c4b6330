-------------------------- MODULE MCTranslatorApp --------------------------
(* TranslatorApp with a word of each language: each translates to the      *)
(* other, and any other text to itself.                                    *)
EXTENDS TranslatorApp

MCTranslationOf(word, from) ==
  CASE word = "hola" /\ from = "es-to-cak" -> "saqarik"
    [] word = "saqarik" /\ from = "cak-to-es" -> "hola"
    [] OTHER -> word
=============================================================================

CONSTANTS
    Char <- MCChar
    AsciiChars <- MCAscii
    Utf8 <- MCUtf8
    SpecialForms <- MCSpecialForms
    StdlibMacros <- MCStdlibMacros
    Primitives <- MCPrimitives
    NilMapping <- MCNilMapping
    AsciiTokenReplacements <- MCAsciiTokenReplacements
    NonPrintable <- MCNonPrintable
    HexEscape <- MCHexEscape
    Inputs <- MCInputs
SPECIFICATION Spec
INVARIANT PreloadRewrite
CHECK_DEADLOCK FALSE

SPECIFICATION Spec
CONSTANTS
    DESKeys <- SomeDESKeys
    DESBlocks <- SomeDESBlocks
    AESKeySizes = {16, 24, 32}
    AESKeys <- SomeAESKeys
    AESBlocks <- SomeAESBlocks
    LetterCiphers <- SomeLetterCiphers
    LetterTexts <- SomeLetterTexts
    MaxInt = 2147483647
    HillKeys <- SomeHillKeys
    HillTexts <- SomeHillTexts
    PlayfairKeys <- SomePlayfairKeys
    PlayfairTexts <- SomePlayfairTexts
    RSAWords = 65536
    RSAKeyPairs <- SomeKeyPairs
    RSABytes <- SomeBytes
    HeapWords = {0, 5}
    NoKeys = NoKeys
    Failed = Failed
    BlockTexts <- SomeBlockTexts
    BlockKeys <- SomeBlockKeys
    KeySize = 1
    BlockSize = 2
    MaxPadding = 2
    Enc <- SomeEnc
    Dec <- SomeDec
    HeapBytes = {0, 107}
    SSLObjects <- SomeSSLObjects
    SSLTexts <- SomeSSLTexts
    IntLimit = 64
INVARIANT ModernRoundTrip
INVARIANT Mirror
INVARIANT ClassicRoundTrip
INVARIANT KeyRight
INVARIANT TextReturns
INVARIANT LibraryAccounted
CHECK_DEADLOCK FALSE
